------------------------- MODULE LiveEngine_proofs -------------------------
(***************************************************************************)
(* Proofs about LiveEngine for any instruments, equities, limits, bounds   *)
(* and, where not said otherwise, any faults.                              *)
(***************************************************************************)
EXTENDS LiveEngine, RiskRules_proofs, FiniteSetTheorems

----------------------------------------------------------------------------
(* Where a loop or a save goes on. *)

CloseLabels == {"close", "fallback", "probe", "closed", "closed2"}

ControlInv ==
  /\ after \in Continuations
  /\ pc = "boot" => after = "started"
  /\ pc = "idle" => after = "idle"
  /\ pc \in {"reconcile", "persist", "persist2"} => after \in {"started", "idle", "stop"}
  /\ pc \in CloseLabels => after \in {"exit", "idle", "entry", "flattened"}

LEMMA InitControl == Init => ControlInv
BY DEF Init, ControlInv, Continuations, CloseLabels

LEMMA NextControl ==
  ASSUME ControlInv, [Next]_vars
  PROVE  ControlInv'
<1> USE DEF ControlInv, Continuations, CloseLabels, GoTo, Return, SaveThen,
        CloseThen, Die, memory, store, broker
<1>1. CASE RestoreState \/ ReconcilePositions \/ ReconcileFails
           \/ SavePositions \/ SaveRisk
  BY <1>1 DEF RestoreState, ReconcilePositions, ReconcileFails, SavePositions,
              SaveRisk
<1>2. CASE StartKilled \/ Stream \/ Exit \/ Halt
  BY <1>2 DEF StartKilled, Stream, Exit, Halt
<1>3. ASSUME NEW d \in Days, NEW e \in Equities \cup {equity}, Refresh(d, e)
      PROVE  ControlInv'
  BY <1>3 DEF Refresh
<1>4. CASE Flattened \/ Stop \/ Hold \/ ExitSignal \/ Reject \/ Approve
  BY <1>4 DEF Flattened, Stop, Hold, ExitSignal, Reject, Approve
<1>5. ASSUME NEW s \in Sides, EntrySignal(s) PROVE ControlInv'
  BY <1>5 DEF EntrySignal
<1>6. CASE Opening
  BY <1>6 DEF Opening, PrecheckFinds, PrecheckPasses, CreateAccepted,
              CreateUnnamed, CreateDeclined, CreateFails, CreateLost,
              CreateRetried, Confirmed, ConfirmRejected, Resolve, Record,
              ExecutionFails
<1>7. CASE Closing
  BY <1>7 DEF Closing, CloseLoopEnds, Close, CloseFails, CloseEpic,
              CloseEpicFails, ProbeGone, ProbeKeeps, RemovePosition,
              SaveRiskClosed
<1>8. CASE Environment
  BY <1>8 DEF Environment, Boot, Reconnect, Candle, BrokerCloses, Crash,
              Terminate, Interrupt
<1>9. CASE UNCHANGED vars
  BY <1>9 DEF vars
<1> QED
  BY <1>1, <1>2, <1>3, <1>4, <1>5, <1>6, <1>7, <1>8, <1>9 DEF Next, EngineStep

----------------------------------------------------------------------------
(* One deal per instrument. *)

\* A deal is created only where the broker has none of the instrument.
DealInv ==
  /\ OneDealPerEpic
  /\ pc = "create" => OpenDeals(job.epic) = {}

\* Steps that open nothing, and enter "create" only from itself.
LEMMA NoNewDeal ==
  ASSUME DealInv, book' \subseteq book, pc' = "create" => pc = "create" /\ job' = job
  PROVE  DealInv'
BY DEF DealInv, OneDealPerEpic, OpenDeals

LEMMA NewDeal ==
  ASSUME DealInv, pc = "create", OpenDeal, pc' # "create"
  PROVE  DealInv'
BY DEF DealInv, OneDealPerEpic, OpenDeals, OpenDeal

LEMMA NextDeal ==
  ASSUME ControlInv, DealInv, [Next]_vars,
         "lookup" \notin Faults, "gateway" \notin Faults
  PROVE  DealInv'
<1> USE DEF ControlInv, Continuations, CloseLabels, GoTo, Return, SaveThen,
        CloseThen, Die, memory, store, broker
<1>1. CASE RestoreState \/ ReconcilePositions \/ ReconcileFails
           \/ SavePositions \/ SaveRisk
  BY <1>1, NoNewDeal DEF RestoreState, ReconcilePositions, ReconcileFails,
                         SavePositions, SaveRisk
<1>2. CASE StartKilled \/ Stream \/ Exit \/ Halt
  BY <1>2, NoNewDeal DEF StartKilled, Stream, Exit, Halt
<1>3. ASSUME NEW d \in Days, NEW e \in Equities \cup {equity}, Refresh(d, e)
      PROVE  DealInv'
  BY <1>3, NoNewDeal DEF Refresh
<1>4. CASE Flattened \/ Stop \/ Hold \/ ExitSignal \/ Reject \/ Approve
  BY <1>4, NoNewDeal DEF Flattened, Stop, Hold, ExitSignal, Reject, Approve
<1>5. ASSUME NEW s \in Sides, EntrySignal(s) PROVE DealInv'
  BY <1>5, NoNewDeal DEF EntrySignal
<1>6. CASE Opening
  <2>1. CASE PrecheckPasses
    BY <2>1 DEF PrecheckPasses, DealInv, OneDealPerEpic, OpenDeals
  <2>2. CASE CreateAccepted \/ CreateUnnamed \/ CreateLost
    BY <2>2, NewDeal DEF CreateAccepted, CreateUnnamed, CreateLost, Record,
                         ExecutionFails
  <2>3. CASE PrecheckFinds \/ CreateDeclined \/ CreateFails \/ Confirmed
             \/ ConfirmRejected \/ Resolve
    BY <2>3, NoNewDeal DEF PrecheckFinds, CreateDeclined, CreateFails,
                           Confirmed, ConfirmRejected, Resolve, Record,
                           ExecutionFails
  <2> QED
    BY <1>6, <2>1, <2>2, <2>3 DEF Opening, CreateRetried
<1>7. CASE Closing
  BY <1>7, NoNewDeal DEF Closing, CloseLoopEnds, Close, CloseFails, CloseEpic,
                         CloseEpicFails, ProbeGone, ProbeKeeps, RemovePosition,
                         SaveRiskClosed
<1>8. CASE Environment
  BY <1>8, NoNewDeal DEF Environment, Boot, Reconnect, Candle, BrokerCloses,
                         Crash, Terminate, Interrupt
<1>9. CASE UNCHANGED vars
  BY <1>9, NoNewDeal DEF vars
<1> QED
  BY <1>1, <1>2, <1>3, <1>4, <1>5, <1>6, <1>7, <1>8, <1>9 DEF Next, EngineStep

(***************************************************************************)
(* As long as reads of /positions succeed and no 503 hides a deal, the     *)
(* broker never holds two deals of one instrument, whatever else fails:    *)
(* lost answers, crashes, signals, failed confirmations and closes         *)
(* (execution/live.py:34-50).                                              *)
(***************************************************************************)
THEOREM IdempotentOpen ==
  ASSUME "lookup" \notin Faults, "gateway" \notin Faults
  PROVE  Spec => []OneDealPerEpic
<1>1. Init => DealInv
  BY DEF Init, DealInv, OneDealPerEpic
<1>2. DealInv => OneDealPerEpic
  BY DEF DealInv
<1>3. ControlInv /\ DealInv /\ [Next]_vars => DealInv'
  BY NextDeal
<1> QED
  BY <1>1, <1>2, <1>3, InitControl, NextControl, PTL DEF Spec

----------------------------------------------------------------------------
(* Types. *)

\* An order is at work, or will be when the opposite position is closed.
Entering ==
  \/ pc \in {"entry", "precheck", "create", "confirm", "resolve"}
  \/ pc \in CloseLabels /\ after = "entry"

\* What an order needs on its way.
OrderInv ==
  /\ pc \in {"accounts", "signal"} => job.epic \in Epics
  /\ Entering => job.epic \in Epics /\ job.side \in Sides
  /\ pc \in {"precheck", "create", "confirm"} => failures < ExecFailureLimit

TypeInv == TypeOK /\ ControlInv /\ OrderInv

LEMMA InitType == Init => TypeInv
<1> SUFFICES ASSUME Init PROVE TypeInv
  OBVIOUS
<1>1. ControlInv
  BY InitControl
<1>2. OrderInv
  BY DEF Init, OrderInv, Entering, CloseLabels
<1>3. NoJob \in Jobs /\ NoPositions \in PositionMaps /\ NewRisk \in RiskStates
  BY NewRiskType DEF NoJob, Jobs, NoPositions, PositionMaps
<1>4. /\ 0 \in 0..ExecFailureLimit /\ 0 \in 0..MaxDeals
      /\ StartingEquity \in Int
  BY EngineAssumption
<1>5. TypeOK
  BY <1>3, <1>4 DEF Init, TypeOK, Labels, Continuations
<1> QED
  BY <1>1, <1>2, <1>5 DEF TypeInv

LEMMA DieType ==
  ASSUME TypeInv, Die, UNCHANGED broker,
         dbPos' \in PositionMaps, dbRisk' \in Snapshots \cup {NoState}
  PROVE  TypeOK' /\ OrderInv'
<1>1. NoJob \in Jobs /\ NoPositions \in PositionMaps /\ NewRisk \in RiskStates
  BY NewRiskType DEF NoJob, Jobs, NoPositions, PositionMaps
<1>4. 0 \in 0..ExecFailureLimit /\ StartingEquity \in Int
  BY EngineAssumption
<1>2. TypeOK'
  BY <1>1, <1>4 DEF TypeInv, TypeOK, Die, broker, Labels, Continuations
<1>3. OrderInv'
  BY DEF Die, OrderInv, Entering, CloseLabels
<1> QED
  BY <1>2, <1>3

LEMMA OpenDealType ==
  ASSUME TypeInv, pc = "create", OpenDeal
  PROVE  /\ book' \subseteq Deals
         /\ created' \in 1..MaxDeals
<1>1. job.epic \in Epics /\ job.side \in Sides
  BY DEF TypeInv, OrderInv, Entering
<1>2. created + 1 \in 1..MaxDeals
  BY EngineAssumption DEF TypeInv, TypeOK, OpenDeal
<1> QED
  BY <1>1, <1>2 DEF TypeInv, TypeOK, OpenDeal, Deals

LEMMA RecordType ==
  ASSUME TypeInv, pc \in {"precheck", "create", "resolve"},
         NEW n \in 1..MaxDeals \cup {NoDeal}, Record(n),
         book' \subseteq Deals, created' \in 0..MaxDeals
  PROVE  TypeOK' /\ OrderInv'
<1>1. [side |-> job.side, deal |-> n, levels |-> TRUE] \in Positions
  BY DEF TypeInv, OrderInv, Entering, Positions
<1>2. positions' \in PositionMaps
  BY <1>1 DEF TypeInv, TypeOK, PositionMaps, Record
<1>3. TypeOK'
  BY <1>2, EngineAssumption
     DEF TypeInv, TypeOK, Record, SaveThen, store, Labels, Continuations
<1>4. OrderInv'
  BY DEF Record, SaveThen, OrderInv, Entering, CloseLabels
<1> QED
  BY <1>3, <1>4

LEMMA FailType ==
  ASSUME TypeInv, pc \in {"create", "confirm"}, ExecutionFails,
         book' \subseteq Deals, created' \in 0..MaxDeals
  PROVE  TypeOK' /\ OrderInv'
<1>1. failures' \in 0..ExecFailureLimit
  BY EngineAssumption DEF TypeInv, TypeOK, OrderInv, ExecutionFails
<1>2. NoJob \in Jobs
  BY DEF NoJob, Jobs
<1>3. TypeOK'
  BY <1>1, <1>2 DEF TypeInv, TypeOK, ExecutionFails, Return, store, Labels, Continuations
<1>4. OrderInv'
  BY DEF ExecutionFails, Return, OrderInv, Entering, CloseLabels
<1> QED
  BY <1>3, <1>4

\* What reconciliation makes of an instrument: its deal, with the levels shown
\* or recovered, or nothing.
LEMMA AdoptedOne ==
  ASSUME NEW p \in Adoptions, NEW e \in Epics
  PROVE  \/ OpenDeals(e) = {} /\ p[e] = NoPosition
         \/ \E d \in OpenDeals(e), shown \in BOOLEAN :
              p[e] = [side |-> d.side, deal |-> d.id,
                      levels |-> shown \/ Recovered(e)]
<1>1. p[e] \in Listed(e)
  BY DEF Adoptions
<1> QED
  BY <1>1 DEF Listed

LEMMA AdoptedRecord ==
  ASSUME TypeOK, NEW e \in Epics, NEW d \in OpenDeals(e), NEW shown \in BOOLEAN
  PROVE  [side |-> d.side, deal |-> d.id,
          levels |-> shown \/ Recovered(e)] \in Positions
<1>1. Recovered(e) \in BOOLEAN
  <2>1. CASE e \in Held
    <3>1. positions[e] \in Positions
      BY <2>1 DEF Held, TypeOK, PositionMaps
    <3>2. positions[e].levels \in BOOLEAN
      BY <3>1 DEF Positions
    <3> QED
      BY <2>1, <3>2 DEF Recovered
  <2>2. CASE e \notin Held
    <3>1. Recovered(e) = (e \in persisted)
      BY <2>2 DEF Recovered
    <3> QED
      BY <3>1
  <2> QED
    BY <2>1, <2>2
<1>2. d.side \in Sides /\ d.id \in 1..MaxDeals
  BY DEF TypeOK, OpenDeals, Deals
<1> QED
  BY <1>1, <1>2 DEF Positions

LEMMA AdoptedType ==
  ASSUME TypeOK, NEW p \in Adoptions
  PROVE  p \in PositionMaps
<1>1. p \in [Epics -> UNION {Listed(e) : e \in Epics}]
  BY DEF Adoptions
<1>2. ASSUME NEW e \in Epics PROVE p[e] \in Positions \cup {NoPosition}
  BY AdoptedOne, AdoptedRecord
<1> QED
  BY <1>1, <1>2 DEF PositionMaps

LEMMA NextType ==
  ASSUME TypeInv, [Next]_vars
  PROVE  TypeInv'
<1> USE EngineAssumption
<1>1. ControlInv'
  BY NextControl DEF TypeInv
<1> SUFFICES TypeOK' /\ OrderInv'
  BY <1>1 DEF TypeInv
<1> USE DEF TypeInv, TypeOK, ControlInv, OrderInv, Entering, Labels,
        Continuations, CloseLabels, GoTo, Return, SaveThen, memory, store, broker
<1>2. NoJob \in Jobs
  BY DEF NoJob, Jobs
<1>3. /\ Held \subseteq Epics
      /\ \A q \in SUBSET Epics : [job EXCEPT !.queue = q] \in Jobs
  BY DEF Held, Jobs
<1>4. \A d \in book : d.id \in 1..MaxDeals
  BY DEF Deals
<1>5. CASE RestoreState
  BY <1>5, RestoreType DEF RestoreState
<1>6. CASE ReconcilePositions
  <2>1. positions' \in PositionMaps
    BY <1>6, AdoptedType DEF ReconcilePositions
  <2> QED
    BY <1>6, <2>1 DEF ReconcilePositions
<1>7. CASE ReconcileFails
  <2>1. CASE after = "started"
    BY <1>7, <2>1, DieType DEF ReconcileFails
  <2>2. CASE after # "started"
    BY <1>2, <1>7, <2>2 DEF ReconcileFails
  <2> QED
    BY <2>1, <2>2
<1>8. CASE SavePositions
  BY <1>8 DEF SavePositions
<1>9. CASE SaveRisk
  BY <1>2, <1>9, SnapshotType DEF SaveRisk
<1>10. CASE StartKilled
  BY <1>3, <1>10 DEF StartKilled, CloseThen
<1>11. CASE Stream
  BY <1>2, <1>11 DEF Stream
<1>12. CASE Exit \/ Halt
  BY <1>12, DieType DEF Exit, Halt
<1>13. ASSUME NEW d \in Days, NEW e \in Equities \cup {equity}, Refresh(d, e)
       PROVE  TypeOK' /\ OrderInv'
  <2>1. e \in Int /\ UpdateEquity(risk, d, e) \in RiskStates
    BY UpdateType
  <2>2. (killFlattened /\ UpdateEquity(risk, d, e).killed) \in BOOLEAN
    OBVIOUS
  <2>3. /\ equity' \in Int /\ risk' \in RiskStates /\ killFlattened' \in BOOLEAN
        /\ UNCHANGED <<positions, persisted, failures, stopped, store, broker>>
    BY <1>13, <2>1, <2>2 DEF Refresh
  <2>4. \/ GoTo("signal") \/ CloseThen(Held, "flattened") \/ Return
        \/ GoTo("stop")
    BY <1>13 DEF Refresh
  <2>5. pc = "accounts"
    BY <1>13 DEF Refresh
  <2> QED
    BY <1>2, <1>3, <2>3, <2>4, <2>5 DEF CloseThen
<1>14. CASE Flattened
  BY <1>14 DEF Flattened
<1>15. CASE Stop \/ Hold \/ Reject
  BY <1>2, <1>15, SnapshotType DEF Stop, SaveAll, Hold, Reject
<1>16. CASE ExitSignal
  BY <1>3, <1>16 DEF ExitSignal, CloseThen
<1>17. ASSUME NEW s \in Sides, EntrySignal(s) PROVE TypeOK' /\ OrderInv'
  <2>1. pc = "signal" /\ job.epic \in Epics
    BY <1>17 DEF EntrySignal
  <2>2. /\ [job EXCEPT !.side = s] \in Jobs
        /\ [job EXCEPT !.side = s, !.queue = {job.epic}] \in Jobs
    BY <2>1 DEF Jobs
  <2>3. /\ [job EXCEPT !.side = s].side = s
        /\ [job EXCEPT !.side = s].epic = job.epic
        /\ [job EXCEPT !.side = s, !.queue = {job.epic}].side = s
        /\ [job EXCEPT !.side = s, !.queue = {job.epic}].epic = job.epic
    BY DEF Jobs
  <2> QED
    BY <1>2, <1>17, <2>1, <2>2, <2>3 DEF EntrySignal
<1>18. CASE Approve
  BY <1>18 DEF Approve
<1>19. CASE Opening
  <2>1. CASE PrecheckFinds
    BY <1>4, <2>1, RecordType DEF PrecheckFinds, OpenDeals
  <2>2. CASE PrecheckPasses \/ CreateDeclined \/ Confirmed
    BY <2>2 DEF PrecheckPasses, CreateDeclined, Confirmed
  <2>3. CASE CreateAccepted
    <3>1. book' \subseteq Deals /\ created' \in 1..MaxDeals /\ created' = created + 1
      BY <2>3, OpenDealType DEF CreateAccepted, OpenDeal
    <3>2. [job EXCEPT !.deal = created + 1] \in Jobs
      BY <3>1 DEF Jobs
    <3>3. /\ [job EXCEPT !.deal = created + 1].side = job.side
          /\ [job EXCEPT !.deal = created + 1].epic = job.epic
      BY DEF Jobs
    <3> QED
      BY <2>3, <3>1, <3>2, <3>3 DEF CreateAccepted
  <2>4. CASE CreateUnnamed
    <3>1. pc = "create" /\ OpenDeal /\ Record(NoDeal)
      BY <2>4 DEF CreateUnnamed
    <3>2. book' \subseteq Deals /\ created' \in 0..MaxDeals
      BY <3>1, OpenDealType
    <3> QED
      BY <3>1, <3>2, RecordType
  <2>5. CASE CreateFails \/ ConfirmRejected
    BY <2>5, FailType DEF CreateFails, ConfirmRejected
  <2>6. CASE CreateLost
    BY <2>6, OpenDealType, FailType DEF CreateLost
  <2>7. CASE CreateRetried
    BY <2>7, OpenDealType DEF CreateRetried
  <2>8. CASE Resolve
    BY <1>4, <2>8, RecordType DEF Resolve, Resolved, OpenDeals
  <2> QED
    BY <1>19, <2>1, <2>2, <2>3, <2>4, <2>5, <2>6, <2>7, <2>8 DEF Opening
<1>20. CASE Closing
  <2>1. CASE CloseLoopEnds
    BY <1>2, <2>1 DEF CloseLoopEnds
  <2>2. ASSUME NEW e \in Epics, Close(e) \/ CloseFails(e)
        PROVE  TypeOK' /\ OrderInv'
    <3>1. [job EXCEPT !.queue = @ \ {e}, !.closing = e] \in Jobs
      BY DEF Jobs
    <3>2. /\ [job EXCEPT !.queue = @ \ {e}, !.closing = e].side = job.side
          /\ [job EXCEPT !.queue = @ \ {e}, !.closing = e].epic = job.epic
      BY DEF Jobs
    <3> QED
      BY <2>2, <3>1, <3>2 DEF Close, CloseFails
  <2>3. CASE CloseEpic \/ CloseEpicFails \/ ProbeGone \/ ProbeKeeps
    BY <2>3 DEF CloseEpic, CloseEpicFails, ProbeGone, ProbeKeeps
  <2>4. CASE RemovePosition
    BY <2>4 DEF RemovePosition, PositionMaps
  <2>5. CASE SaveRiskClosed
    <3>1. [job EXCEPT !.closing = NoEpic] \in Jobs
      BY DEF Jobs
    <3>2. /\ [job EXCEPT !.closing = NoEpic].side = job.side
          /\ [job EXCEPT !.closing = NoEpic].epic = job.epic
      BY DEF Jobs
    <3> QED
      BY <2>5, <3>1, <3>2, SnapshotType DEF SaveRiskClosed
  <2> QED
    BY <1>20, <2>1, <2>2, <2>3, <2>4, <2>5 DEF Closing
<1>21. CASE Environment
  <2>1. CASE Boot \/ Reconnect
    BY <2>1 DEF Boot, Reconnect
  <2>2. ASSUME NEW e \in Epics, Candle(e) PROVE TypeOK' /\ OrderInv'
    <3>1. /\ [NoJob EXCEPT !.epic = e] \in Jobs
          /\ [NoJob EXCEPT !.epic = e].epic = e
      BY DEF NoJob, Jobs
    <3> QED
      BY <2>2, <3>1 DEF Candle
  <2>3. ASSUME NEW d \in book, BrokerCloses(d) PROVE TypeOK' /\ OrderInv'
    BY <2>3 DEF BrokerCloses
  <2>4. CASE Crash
    BY <2>4, DieType DEF Crash
  <2>5. CASE Terminate
    BY <2>5, SnapshotType DEF Terminate, SaveAll
  <2>6. CASE Interrupt
    BY <2>6, DieType, SnapshotType DEF Interrupt, SaveAll
  <2> QED
    BY <1>21, <2>1, <2>2, <2>3, <2>4, <2>5, <2>6 DEF Environment
<1>22. CASE UNCHANGED vars
  BY <1>22 DEF vars
<1> QED
  BY <1>5, <1>6, <1>7, <1>8, <1>9, <1>10, <1>11, <1>12, <1>13, <1>14, <1>15,
     <1>16, <1>17, <1>18, <1>19, <1>20, <1>21, <1>22 DEF Next, EngineStep

(***************************************************************************)
(* The engine's memory, store and broker keep their types; in particular   *)
(* the count of execution failures never passes its limit, and a deal is   *)
(* only opened for an instrument and a side (live_engine.py:306-372).      *)
(***************************************************************************)
THEOREM EngineTypeCorrect == Spec => []TypeOK
<1>1. TypeInv => TypeOK
  BY DEF TypeInv
<1> QED
  BY <1>1, InitType, NextType, PTL DEF Spec

----------------------------------------------------------------------------
(* The kill switch. *)

(***************************************************************************)
(* From the refresh of the equity to the order no step trips the switch,   *)
(* and in all-time mode what is on disk is in memory once restored.        *)
(***************************************************************************)
BlockInv ==
  /\ pc = "signal" \/ Entering => ~risk.killed
  /\ pc \in {"precheck", "create"} => ~risk.halted
  /\ (~Recoverable /\ DurablyKilled /\ pc \notin {"down", "boot"}) => risk.killed

LEMMA SnapshotKilled ==
  ASSUME risk \in RiskStates, dbRisk' = Snapshot(risk)
  PROVE  DurablyKilled' <=> risk.killed
BY SnapshotType, NoStateAssumption DEF DurablyKilled, Snapshot

\* A tripped switch stays tripped in all-time mode.
LEMMA StickyKill ==
  ASSUME NEW r \in RiskStates, NEW d \in Days, NEW e \in Int, ~Recoverable,
         r.killed
  PROVE  UpdateEquity(r, d, e).killed
<1>1. ~Rolling
  BY WindowAssumption DEF Recoverable, Rolling
<1> QED
  BY <1>1, UpdateAllTime

LEMMA NextBlock ==
  ASSUME TypeInv, BlockInv, [Next]_vars
  PROVE  BlockInv'
<1> USE DEF BlockInv, Entering, CloseLabels, GoTo, Return, SaveThen, Die,
        memory, store, broker
<1>1. /\ risk \in RiskStates /\ equity \in Int
      /\ ControlInv
  BY DEF TypeInv, TypeOK
<1>2. UNCHANGED dbRisk => DurablyKilled' = DurablyKilled
  BY DEF DurablyKilled
<1> USE DEF ControlInv
<1>3. CASE RestoreState
  <2>1. (dbRisk # NoState => risk'.killed = dbRisk.killed)
    BY <1>1, <1>3 DEF RestoreState, Restore, RiskStates
  <2> QED
    BY <1>2, <1>3, <2>1 DEF RestoreState, DurablyKilled
<1>4. CASE ReconcilePositions \/ ReconcileFails \/ SavePositions
  BY <1>1, <1>2, <1>4 DEF ReconcilePositions, ReconcileFails, SavePositions
<1>5. CASE SaveRisk
  <2>1. DurablyKilled' <=> risk.killed
    BY <1>1, <1>5, SnapshotKilled DEF SaveRisk
  <2> QED
    BY <1>1, <1>5, <2>1 DEF SaveRisk
<1>6. CASE StartKilled \/ Stream \/ Exit \/ Halt
  BY <1>1, <1>2, <1>6 DEF StartKilled, Stream, Exit, Halt, CloseThen
<1>7. ASSUME NEW d \in Days, NEW e \in Equities \cup {equity}, Refresh(d, e)
      PROVE  BlockInv'
  <2>1. e \in Int
    BY <1>1, EngineAssumption
  <2>2. ~Recoverable /\ risk.killed => UpdateEquity(risk, d, e).killed
    BY <1>1, <2>1, StickyKill
  <2>3. /\ pc = "accounts"
        /\ risk' = UpdateEquity(risk, d, e)
        /\ UNCHANGED dbRisk
        /\ \/ ~UpdateEquity(risk, d, e).killed /\ pc' = "signal"
           \/ pc' = "close" /\ after' = "flattened"
           \/ pc' = "idle" \/ pc' = "stop"
    BY <1>7 DEF Refresh, CloseThen
  <2> QED
    BY <1>2, <2>2, <2>3
<1>8. CASE Flattened \/ Stop \/ Hold \/ ExitSignal \/ Reject
  <2>1. CASE Stop
    <3>1. DurablyKilled' <=> risk.killed
      BY <1>1, <2>1, SnapshotKilled DEF Stop, SaveAll
    <3> QED
      BY <2>1, <3>1 DEF Stop
  <2>2. CASE Flattened \/ Hold \/ ExitSignal \/ Reject
    BY <1>1, <1>2, <2>2 DEF Flattened, Hold, ExitSignal, Reject, CloseThen
  <2> QED
    BY <1>8, <2>1, <2>2
<1>9. ASSUME NEW s \in Sides, EntrySignal(s) PROVE BlockInv'
  BY <1>1, <1>2, <1>9 DEF EntrySignal
<1>10. CASE Approve
  BY <1>1, <1>2, <1>10 DEF Approve, MayEnter
<1>11. CASE Opening
  <2>1. /\ pc \in {"precheck", "create", "confirm", "resolve"}
        /\ pc' # "signal" /\ pc' # "precheck"
        /\ pc' = "create" => pc \in {"precheck", "create"}
        /\ UNCHANGED <<risk, dbRisk>>
    BY <1>11
       DEF Opening, PrecheckFinds, PrecheckPasses, CreateAccepted,
           CreateUnnamed, CreateDeclined, CreateFails, CreateLost,
           CreateRetried, Confirmed, ConfirmRejected, Resolve, Record,
           ExecutionFails
  <2> QED
    BY <1>2, <2>1
<1>12. CASE Closing
  <2>1. CASE SaveRiskClosed
    <3>1. DurablyKilled' <=> risk.killed
      BY <1>1, <2>1, SnapshotKilled DEF SaveRiskClosed
    <3> QED
      BY <2>1, <3>1 DEF SaveRiskClosed
  <2>2. CASE CloseLoopEnds
    BY <1>1, <1>2, <2>2 DEF CloseLoopEnds
  <2>3. CASE Closing /\ ~SaveRiskClosed /\ ~CloseLoopEnds
    <3>1. /\ pc \in CloseLabels /\ pc' \in CloseLabels
          /\ UNCHANGED <<after, risk, dbRisk>>
      BY <2>3
         DEF Closing, Close, CloseFails, CloseEpic, CloseEpicFails, ProbeGone,
             ProbeKeeps, RemovePosition
    <3> QED
      BY <1>2, <3>1
  <2> QED
    BY <1>12, <2>1, <2>2, <2>3
<1>13. CASE Environment
  <2>1. CASE Terminate
    <3>1. DurablyKilled' <=> risk.killed
      BY <1>1, <2>1, SnapshotKilled DEF Terminate, SaveAll
    <3> QED
      BY <2>1, <3>1 DEF Terminate
  <2>2. CASE Environment /\ ~Terminate
    BY <1>1, <1>2, <2>2
       DEF Environment, Boot, Reconnect, Candle, BrokerCloses, Crash, Interrupt
  <2> QED
    BY <1>13, <2>1, <2>2
<1>14. CASE UNCHANGED vars
  BY <1>2, <1>14 DEF vars
<1> QED
  BY <1>3, <1>4, <1>5, <1>6, <1>7, <1>8, <1>9, <1>10, <1>11, <1>12, <1>13,
     <1>14 DEF Next, EngineStep

EngineInv == TypeInv /\ BlockInv

LEMMA EngineInvariant == Spec => []EngineInv
<1>1. Init => EngineInv
  <2>1. Init => BlockInv
    BY DEF Init, BlockInv, Entering, CloseLabels
  <2> QED
    BY <2>1, InitType DEF EngineInv
<1>2. EngineInv /\ [Next]_vars => EngineInv'
  BY NextType, NextBlock DEF EngineInv
<1> QED
  BY <1>1, <1>2, PTL DEF Spec

\* Only a broker call at "create" opens a deal.
LEMMA CreatesAtCreate ==
  ASSUME [Next]_vars, created' # created
  PROVE  pc = "create"
<1> USE DEF Die, GoTo, Return, SaveThen, CloseThen, memory, store, broker
<1>1. CASE Opening
  BY <1>1 DEF Opening, PrecheckFinds, PrecheckPasses, CreateAccepted,
              CreateUnnamed, CreateDeclined, CreateFails, CreateLost,
              CreateRetried, Confirmed, ConfirmRejected, Resolve
<1>2. CASE Closing
  BY <1>2 DEF Closing, CloseLoopEnds, Close, CloseFails, CloseEpic,
              CloseEpicFails, ProbeGone, ProbeKeeps, RemovePosition,
              SaveRiskClosed
<1>3. CASE Environment
  BY <1>3 DEF Environment, Boot, Reconnect, Candle, BrokerCloses, Crash,
              Terminate, Interrupt
<1>4. CASE EngineStep /\ ~Opening /\ ~Closing
  BY <1>4 DEF EngineStep, RestoreState, ReconcilePositions, ReconcileFails,
              SavePositions, SaveRisk, StartKilled, Stream, Exit, Halt,
              Refresh, Flattened, Stop, Hold, ExitSignal, EntrySignal, Reject,
              Approve
<1> QED
  BY <1>1, <1>2, <1>3, <1>4 DEF Next, vars

LEMMA BlockedStaysShut ==
  ASSUME EngineInv, [Next]_vars, Blocked
  PROVE  created' = created
<1> SUFFICES ASSUME created' # created
             PROVE  FALSE
  OBVIOUS
<1>1. pc = "create"
  BY CreatesAtCreate
<1>2. ~risk.killed /\ ~risk.halted
  BY <1>1 DEF EngineInv, BlockInv, Entering
<1>3. ~(failures >= ExecFailureLimit)
  BY <1>1, EngineAssumption DEF EngineInv, TypeInv, TypeOK, OrderInv
<1>4. ~(~Recoverable /\ DurablyKilled)
  BY <1>1, <1>2 DEF EngineInv, BlockInv
<1> QED
  BY <1>2, <1>3, <1>4 DEF Blocked

(***************************************************************************)
(* No deal is opened under a tripped switch, in memory or (all-time mode)  *)
(* only on disk, nor under a daily halt or the execution halt, whatever    *)
(* fails and however the process ends (live_engine.py:266-335,             *)
(* risk/manager.py:178-182).                                               *)
(***************************************************************************)
THEOREM BlockedOpensNothing == Spec => NoDealWhileBlocked
<1>1. EngineInv /\ [Next]_vars => (Blocked => created' = created)
  BY BlockedStaysShut
<1> QED
  BY <1>1, EngineInvariant, PTL DEF Spec, NoDealWhileBlocked

\* What the risk state on disk is replaced by.
LEMMA DiskChanges ==
  ASSUME "early" \notin Faults, [Next]_vars
  PROVE  UNCHANGED dbRisk \/ (dbRisk' = Snapshot(risk) /\ pc \notin {"down", "boot"})
<1> USE DEF Die, GoTo, Return, SaveThen, CloseThen, memory, store, broker
<1>1. CASE Opening
  BY <1>1 DEF Opening, PrecheckFinds, PrecheckPasses, CreateAccepted,
              CreateUnnamed, CreateDeclined, CreateFails, CreateLost,
              CreateRetried, Confirmed, ConfirmRejected, Resolve, Record,
              ExecutionFails
<1>2. CASE Closing
  BY <1>2 DEF Closing, CloseLoopEnds, Close, CloseFails, CloseEpic,
              CloseEpicFails, ProbeGone, ProbeKeeps, RemovePosition,
              SaveRiskClosed
<1>3. CASE Environment
  BY <1>3 DEF Environment, Boot, Reconnect, Candle, BrokerCloses, Crash,
              Terminate, Interrupt, SaveAll, MaySignal, Unready
<1>4. CASE EngineStep /\ ~Opening /\ ~Closing
  BY <1>4 DEF EngineStep, RestoreState, ReconcilePositions,
              ReconcileFails, SavePositions, SaveRisk, StartKilled,
              Stream, Exit, Halt, Refresh, Flattened, Stop, SaveAll,
              Hold, ExitSignal, EntrySignal, Reject, Approve
<1> QED
  BY <1>1, <1>2, <1>3, <1>4 DEF Next, vars

LEMMA KillStays ==
  ASSUME "early" \notin Faults, EngineInv, [Next]_vars, ~Recoverable, DurablyKilled
  PROVE  DurablyKilled'
<1>1. UNCHANGED dbRisk => DurablyKilled'
  BY DEF DurablyKilled
<1>2. pc \notin {"down", "boot"} => risk.killed
  BY DEF EngineInv, BlockInv
<1>3. risk \in RiskStates
  BY DEF EngineInv, TypeInv, TypeOK
<1> QED
  BY <1>1, <1>2, <1>3, DiskChanges, SnapshotKilled

(***************************************************************************)
(* All-time mode: unless a signal arrives before the state is restored, a  *)
(* kill that is on disk stays there through every crash, restart and save  *)
(* (live_engine.py:129-144, 405-408, risk/manager.py:118-142).             *)
(***************************************************************************)
THEOREM KillIsDurable ==
  ASSUME "early" \notin Faults
  PROVE  Spec => KillSurvives
<1>1. EngineInv /\ [Next]_vars =>
        ((~Recoverable /\ DurablyKilled) => DurablyKilled')
  BY KillStays
<1> QED
  BY <1>1, EngineInvariant, PTL DEF Spec, KillSurvives

----------------------------------------------------------------------------
(* What is on disk. *)

\* Memory does not yet hold what the broker knows.
Starting == pc \in {"down", "boot"} \/ (pc = "reconcile" /\ after = "started")

\* Once started, only a save that is under way may still be owed.
MirrorInv == ~Starting /\ pc # "persist" => dbPos = positions

\* Steps that leave both copies alone.
LEMMA MirrorKept ==
  ASSUME MirrorInv, UNCHANGED <<positions, dbPos>>,
         (Starting \/ pc = "persist") => (Starting \/ pc = "persist")'
  PROVE  MirrorInv'
BY DEF MirrorInv

LEMMA NextMirror ==
  ASSUME ControlInv, MirrorInv, [Next]_vars
  PROVE  MirrorInv'
<1> USE DEF ControlInv, GoTo, Return, SaveThen, CloseThen, Die, memory, store,
        broker
<1>1. CASE RestoreState \/ ReconcilePositions \/ ReconcileFails
  BY <1>1 DEF RestoreState, ReconcilePositions, ReconcileFails, MirrorInv,
              Starting
<1>2. CASE SavePositions
  BY <1>2 DEF SavePositions, MirrorInv
<1>3. CASE SaveRisk \/ StartKilled \/ Stream \/ Exit \/ Halt
  BY <1>3 DEF SaveRisk, StartKilled, Stream, Exit, Halt, MirrorInv, Starting
<1>4. ASSUME NEW d \in Days, NEW e \in Equities \cup {equity}, Refresh(d, e)
      PROVE  MirrorInv'
  BY <1>4, MirrorKept DEF Refresh, Starting
<1>5. CASE Stop \/ Flattened \/ Hold \/ ExitSignal \/ Reject \/ Approve
  BY <1>5 DEF Stop, SaveAll, Flattened, Hold, ExitSignal, Reject, Approve,
              MirrorInv, Starting
<1>6. ASSUME NEW s \in Sides, EntrySignal(s) PROVE MirrorInv'
  BY <1>6, MirrorKept DEF EntrySignal, Starting
<1>7. CASE Opening
  <2>1. CASE PrecheckFinds \/ CreateUnnamed \/ Resolve
    BY <2>1 DEF PrecheckFinds, CreateUnnamed, Resolve, Record, MirrorInv
  <2>2. CASE PrecheckPasses \/ CreateAccepted \/ CreateDeclined \/ CreateFails
             \/ CreateLost \/ CreateRetried \/ Confirmed \/ ConfirmRejected
    BY <2>2, MirrorKept
       DEF PrecheckPasses, CreateAccepted, CreateDeclined, CreateFails,
           CreateLost, CreateRetried, Confirmed, ConfirmRejected,
           ExecutionFails, Starting
  <2> QED
    BY <1>7, <2>1, <2>2 DEF Opening
<1>8. CASE Closing
  <2>1. CASE RemovePosition
    BY <2>1 DEF RemovePosition, MirrorInv, Starting
  <2>2. CASE Closing /\ ~RemovePosition
    BY <2>2, MirrorKept
       DEF Closing, CloseLoopEnds, Close, CloseFails, CloseEpic,
           CloseEpicFails, ProbeGone, ProbeKeeps, SaveRiskClosed, Starting
  <2> QED
    BY <1>8, <2>1, <2>2
<1>9. CASE Environment
  <2>1. CASE Terminate
    BY <2>1 DEF Terminate, SaveAll, MirrorInv
  <2>2. CASE Environment /\ ~Terminate
    BY <2>2 DEF Environment, Boot, Reconnect, Candle, BrokerCloses, Crash,
                Interrupt, MirrorInv, Starting
  <2> QED
    BY <1>9, <2>1, <2>2
<1>10. CASE UNCHANGED vars
  BY <1>10, MirrorKept DEF vars, Starting
<1> QED
  BY <1>1, <1>2, <1>3, <1>4, <1>5, <1>6, <1>7, <1>8, <1>9, <1>10
     DEF Next, EngineStep

(***************************************************************************)
(* Between candles the store names exactly the positions the engine holds, *)
(* whatever fails, is lost or interrupts it: each change of them is saved  *)
(* before the handler returns (live_engine.py:140-175, 356-372, 405-408).           *)
(***************************************************************************)
THEOREM PositionsDurable == Spec => []DurableMirror
<1>1. Init => MirrorInv
  BY DEF Init, MirrorInv, Starting
<1>2. ControlInv /\ MirrorInv /\ [Next]_vars => MirrorInv'
  BY NextMirror
<1>3. MirrorInv => DurableMirror
  BY DEF MirrorInv, Starting, DurableMirror
<1> QED
  BY <1>1, <1>2, <1>3, InitControl, NextControl, PTL DEF Spec

\* A switch that has just tripped: flattening comes first, then the save.
Flattening == pc = "flattened" \/ (pc \in CloseLabels /\ after = "flattened")
Unsaved == Flattening \/ pc \in {"persist", "persist2"}

(***************************************************************************)
(* A trip that finds the switch flattened already is not saved again: it   *)
(* is the one that was tripped, and saved, before.                         *)
(***************************************************************************)
KillDiskInv ==
  /\ killFlattened \/ Flattening => risk.killed
  /\ pc \in {"down", "boot"} => ~risk.killed
  /\ risk.killed /\ ~Unsaved => DurablyKilled

LEMMA KillDiskKept ==
  ASSUME KillDiskInv, UNCHANGED <<risk, killFlattened, dbRisk>>,
         Flattening' => Flattening, Unsaved => Unsaved',
         pc' \notin {"down", "boot"}
  PROVE  KillDiskInv'
BY DEF KillDiskInv, DurablyKilled

LEMMA KillDiskDies ==
  ASSUME Die
  PROVE  KillDiskInv'
BY DEF Die, KillDiskInv, NewRisk, Flattening, CloseLabels

\* Any save settles the matter.
LEMMA KillDiskSaved ==
  ASSUME TypeInv, KillDiskInv, dbRisk' = Snapshot(risk),
         UNCHANGED <<risk, killFlattened>>, Flattening' => Flattening,
         pc' \in {"down", "boot"} => pc \in {"down", "boot"}
  PROVE  KillDiskInv'
BY SnapshotKilled DEF KillDiskInv, TypeInv, TypeOK

LEMMA NextKillDisk ==
  ASSUME TypeInv, KillDiskInv, [Next]_vars
  PROVE  KillDiskInv'
<1>1. ControlInv /\ risk \in RiskStates /\ killFlattened \in BOOLEAN
  BY DEF TypeInv, TypeOK
<1> USE DEF ControlInv, CloseLabels, Flattening, GoTo, Return, SaveThen, CloseThen, memory,
        store, broker
<1>2. CASE RestoreState
  <2>1. ~risk.killed /\ ~killFlattened
    BY <1>2 DEF RestoreState, KillDiskInv
  <2>2. risk'.killed => dbRisk # NoState /\ dbRisk.killed
    BY <1>1, <1>2, <2>1 DEF RestoreState, Restore, RiskStates
  <2> QED
    BY <1>2, <2>1, <2>2 DEF RestoreState, KillDiskInv, DurablyKilled
<1>3. CASE ReconcilePositions \/ ReconcileFails \/ SavePositions
  BY <1>1, <1>3, KillDiskKept, KillDiskDies
     DEF ReconcilePositions, ReconcileFails, SavePositions, Unsaved
<1>4. CASE SaveRisk
  BY <1>1, <1>4, KillDiskSaved DEF SaveRisk, Continuations
<1>5. CASE StartKilled \/ Stream
  BY <1>1, <1>5, KillDiskKept DEF StartKilled, Stream, Unsaved
<1>6. CASE Exit \/ Halt
  BY <1>6, KillDiskDies DEF Exit, Halt
<1>7. ASSUME NEW d \in Days, NEW e \in Equities \cup {equity}, Refresh(d, e)
      PROVE  KillDiskInv'
  <2>1. /\ pc = "accounts"
        /\ killFlattened' = (killFlattened /\ risk'.killed)
        /\ UNCHANGED dbRisk
        /\ \/ ~risk'.killed /\ pc' = "signal"
           \/ risk'.killed /\ pc' = "close" /\ after' = "flattened"
           \/ risk'.killed /\ killFlattened /\ pc' \in {"idle", "stop"}
    BY <1>7 DEF Refresh
  <2> QED
    BY <1>1, <2>1 DEF KillDiskInv, Unsaved, DurablyKilled
<1>8. CASE Flattened
  BY <1>8 DEF Flattened, KillDiskInv, Unsaved
<1>9. CASE Stop
  BY <1>9, KillDiskSaved DEF Stop, SaveAll
<1>10. CASE Hold \/ ExitSignal \/ Reject \/ Approve
  BY <1>10, KillDiskKept DEF Hold, ExitSignal, Reject, Approve, Unsaved
<1>11. ASSUME NEW s \in Sides, EntrySignal(s) PROVE KillDiskInv'
  BY <1>11, KillDiskKept DEF EntrySignal, Unsaved
<1>12. CASE Opening
  BY <1>12, KillDiskKept
     DEF Opening, PrecheckFinds, PrecheckPasses, CreateAccepted, CreateUnnamed,
         CreateDeclined, CreateFails, CreateLost, CreateRetried, Confirmed,
         ConfirmRejected, Resolve, Record, ExecutionFails, Unsaved
<1>13. CASE Closing
  <2>1. CASE SaveRiskClosed
    BY <2>1, KillDiskSaved DEF SaveRiskClosed
  <2>2. CASE Closing /\ ~SaveRiskClosed
    BY <1>1, <2>2, KillDiskKept
       DEF Closing, CloseLoopEnds, Close, CloseFails, CloseEpic,
           CloseEpicFails, ProbeGone, ProbeKeeps, RemovePosition, Unsaved,
           Continuations
  <2> QED
    BY <1>13, <2>1, <2>2
<1>14. CASE Environment
  <2>1. CASE Terminate
    BY <2>1, KillDiskSaved DEF Terminate, SaveAll
  <2>2. CASE Boot
    BY <2>2 DEF Boot, KillDiskInv, Unsaved
  <2>3. CASE Crash \/ Interrupt
    BY <2>3, KillDiskDies DEF Crash, Interrupt
  <2>4. CASE Reconnect \/ (\E e \in Epics : Candle(e))
    BY <2>4, KillDiskKept DEF Reconnect, Candle, Unsaved
  <2>5. ASSUME NEW d \in book, BrokerCloses(d) PROVE KillDiskInv'
    BY <2>5 DEF BrokerCloses, KillDiskInv, Unsaved, DurablyKilled
  <2> QED
    BY <1>14, <2>1, <2>2, <2>3, <2>4, <2>5 DEF Environment
<1>15. CASE UNCHANGED vars
  BY <1>15 DEF vars, KillDiskInv, Unsaved, DurablyKilled
<1> QED
  BY <1>2, <1>3, <1>4, <1>5, <1>6, <1>7, <1>8, <1>9, <1>10, <1>11, <1>12,
     <1>13, <1>14, <1>15 DEF Next, EngineStep

(***************************************************************************)
(* A tripped switch is on disk before the next candle is handled, in both  *)
(* modes and whatever fails while flattening (live_engine.py:265-280).     *)
(***************************************************************************)
THEOREM TripIsSaved == Spec => []KillDurable
<1>1. Init => KillDiskInv
  BY DEF Init, KillDiskInv, Flattening, CloseLabels, NewRisk
<1>2. TypeInv /\ KillDiskInv /\ [Next]_vars => KillDiskInv'
  BY NextKillDisk
<1>3. KillDiskInv => KillDurable
  BY DEF KillDiskInv, Unsaved, Flattening, CloseLabels, KillDurable, DurablyKilled
<1> QED
  BY <1>1, <1>2, <1>3, InitType, NextType, PTL DEF Spec

----------------------------------------------------------------------------
(* Deals and the positions that name them. *)

(***************************************************************************)
(* The ids the broker gives out are never given out again, so that the     *)
(* deal a position or an order names is one of its own instrument.         *)
(***************************************************************************)
IdInv ==
  /\ \A d \in book : d.id <= created
  /\ \A d1, d2 \in book : d1.id = d2.id => d1 = d2
  /\ job.deal # NoDeal =>
       /\ job.deal <= created
       /\ \A d \in book : d.id = job.deal => d.epic = job.epic
  /\ \A e \in Held : positions[e].deal # NoDeal => positions[e].deal <= created
  /\ \A e \in Held, d \in book : positions[e].deal = d.id => d.epic = e

\* Deals and positions only go, and the order names the deal it named.
LEMMA IdKept ==
  ASSUME IdInv, book' \subseteq book, UNCHANGED created,
         \A e \in Epics : positions'[e] \in {positions[e], NoPosition},
         \/ job'.deal = NoDeal
         \/ job'.deal = job.deal /\ job'.epic = job.epic
  PROVE  IdInv'
BY DEF IdInv, Held

LEMMA IdOpened ==
  ASSUME TypeInv, IdInv, OpenDeal, UNCHANGED positions,
         \/ job'.deal = NoDeal
         \/ job'.deal \in {job.deal, created + 1} /\ job'.epic = job.epic
  PROVE  IdInv'
<1>1. /\ \A d \in book : d.id \in Nat
      /\ created \in Nat /\ created' = created + 1
      /\ job.deal \in Nat \cup {NoDeal} /\ NoDeal \notin Nat
      /\ \A e \in Held : positions[e].deal \in Nat \cup {NoDeal}
  BY EngineAssumption
     DEF OpenDeal, TypeInv, TypeOK, Deals, Jobs, Held, PositionMaps, Positions
<1>2. book' = book \cup {[id |-> created + 1, epic |-> job.epic, side |-> job.side]}
  BY DEF OpenDeal
<1>3. Held' = Held
  BY DEF Held
<1> QED
  BY <1>1, <1>2, <1>3 DEF IdInv

\* The position of an order names a deal of its instrument, or none.
LEMMA IdRecorded ==
  ASSUME TypeInv, IdInv, NEW n, Record(n), UNCHANGED broker,
         n = NoDeal \/ \E d \in book : d.id = n /\ d.epic = job.epic
  PROVE  IdInv'
<1>1. /\ \A d \in book : d.id \in Nat
      /\ NoDeal \notin Nat
      /\ positions \in PositionMaps
  BY EngineAssumption DEF TypeInv, TypeOK, Deals
<1>2. /\ \A e \in Epics : positions'[e] =
           IF e = job.epic THEN [side |-> job.side, deal |-> n, levels |-> TRUE]
           ELSE positions[e]
      /\ UNCHANGED <<job, book, created>>
  BY <1>1 DEF Record, SaveThen, broker, PositionMaps
<1>3. \A e \in Held' : \/ positions'[e].deal = n /\ e = job.epic
                       \/ e \in Held /\ positions'[e] = positions[e]
  BY <1>2 DEF Held
<1>4. n # NoDeal => n \in Nat /\ n <= created
  BY <1>1 DEF IdInv
<1>5. \A d \in book : d.id = n => d.epic = job.epic
  BY <1>1 DEF IdInv
<1> QED
  BY <1>2, <1>3, <1>4, <1>5 DEF IdInv

\* What reconciliation takes over is what the broker has, and all of it.
LEMMA AdoptedDeals ==
  ASSUME ReconcilePositions
  PROVE  /\ \A e \in Held' :
              \E d \in book : d.epic = e /\ positions'[e].deal = d.id
         /\ TypeInv => \A d \in book : d.epic \in Held'
<1>1. positions' \in Adoptions
  BY DEF ReconcilePositions
<1>2. ASSUME NEW e \in Epics
      PROVE  \/ OpenDeals(e) = {} /\ positions'[e] = NoPosition
             \/ OpenDeals(e) # {} /\ \E d \in OpenDeals(e) : positions'[e].deal = d.id
  <2>1. ASSUME NEW d \in OpenDeals(e), NEW shown \in BOOLEAN,
               positions'[e] = [side |-> d.side, deal |-> d.id,
                                levels |-> shown \/ Recovered(e)]
        PROVE  OpenDeals(e) # {} /\ positions'[e].deal = d.id
    BY <2>1
  <2> QED
    BY <1>1, <2>1, AdoptedOne, Zenon
<1>3. ASSUME NEW e \in Held'
      PROVE  \E d \in book : d.epic = e /\ positions'[e].deal = d.id
  <2>1. e \in Epics /\ positions'[e] # NoPosition
    BY DEF Held
  <2>2. PICK d \in OpenDeals(e) : positions'[e].deal = d.id
    BY <1>2, <2>1
  <2> QED
    BY <2>2 DEF OpenDeals
<1>4. TypeInv => \A d \in book : d.epic \in Held'
  <2> SUFFICES ASSUME TypeInv, NEW d \in book
               PROVE  d.epic \in Epics /\ positions'[d.epic] # NoPosition
    BY DEF Held
  <2>1. book \subseteq Deals /\ d.epic \in Epics
    BY DEF TypeInv, TypeOK, Deals
  <2>2. OpenDeals(d.epic) # {}
    BY <2>1 DEF OpenDeals
  <2>3. PICK c \in OpenDeals(d.epic), shown \in BOOLEAN :
          positions'[d.epic] = [side |-> c.side, deal |-> c.id,
                                levels |-> shown \/ Recovered(d.epic)]
    BY <1>1, <2>1, <2>2, AdoptedOne
  <2>4. positions'[d.epic] \in Positions
    BY <2>1, <2>3, AdoptedRecord DEF TypeInv
  <2> QED
    BY <2>1, <2>4, NoPositionAssumption
<1> QED
  BY <1>3, <1>4

LEMMA NextId ==
  ASSUME TypeInv, IdInv, [Next]_vars
  PROVE  IdInv'
<1>1. /\ job \in Jobs /\ positions \in PositionMaps
      /\ NoJob.deal = NoDeal
  BY DEF TypeInv, TypeOK, NoJob
<1>2. Die /\ UNCHANGED broker => IdInv'
  BY <1>1, IdKept DEF Die, NoPositions, broker
<1> USE DEF GoTo, Return, SaveThen, CloseThen, memory, store, broker
<1>3. CASE RestoreState \/ SavePositions \/ SaveRisk
           \/ StartKilled \/ Stream
  BY <1>1, <1>3, IdKept DEF RestoreState, SavePositions, SaveRisk, StartKilled,
                            Stream, Jobs
<1>4. CASE ReconcilePositions
  <2>1. /\ UNCHANGED <<job, book, created>>
        /\ \A e \in Held' : \E d \in book : d.epic = e /\ positions'[e].deal = d.id
    BY <1>4, AdoptedDeals DEF ReconcilePositions
  <2>2. \A e \in Held' : /\ positions'[e].deal <= created
                         /\ \A d \in book : positions'[e].deal = d.id => d.epic = e
    BY <2>1 DEF IdInv
  <2> QED
    BY <2>1, <2>2 DEF IdInv
<1>5. CASE ReconcileFails \/ Exit \/ Halt \/ Crash \/ Interrupt
  BY <1>1, <1>2, <1>5, IdKept DEF ReconcileFails, Exit, Halt, Crash, Interrupt
<1>6. ASSUME NEW d \in Days, NEW e \in Equities \cup {equity}, Refresh(d, e)
      PROVE  IdInv'
  BY <1>1, <1>6, IdKept DEF Refresh, Jobs
<1>7. CASE Flattened \/ Stop \/ Hold \/ ExitSignal \/ Reject \/ Approve
  BY <1>1, <1>7, IdKept DEF Flattened, Stop, Hold, ExitSignal, Reject, Approve,
                            Jobs
<1>8. ASSUME NEW s \in Sides, EntrySignal(s) PROVE IdInv'
  BY <1>1, <1>8, IdKept DEF EntrySignal, Jobs
<1>9. CASE Opening
  <2>1. CASE PrecheckFinds
    BY <2>1, IdRecorded DEF PrecheckFinds, OpenDeals
  <2>2. CASE PrecheckPasses \/ CreateDeclined \/ CreateFails \/ Confirmed
             \/ ConfirmRejected
    BY <1>1, <2>2, IdKept DEF PrecheckPasses, CreateDeclined, CreateFails,
                              Confirmed, ConfirmRejected, ExecutionFails
  <2>3. CASE CreateAccepted \/ CreateLost \/ CreateRetried
    BY <1>1, <2>3, IdOpened DEF CreateAccepted, CreateLost, CreateRetried,
                                ExecutionFails, Jobs
  <2>4. CASE CreateUnnamed
    <3>1. /\ \A e \in Epics : positions'[e] =
               IF e = job.epic THEN [side |-> job.side, deal |-> NoDeal, levels |-> TRUE]
                               ELSE positions[e]
          /\ UNCHANGED job
      BY <1>1, <2>4 DEF CreateUnnamed, Record, PositionMaps
    <3>2. /\ book' = book \cup
               {[id |-> created + 1, epic |-> job.epic, side |-> job.side]}
          /\ created' = created + 1
      BY <2>4 DEF CreateUnnamed, OpenDeal
    <3>3. /\ \A d \in book : d.id \in Nat
          /\ created \in Nat
          /\ job.deal \in Nat \cup {NoDeal} /\ NoDeal \notin Nat
          /\ \A e \in Held : positions[e].deal \in Nat \cup {NoDeal}
      BY EngineAssumption
         DEF TypeInv, TypeOK, Deals, Jobs, Held, PositionMaps, Positions
    <3>4. \A e \in Held' : \/ positions'[e].deal = NoDeal
                           \/ e \in Held /\ positions'[e] = positions[e]
      BY <3>1 DEF Held
    <3> QED
      BY <3>1, <3>2, <3>3, <3>4 DEF IdInv
  <2>5. CASE Resolve
    <3>1. \A d \in Resolved : d \in book /\ d.epic = job.epic
      BY EngineAssumption
         DEF Resolved, OpenDeals, IdInv, TypeInv, TypeOK, Deals
    <3> QED
      BY <2>5, <3>1, IdRecorded DEF Resolve
  <2> QED
    BY <1>9, <2>1, <2>2, <2>3, <2>4, <2>5 DEF Opening
<1>10. CASE Closing
  <2>1. CASE RemovePosition
    BY <1>1, <2>1, IdKept DEF RemovePosition, PositionMaps
  <2>2. CASE Closing /\ ~RemovePosition
    <3>1. /\ book' \subseteq book
          /\ UNCHANGED <<created, positions>>
          /\ \/ job' = NoJob \/ job' = job \/ job' = [job EXCEPT !.closing = NoEpic]
             \/ \E e \in Epics : job' = [job EXCEPT !.queue = @ \ {e}, !.closing = e]
      BY <2>2 DEF Closing, CloseLoopEnds, Close, CloseFails, CloseEpic,
                  CloseEpicFails, ProbeGone, ProbeKeeps, SaveRiskClosed
    <3> QED
      BY <1>1, <3>1, IdKept DEF Jobs
  <2> QED
    BY <1>10, <2>1, <2>2
<1>11. CASE Boot \/ Reconnect \/ Terminate
            \/ (\E e \in Epics : Candle(e)) \/ (\E d \in book : BrokerCloses(d))
  BY <1>1, <1>11, IdKept DEF Boot, Reconnect, Terminate, Candle, BrokerCloses,
                             NoJob
<1>12. CASE UNCHANGED vars
  BY <1>12, IdKept DEF vars
<1> QED
  BY <1>3, <1>4, <1>5, <1>6, <1>7, <1>8, <1>9, <1>10, <1>11, <1>12
     DEF Next, EngineStep, Environment

----------------------------------------------------------------------------
(* Closing and recording. *)

(***************************************************************************)
(* A close loop works on positions that are held, and drops one only when  *)
(* the broker has no deal of its instrument any more.                      *)
(***************************************************************************)
GoneInv ==
  /\ pc \in CloseLabels => job.queue \subseteq Held
  /\ pc \in CloseLabels \ {"close"} => job.closing \notin job.queue
  /\ pc = "closed" => OpenDeals(job.closing) = {}

\* Where one deal of an instrument is all there is, a close leaves none.
LEMMA CloseLeavesNone ==
  ASSUME TypeInv, DealInv, IdInv, NEW e \in Held, NEW d \in Closable(e),
         book' = book \ {d}
  PROVE  {x \in book' : x.epic = e} = {}
<1>1. d \in book /\ d.epic = e
  BY DEF Closable, OpenDeals, IdInv
<1> QED
  BY <1>1 DEF DealInv, OneDealPerEpic

LEMMA NextGone ==
  ASSUME TypeInv, DealInv, IdInv, GoneInv, [Next]_vars
  PROVE  GoneInv'
<1>1. ControlInv /\ job \in Jobs /\ positions \in PositionMaps
  BY DEF TypeInv, TypeOK
<1>2. ASSUME pc' \notin CloseLabels PROVE GoneInv'
  BY <1>2 DEF GoneInv, CloseLabels
<1> USE DEF GoTo, Return, SaveThen, CloseThen, Die, memory, store, broker
<1>3. ASSUME pc' = "close", job'.queue \subseteq Held, UNCHANGED positions
      PROVE  GoneInv'
  BY <1>3 DEF GoneInv, CloseLabels, Held
<1>4. CASE StartKilled
  BY <1>1, <1>3, <1>4 DEF StartKilled, Jobs
<1>5. ASSUME NEW d \in Days, NEW e \in Equities \cup {equity}, Refresh(d, e)
      PROVE  GoneInv'
  <2>1. /\ UNCHANGED positions
        /\ \/ pc' \in {"signal", "idle", "stop"}
           \/ pc' = "close" /\ job' = [job EXCEPT !.queue = Held]
    BY <1>5 DEF Refresh
  <2> QED
    BY <1>1, <1>2, <1>3, <2>1 DEF Jobs, CloseLabels
<1>6. CASE ExitSignal
  BY <1>1, <1>3, <1>6 DEF ExitSignal, Jobs
<1>7. ASSUME NEW s \in Sides, EntrySignal(s) PROVE GoneInv'
  <2>1. /\ UNCHANGED positions
        /\ \/ pc' \in {"entry", "idle"}
           \/ /\ pc' = "close" /\ job.epic \in Held
              /\ job' = [job EXCEPT !.side = s, !.queue = {job.epic}]
    BY <1>7 DEF EntrySignal
  <2>2. [job EXCEPT !.side = s, !.queue = {job.epic}].queue = {job.epic}
    BY <1>1 DEF Jobs
  <2>3. pc' \notin CloseLabels \/ (pc' = "close" /\ job'.queue \subseteq Held)
    BY <2>1, <2>2 DEF CloseLabels
  <2> QED
    BY <1>2, <1>3, <2>1, <2>3
<1>8. CASE Closing
  <2>1. CASE CloseLoopEnds
    BY <1>1, <1>2, <2>1 DEF CloseLoopEnds, ControlInv, CloseLabels
  <2>2. ASSUME NEW e \in Epics, Close(e) PROVE GoneInv'
    <3>1. /\ e \in job.queue /\ e \in Held
          /\ UNCHANGED positions
          /\ pc' = "closed"
          /\ job'.queue = job.queue \ {e} /\ job'.closing = e
      BY <1>1, <2>2 DEF Close, GoneInv, CloseLabels, Jobs
    <3>2. OpenDeals(e)' = {}
      BY <2>2, <3>1, CloseLeavesNone DEF Close, OpenDeals
    <3> QED
      BY <1>1, <2>2, <3>1, <3>2 DEF Close, GoneInv, CloseLabels, Held, OpenDeals
  <2>3. ASSUME NEW e \in Epics, CloseFails(e) PROVE GoneInv'
    <3>1. /\ UNCHANGED positions
          /\ pc' = "fallback"
          /\ job'.queue = job.queue \ {e} /\ job'.closing = e
      BY <1>1, <2>3 DEF CloseFails, Jobs
    <3> QED
      BY <2>3, <3>1 DEF CloseFails, GoneInv, CloseLabels, Held
  <2>4. CASE CloseEpic
    <3>1. OpenDeals(job.closing)' = {}
      BY <2>4 DEF CloseEpic, OpenDeals, DealInv, OneDealPerEpic
    <3> QED
      BY <2>4, <3>1 DEF CloseEpic, GoneInv, CloseLabels, Held
  <2>5. CASE CloseEpicFails \/ ProbeKeeps
    BY <2>5 DEF CloseEpicFails, ProbeKeeps, GoneInv, CloseLabels, Held
  <2>6. CASE ProbeGone
    BY <2>6 DEF ProbeGone, GoneInv, CloseLabels, Held, OpenDeals
  <2>7. CASE RemovePosition
    <3>1. /\ UNCHANGED job
          /\ \A e \in job.queue : positions'[e] = positions[e]
      BY <1>1, <2>7 DEF RemovePosition, GoneInv, CloseLabels, PositionMaps, Held
    <3> QED
      BY <2>7, <3>1 DEF RemovePosition, GoneInv, CloseLabels, Held
  <2>8. CASE SaveRiskClosed
    BY <1>1, <2>8 DEF SaveRiskClosed, GoneInv, CloseLabels, Held, Jobs
  <2> QED
    BY <1>8, <2>1, <2>2, <2>3, <2>4, <2>5, <2>6, <2>7, <2>8 DEF Closing
<1>9. CASE Terminate \/ (\E d \in book : BrokerCloses(d)) \/ UNCHANGED vars
  BY <1>9 DEF Terminate, BrokerCloses, vars, GoneInv, Held, OpenDeals
<1>10. CASE Opening
  BY <1>2, <1>10
     DEF Opening, PrecheckFinds, PrecheckPasses, CreateAccepted, CreateUnnamed,
         CreateDeclined, CreateFails, CreateLost, CreateRetried, Confirmed,
         ConfirmRejected, Resolve, Record, ExecutionFails, CloseLabels
<1>11. CASE \/ RestoreState \/ ReconcilePositions \/ ReconcileFails
            \/ SavePositions \/ SaveRisk \/ Stream \/ Exit \/ Halt
  BY <1>1, <1>2, <1>11
     DEF RestoreState, ReconcilePositions, ReconcileFails, SavePositions,
         SaveRisk, Stream, Exit, Halt, CloseLabels, ControlInv
<1>12. CASE \/ Flattened \/ Stop \/ Hold \/ Reject \/ Approve \/ Boot
            \/ Reconnect \/ (\E e \in Epics : Candle(e)) \/ Crash \/ Interrupt
  BY <1>2, <1>12
     DEF Flattened, Stop, Hold, Reject, Approve, Boot, Reconnect, Candle, Crash,
         Interrupt, CloseLabels
<1> QED
  BY <1>4, <1>5, <1>6, <1>7, <1>8, <1>9, <1>10, <1>11, <1>12
     DEF Next, EngineStep, Environment

\* The instrument of an order is held once the order is recorded.
LEMMA RecordHolds ==
  ASSUME TypeInv, NEW n \in 1..MaxDeals \cup {NoDeal}, Record(n),
         pc \in {"precheck", "create", "resolve"}
  PROVE  Held' = Held \cup {job.epic} /\ job.epic \in Epics
<1>1. job.epic \in Epics /\ [side |-> job.side, deal |-> n, levels |-> TRUE] \in Positions
  BY DEF TypeInv, OrderInv, Entering, Positions
<1>2. \A e \in Epics : positions'[e] =
        IF e = job.epic THEN [side |-> job.side, deal |-> n, levels |-> TRUE]
           ELSE positions[e]
  BY DEF TypeInv, TypeOK, PositionMaps, Record
<1> QED
  BY <1>1, <1>2, NoPositionAssumption DEF Held

(***************************************************************************)
(* Until the broker was asked, memory is empty and the levels of the rows  *)
(* in the store are at hand.                                               *)
(***************************************************************************)
BootInv ==
  /\ Starting => positions = NoPositions
  /\ pc = "reconcile" /\ after = "started" =>
       \A e \in Epics : dbPos[e] # NoPosition /\ dbPos[e].levels => e \in persisted

LEMMA NextBoot ==
  ASSUME ControlInv, BootInv, [Next]_vars
  PROVE  BootInv'
<1> USE DEF ControlInv, GoTo, Return, SaveThen, CloseThen, memory, store, broker
<1>1. ASSUME ~Starting' PROVE BootInv'
  BY <1>1 DEF BootInv, Starting
<1>2. ASSUME Die PROVE BootInv'
  BY <1>2 DEF Die, BootInv, Starting
<1>3. CASE RestoreState \/ Boot
  BY <1>3 DEF RestoreState, Boot, BootInv, Starting
<1>4. CASE ReconcilePositions \/ ReconcileFails \/ SavePositions \/ SaveRisk
           \/ StartKilled \/ Stream
  BY <1>1, <1>2, <1>4 DEF ReconcilePositions, ReconcileFails, SavePositions,
                          SaveRisk, StartKilled, Stream, Starting
<1>5. CASE Exit \/ Halt \/ Crash \/ Interrupt
  BY <1>2, <1>5 DEF Exit, Halt, Crash, Interrupt
<1>6. ASSUME NEW d \in Days, NEW e \in Equities \cup {equity}, Refresh(d, e)
      PROVE  BootInv'
  BY <1>1, <1>6 DEF Refresh, Starting
<1>7. CASE \/ Flattened \/ Stop \/ Hold \/ ExitSignal \/ Reject \/ Approve
           \/ Reconnect \/ (\E e \in Epics : Candle(e))
           \/ (\E s \in Sides : EntrySignal(s))
  BY <1>1, <1>7 DEF Flattened, Stop, Hold, ExitSignal, Reject, Approve,
                    Reconnect, Candle, EntrySignal, Starting
<1>8. CASE Opening
  BY <1>1, <1>8
     DEF Opening, PrecheckFinds, PrecheckPasses, CreateAccepted, CreateUnnamed,
         CreateDeclined, CreateFails, CreateLost, CreateRetried, Confirmed,
         ConfirmRejected, Resolve, Record, ExecutionFails, Starting
<1>9. CASE Closing
  BY <1>1, <1>9
     DEF Closing, CloseLoopEnds, Close, CloseFails, CloseEpic, CloseEpicFails,
         ProbeGone, ProbeKeeps, RemovePosition, SaveRiskClosed, Starting, CloseLabels
<1>10. CASE Terminate
  BY <1>10 DEF Terminate, SaveAll, BootInv, Starting, NoPositions
<1>11. CASE (\E d \in book : BrokerCloses(d)) \/ UNCHANGED vars
  BY <1>11 DEF BrokerCloses, vars, BootInv, Starting
<1> QED
  BY <1>3, <1>4, <1>5, <1>6, <1>7, <1>8, <1>9, <1>10, <1>11
     DEF Next, EngineStep, Environment

(***************************************************************************)
(* What is about to be saved has the position of every stored row whose    *)
(* deal is open, and its levels.                                           *)
(***************************************************************************)
Stored(d) == dbPos[d.epic] # NoPosition /\ dbPos[d.epic].deal = d.id

LevelsInv ==
  pc = "persist" =>
    \A d \in book : Stored(d) => Keeps(dbPos[d.epic], positions[d.epic])

\* Between a reconciliation and its save.
LEMMA AdoptedLevels ==
  ASSUME TypeInv, MirrorInv, BootInv, ReconcilePositions, NEW d \in book, Stored(d)
  PROVE  Keeps(dbPos[d.epic], positions'[d.epic])
<1> DEFINE e == d.epic
<1>1. e \in Epics /\ OpenDeals(e) # {}
  BY DEF TypeInv, TypeOK, Deals, OpenDeals
<1>2. positions' \in Adoptions
  BY DEF ReconcilePositions
<1>3. PICK c \in OpenDeals(e), shown \in BOOLEAN :
        positions'[e] = [side |-> c.side, deal |-> c.id,
                         levels |-> shown \/ Recovered(e)]
  BY <1>1, <1>2, AdoptedOne
<1>4. positions'[e] # NoPosition
  BY <1>1, <1>3, AdoptedRecord, NoPositionAssumption DEF TypeInv
<1>5. dbPos[e].levels => Recovered(e)
  <2>1. CASE after = "started"
    <3>1. Starting /\ pc = "reconcile"
      BY <2>1 DEF ReconcilePositions, Starting
    <3>2. e \notin Held
      BY <1>1, <3>1 DEF BootInv, NoPositions, Held
    <3> QED
      BY <1>1, <2>1, <3>1, <3>2 DEF BootInv, Recovered, Stored
  <2>2. CASE after # "started"
    <3>1. dbPos = positions
      BY <2>2 DEF ReconcilePositions, MirrorInv, Starting
    <3> QED
      BY <1>1, <3>1 DEF Recovered, Held, Stored
  <2> QED
    BY <2>1, <2>2
<1>6. positions'[e].levels = (shown \/ Recovered(e))
  BY <1>3
<1> QED
  BY <1>4, <1>5, <1>6 DEF Keeps

LEMMA NextLevels ==
  ASSUME TypeInv, MirrorInv, BootInv, LevelsInv, [Next]_vars
  PROVE  LevelsInv'
<1>1. /\ ControlInv /\ book \subseteq Deals
      /\ \A d \in book : d.epic \in Epics /\ d.id \in 1..MaxDeals
  BY DEF TypeInv, TypeOK, Deals
<1>2. ASSUME pc' # "persist" PROVE LevelsInv'
  BY <1>2 DEF LevelsInv
<1>3. CASE ReconcilePositions
  <2>1. UNCHANGED <<book, dbPos>>
    BY <1>3 DEF ReconcilePositions, store, broker
  <2> QED
    BY <1>3, <2>1, AdoptedLevels DEF LevelsInv, Stored
<1> USE DEF GoTo, Return, SaveThen, CloseThen, Die, memory, store, broker
<1>4. CASE Flattened
  BY <1>4 DEF Flattened, LevelsInv, Stored, Keeps, MirrorInv, Starting
<1>5. ASSUME NEW n \in 1..MaxDeals \cup {NoDeal}, Record(n),
             pc \in {"precheck", "create", "resolve"},
             \A d \in book' : d \in book \/ d.epic = job.epic
      PROVE  LevelsInv'
  <2> SUFFICES ASSUME NEW d \in book', Stored(d)'
               PROVE  Keeps(dbPos'[d.epic], positions'[d.epic])
    BY DEF LevelsInv
  <2>1. dbPos = positions /\ UNCHANGED dbPos
    BY <1>5 DEF MirrorInv, Starting, Record
  <2>2. d.epic \in Held'
    BY <1>1, <1>5, <2>1, RecordHolds DEF Held, Stored
  <2>3. positions'[d.epic].levels \/ positions'[d.epic] = positions[d.epic]
    BY <1>5 DEF TypeInv, TypeOK, PositionMaps, Record
  <2> QED
    BY <2>1, <2>2, <2>3 DEF Held, Keeps
<1>6. CASE Opening
  <2>1. CASE PrecheckFinds
    BY <1>1, <1>5, <2>1 DEF PrecheckFinds, OpenDeals
  <2>2. CASE CreateUnnamed
    <3>1. \A d \in book' : d \in book \/ d.epic = job.epic
      BY <2>2 DEF CreateUnnamed, OpenDeal
    <3>2. Record(NoDeal) /\ pc = "create"
      BY <2>2 DEF CreateUnnamed
    <3> QED
      BY <1>5, <3>1, <3>2
  <2>3. CASE Resolve
    <3>1. \A d \in Resolved : d \in book
      BY DEF Resolved, OpenDeals
    <3>2. \E n \in 1..MaxDeals \cup {NoDeal} : Record(n)
      BY <1>1, <2>3, <3>1 DEF Resolve
    <3> QED
      BY <1>5, <2>3, <3>2 DEF Resolve
  <2>4. CASE \/ PrecheckPasses \/ CreateAccepted \/ CreateDeclined
             \/ CreateFails \/ CreateLost \/ CreateRetried
             \/ Confirmed \/ ConfirmRejected
    BY <1>2, <2>4
       DEF PrecheckPasses, CreateAccepted, CreateDeclined, CreateFails,
           CreateLost, CreateRetried, Confirmed, ConfirmRejected,
           ExecutionFails
  <2> QED
    BY <1>6, <2>1, <2>2, <2>3, <2>4 DEF Opening
<1>7. CASE Terminate
  BY <1>7 DEF Terminate, SaveAll, LevelsInv, Stored, Keeps
<1>8. ASSUME NEW d \in book, BrokerCloses(d) PROVE LevelsInv'
  BY <1>8 DEF BrokerCloses, LevelsInv, Stored
<1>9. CASE UNCHANGED vars
  BY <1>9 DEF vars, LevelsInv, Stored
<1>10. CASE \/ RestoreState \/ ReconcileFails \/ SavePositions \/ SaveRisk
            \/ StartKilled \/ Stream \/ Exit \/ Halt \/ Stop
            \/ Hold \/ ExitSignal \/ Reject \/ Approve
  BY <1>1, <1>2, <1>10
     DEF RestoreState, ReconcileFails, SavePositions, SaveRisk, StartKilled,
         Stream, Exit, Halt, Stop, Hold, ExitSignal, Reject, Approve, ControlInv
<1>11. ASSUME NEW d \in Days, NEW e \in Equities \cup {equity}, Refresh(d, e)
       PROVE  LevelsInv'
  BY <1>2, <1>11 DEF Refresh
<1>12. ASSUME NEW s \in Sides, EntrySignal(s) PROVE LevelsInv'
  BY <1>2, <1>12 DEF EntrySignal
<1>13. CASE Closing
  BY <1>1, <1>2, <1>13
     DEF Closing, CloseLoopEnds, Close, CloseFails, CloseEpic, CloseEpicFails,
         ProbeGone, ProbeKeeps, RemovePosition, SaveRiskClosed, ControlInv,
         CloseLabels
<1>14. CASE Boot \/ Reconnect \/ (\E e \in Epics : Candle(e)) \/ Crash \/ Interrupt
  BY <1>2, <1>14 DEF Boot, Reconnect, Candle, Crash, Interrupt
<1> QED
  BY <1>3, <1>4, <1>6, <1>7, <1>8, <1>9, <1>10, <1>11, <1>12, <1>13, <1>14
     DEF Next, EngineStep, Environment

(***************************************************************************)
(* A stored position keeps its row and its protective levels over every    *)
(* crash, signal and failed close of the process as long as its deal stays *)
(* open, whatever the broker's listing shows of them.  A signal before     *)
(* memory is filled would save an empty book, and a lookup that failed or  *)
(* a 503 in the wrong place would leave two deals where one is dropped     *)
(* (live_engine.py:117-127, 146-175, 374-408).                             *)
(***************************************************************************)
THEOREM LevelsAreKept ==
  ASSUME "early" \notin Faults, "lookup" \notin Faults, "gateway" \notin Faults
  PROVE  Spec => LevelsSurvive
<1> DEFINE Inv == /\ TypeInv /\ DealInv /\ IdInv /\ GoneInv
                  /\ MirrorInv /\ BootInv /\ LevelsInv
<1>1. Init => Inv
  <2>1. Init => DealInv /\ MirrorInv /\ BootInv /\ LevelsInv
    BY DEF Init, DealInv, OneDealPerEpic, MirrorInv, BootInv, LevelsInv, Starting
  <2>2. Init => IdInv /\ GoneInv
    BY DEF Init, IdInv, GoneInv, CloseLabels, Held, NoPositions, NoJob
  <2> QED
    BY <2>1, <2>2, InitType
<1>2. Inv /\ [Next]_vars => Inv'
  BY NextType, NextDeal, NextId, NextGone, NextMirror, NextBoot, NextLevels
     DEF TypeInv
<1>3. Inv /\ [Next]_vars =>
        \A d \in book \cap book' :
          (dbPos[d.epic] # NoPosition /\ dbPos[d.epic].deal = d.id)
            => Keeps(dbPos[d.epic], dbPos'[d.epic])
  <2> SUFFICES ASSUME Inv, [Next]_vars, NEW d \in book \cap book', Stored(d)
               PROVE  Keeps(dbPos[d.epic], dbPos'[d.epic])
    BY DEF Stored
  <2>1. /\ d.epic \in Epics /\ dbPos \in PositionMaps
        /\ dbPos[d.epic] # NoPosition
    BY DEF TypeInv, TypeOK, Deals, Stored
  <2>2. CASE UNCHANGED dbPos
    BY <2>1, <2>2 DEF Keeps
  <2>3. CASE dbPos' = positions /\ ~Starting
    BY <2>1, <2>3 DEF MirrorInv, LevelsInv, Keeps
  <2>4. CASE RemovePosition
    <3>1. d.epic # job.closing
      BY <2>4 DEF RemovePosition, GoneInv, OpenDeals
    <3> QED
      BY <2>1, <2>4, <3>1 DEF RemovePosition, PositionMaps, Keeps
  <2>5. UNCHANGED dbPos \/ (dbPos' = positions /\ ~Starting) \/ RemovePosition
    <3> USE DEF Die, GoTo, Return, SaveThen, CloseThen, memory, store, broker
    <3>1. CASE Opening
      BY <3>1 DEF Opening, PrecheckFinds, PrecheckPasses, CreateAccepted,
                  CreateUnnamed, CreateDeclined, CreateFails, CreateLost,
                  CreateRetried, Confirmed, ConfirmRejected, Resolve, Record,
                  ExecutionFails
    <3>2. CASE Closing
      BY <3>2 DEF Closing, CloseLoopEnds, Close, CloseFails, CloseEpic,
                  CloseEpicFails, ProbeGone, ProbeKeeps, SaveRiskClosed
    <3>3. CASE Environment
      BY <3>3 DEF Environment, Boot, Reconnect, Candle, BrokerCloses, Crash,
                  Terminate, Interrupt, SaveAll, MaySignal, Unready, Starting
    <3>4. CASE EngineStep /\ ~Opening /\ ~Closing
      BY <3>4 DEF EngineStep, RestoreState, ReconcilePositions,
                  ReconcileFails, SavePositions, SaveRisk, StartKilled,
                  Stream, Exit, Halt, Refresh, Flattened, Stop, SaveAll,
                  Hold, ExitSignal, EntrySignal, Reject, Approve, Starting
    <3> QED
      BY <3>1, <3>2, <3>3, <3>4 DEF Next, vars
  <2> QED
    BY <2>2, <2>3, <2>4, <2>5
<1>4. Spec => []Inv
  BY <1>1, <1>2, PTL DEF Spec
<1> QED
  BY <1>3, <1>4, PTL DEF Spec, LevelsSurvive

----------------------------------------------------------------------------
(* What the engine knows of, and how much of it there may be. *)

\* A deal is unknown only while the order that opened it is confirmed.
InFlight(d) ==
  pc \in {"confirm", "resolve"} /\ job.deal # NoDeal /\ d.epic = job.epic

TrackInv == ~Starting => \A d \in book : d.epic \in Held \/ InFlight(d)

LEMMA TrackKept ==
  ASSUME TrackInv, book' \subseteq book, UNCHANGED positions,
         Starting => Starting', pc \notin {"confirm", "resolve"}
  PROVE  TrackInv'
BY DEF TrackInv, Held, InFlight

LEMMA NextTrack ==
  ASSUME TypeInv, GoneInv, TrackInv, [Next]_vars,
         "lookup" \notin Faults, "gateway" \notin Faults,
         "lostCreate" \notin Faults
  PROVE  TrackInv'
<1>1. /\ ControlInv /\ job \in Jobs /\ book \subseteq Deals
      /\ \A d \in book : d.epic \in Epics /\ d.id \in 1..MaxDeals
  BY DEF TypeInv, TypeOK, Deals
<1> USE DEF ControlInv, GoTo, Return, SaveThen, CloseThen, memory, store, broker
<1>2. CASE RestoreState \/ Boot
  BY <1>1, <1>2 DEF RestoreState, Boot, TrackInv, Starting
<1>3. CASE ReconcilePositions
  BY <1>1, <1>3, AdoptedDeals DEF TrackInv, ReconcilePositions
<1>4. CASE SavePositions \/ SaveRisk \/ StartKilled \/ Stream
  BY <1>1, <1>4, TrackKept
     DEF SavePositions, SaveRisk, StartKilled, Stream, Starting
<1>5. CASE Exit \/ Halt \/ Crash \/ Interrupt
  BY <1>5 DEF Exit, Halt, Crash, Interrupt, Die, TrackInv, Starting
<1>6. ASSUME NEW d \in Days, NEW e \in Equities \cup {equity}, Refresh(d, e)
      PROVE  TrackInv'
  BY <1>6, TrackKept DEF Refresh, Starting
<1>7. CASE Flattened \/ Stop \/ Hold \/ ExitSignal \/ Reject \/ Approve
           \/ Reconnect \/ (\E e \in Epics : Candle(e))
  BY <1>1, <1>7, TrackKept DEF Flattened, Stop, Hold, ExitSignal, Reject,
                               Approve, Reconnect, Candle, Starting
<1>8. ASSUME NEW s \in Sides, EntrySignal(s) PROVE TrackInv'
  BY <1>8, TrackKept DEF EntrySignal, Starting
<1>9. CASE Opening
  <2>1. ASSUME NEW n \in 1..MaxDeals \cup {NoDeal}, Record(n),
               pc \in {"precheck", "create", "resolve"},
               \A d \in book' : d \in book \/ d.epic = job.epic
        PROVE  TrackInv'
    BY <1>1, <2>1, RecordHolds DEF TrackInv, InFlight, Starting
  <2>2. CASE PrecheckFinds
    BY <1>1, <2>1, <2>2 DEF PrecheckFinds, OpenDeals
  <2>3. CASE PrecheckPasses \/ CreateDeclined \/ CreateFails
    BY <2>3, TrackKept DEF PrecheckPasses, CreateDeclined, CreateFails,
                           ExecutionFails, Starting
  <2>4. CASE CreateAccepted
    <3>1. /\ job'.deal = created + 1 /\ job'.epic = job.epic
          /\ created + 1 # NoDeal
      BY <1>1, <2>4, EngineAssumption DEF CreateAccepted, Jobs, TypeInv, TypeOK
    <3>2. \A d \in book' : d \in book \/ d.epic = job.epic
      BY <2>4 DEF CreateAccepted, OpenDeal
    <3> QED
      BY <2>4, <3>1, <3>2 DEF CreateAccepted, TrackInv, InFlight, Held, Starting
  <2>5. CASE CreateUnnamed
    <3>1. \A d \in book' : d \in book \/ d.epic = job.epic
      BY <2>5 DEF CreateUnnamed, OpenDeal
    <3>2. Record(NoDeal) /\ pc = "create"
      BY <2>5 DEF CreateUnnamed
    <3> QED
      BY <2>1, <3>1, <3>2
  <2>6. CASE Confirmed
    BY <2>6 DEF Confirmed, TrackInv, InFlight, Held, Starting
  <2>7. CASE ConfirmRejected
    BY <2>7 DEF ConfirmRejected, ExecutionFails, TrackInv, InFlight, Held, Starting
  <2>8. CASE Resolve
    <3>1. \A d \in Resolved : d \in book
      BY DEF Resolved, OpenDeals
    <3>2. \E n \in 1..MaxDeals \cup {NoDeal} : Record(n)
      BY <1>1, <2>8, <3>1 DEF Resolve
    <3> QED
      BY <2>1, <2>8, <3>2 DEF Resolve
  <2> QED
    BY <1>9, <2>2, <2>3, <2>4, <2>5, <2>6, <2>7, <2>8
       DEF Opening, CreateLost, CreateRetried
<1>10. CASE Closing
  <2>1. CASE RemovePosition
    <3>1. /\ \A d \in book : d.epic # job.closing
          /\ UNCHANGED book
      BY <2>1 DEF RemovePosition, GoneInv, OpenDeals
    <3>2. \A e \in Held : e # job.closing => e \in Held'
      BY <2>1 DEF RemovePosition, TypeInv, TypeOK, PositionMaps, Held
    <3> QED
      BY <2>1, <3>1, <3>2 DEF RemovePosition, TrackInv, InFlight, Starting
  <2>2. CASE Closing /\ ~RemovePosition
    BY <2>2, TrackKept
       DEF Closing, CloseLoopEnds, Close, CloseFails, CloseEpic,
           CloseEpicFails, ProbeGone, ProbeKeeps, SaveRiskClosed, Starting
  <2> QED
    BY <1>10, <2>1, <2>2
<1>11. CASE Terminate \/ (\E d \in book : BrokerCloses(d)) \/ UNCHANGED vars
  BY <1>11 DEF Terminate, BrokerCloses, vars, TrackInv, InFlight, Held, Starting
<1>12. CASE ReconcileFails
  BY <1>12 DEF ReconcileFails
<1> QED
  BY <1>2, <1>3, <1>4, <1>5, <1>6, <1>7, <1>8, <1>9, <1>10, <1>11, <1>12
     DEF Next, EngineStep, Environment

KnownInv == TypeInv /\ DealInv /\ IdInv /\ GoneInv /\ TrackInv

LEMMA KnownInvariant ==
  ASSUME "lookup" \notin Faults, "gateway" \notin Faults,
         "lostCreate" \notin Faults
  PROVE  Spec => []KnownInv
<1>1. Init => KnownInv
  <2>1. Init => DealInv /\ TrackInv
    BY DEF Init, DealInv, OneDealPerEpic, TrackInv
  <2>2. Init => IdInv /\ GoneInv
    BY DEF Init, IdInv, GoneInv, CloseLabels, Held, NoPositions, NoJob
  <2> QED
    BY <2>1, <2>2, InitType DEF KnownInv
<1>2. KnownInv /\ [Next]_vars => KnownInv'
  BY NextType, NextDeal, NextId, NextGone, NextTrack DEF KnownInv, TypeInv
<1> QED
  BY <1>1, <1>2, PTL DEF Spec

(***************************************************************************)
(* Where no answer that a deal was opened is lost, the engine knows of     *)
(* every deal between candles, also after failed confirmations and closes, *)
(* crashes and signals (live_engine.py:146-175, 356-408,                   *)
(* execution/live.py:34-77).                                               *)
(***************************************************************************)
THEOREM DealsAreTracked ==
  ASSUME "lookup" \notin Faults, "gateway" \notin Faults,
         "lostCreate" \notin Faults
  PROVE  Spec => []DealsTracked
<1>1. KnownInv => DealsTracked
  BY DEF KnownInv, TrackInv, InFlight, Starting, DealsTracked
<1> QED
  BY <1>1, KnownInvariant, PTL

\* The limit is looked at before the precheck and holds until the order.
CapInv ==
  /\ IsFiniteSet(book) /\ Cardinality(book) <= MaxOpenPositions
  /\ pc \in {"precheck", "create"} => Cardinality(Held) < MaxOpenPositions

\* One deal per instrument, all of them held: no more deals than positions.
LEMMA NoMoreDeals ==
  ASSUME DealInv, IsFiniteSet(book), \A d \in book : d.epic \in Held
  PROVE  /\ Cardinality(book) \in Nat /\ Cardinality(Held) \in Nat
         /\ Cardinality(book) <= Cardinality(Held)
<1>1. IsFiniteSet(Held) /\ Cardinality(Held) \in Nat
  BY EngineAssumption, FS_Subset, FS_CardinalityType DEF Held
<1> DEFINE epicOf == [d \in book |-> d.epic]
<1>2. epicOf \in Injection(book, Held)
  BY DEF Injection, IsInjective, DealInv, OneDealPerEpic
<1>3. Cardinality(book) <= Cardinality(Held)
  BY <1>1, <1>2, FS_Injection
<1> QED
  BY <1>1, <1>3, FS_CardinalityType

LEMMA NextCap ==
  ASSUME KnownInv, CapInv, [Next]_vars,
         "gateway" \notin Faults, "lostCreate" \notin Faults
  PROVE  CapInv'
<1>1. /\ ControlInv
      /\ Cardinality(book) \in Nat /\ MaxOpenPositions \in Nat
  BY FS_CardinalityType, LimitsAssumption DEF KnownInv, TypeInv, CapInv
<1> USE DEF ControlInv, Continuations, CloseLabels, GoTo, Return, SaveThen,
        CloseThen, Die, memory, store, broker
<1>2. ASSUME book' \subseteq book,
             pc' \in {"precheck", "create"} =>
               UNCHANGED positions /\ Cardinality(Held) < MaxOpenPositions
      PROVE  CapInv'
  <2>1. IsFiniteSet(book') /\ Cardinality(book') <= Cardinality(book)
    BY <1>2, FS_Subset DEF CapInv
  <2>2. Cardinality(book') \in Nat
    BY <2>1, FS_CardinalityType
  <2>3. UNCHANGED positions => Held' = Held
    BY DEF Held
  <2> QED
    BY <1>1, <1>2, <2>1, <2>2, <2>3 DEF CapInv
<1>3. ASSUME pc = "create", OpenDeal, pc' \notin {"precheck", "create"}
      PROVE  CapInv'
  <2>1. \A d \in book : d.epic \in Held
    BY <1>3 DEF KnownInv, TrackInv, InFlight, Starting
  <2>2. Cardinality(book) < MaxOpenPositions
    BY <1>1, <1>3, <2>1, NoMoreDeals DEF KnownInv, CapInv
  <2>3. PICK d : book' = book \cup {d}
    BY <1>3 DEF OpenDeal
  <2>4. IsFiniteSet(book') /\ Cardinality(book') <= Cardinality(book) + 1
    BY <1>1, <2>3, FS_AddElement DEF CapInv
  <2>5. Cardinality(book') \in Nat
    BY <2>4, FS_CardinalityType
  <2> QED
    BY <1>1, <1>3, <2>2, <2>4, <2>5 DEF CapInv
<1>4. CASE Opening
  <2>1. CASE CreateAccepted \/ CreateUnnamed
    BY <1>3, <2>1 DEF CreateAccepted, CreateUnnamed, Record
  <2>2. CASE \/ PrecheckFinds \/ PrecheckPasses \/ CreateDeclined
             \/ CreateFails \/ Confirmed \/ ConfirmRejected \/ Resolve
    BY <1>2, <2>2 DEF PrecheckFinds, PrecheckPasses, CreateDeclined,
                      CreateFails, Confirmed, ConfirmRejected, Resolve, Record,
                      ExecutionFails, CapInv
  <2> QED
    BY <1>4, <2>1, <2>2 DEF Opening, CreateLost, CreateRetried
<1>5. CASE Approve
  BY <1>2, <1>5 DEF Approve, MayEnter
<1>6. CASE Closing
  BY <1>1, <1>2, <1>6
     DEF Closing, CloseLoopEnds, Close, CloseFails, CloseEpic, CloseEpicFails,
         ProbeGone, ProbeKeeps, RemovePosition, SaveRiskClosed
<1>7. CASE Environment
  BY <1>2, <1>7 DEF Environment, Boot, Reconnect, Candle, BrokerCloses, Crash,
                    Terminate, Interrupt, CapInv
<1>8. CASE EngineStep /\ ~Opening /\ ~Closing /\ ~Approve
  BY <1>1, <1>2, <1>8
     DEF EngineStep, RestoreState, ReconcilePositions, ReconcileFails,
         SavePositions, SaveRisk, StartKilled, Stream, Exit, Halt, Refresh,
         Flattened, Stop, Hold, ExitSignal, EntrySignal, Reject
<1>9. CASE UNCHANGED vars
  BY <1>2, <1>9 DEF vars, CapInv
<1> QED
  BY <1>4, <1>5, <1>6, <1>7, <1>8, <1>9 DEF Next

(***************************************************************************)
(* Under the same conditions max_open_positions bounds what is open at the *)
(* broker, for any number of instruments and across restarts               *)
(* (risk/manager.py:178-190 with live_engine.py:146-175).                  *)
(***************************************************************************)
THEOREM MaxOpenHolds ==
  ASSUME "lookup" \notin Faults, "gateway" \notin Faults,
         "lostCreate" \notin Faults
  PROVE  Spec => []WithinMaxOpen
<1>1. Init => CapInv
  BY FS_EmptySet, LimitsAssumption DEF Init, CapInv
<1>2. KnownInv /\ CapInv /\ [Next]_vars => CapInv'
  BY NextCap
<1>3. CapInv => WithinMaxOpen
  BY DEF CapInv, WithinMaxOpen
<1> QED
  BY <1>1, <1>2, <1>3, KnownInvariant, PTL DEF Spec

-----------------------------------------------------------------------------
(* The account. *)

\* What a deal that opens and a deal that ends leave alone.
LEMMA OpeningLeaves ==
  ASSUME [Next]_vars, created' # created
  PROVE  OpenDeal /\ UNCHANGED dbRisk
<1> USE DEF Die, GoTo, Return, SaveThen, CloseThen, memory, store, broker
<1>1. CASE Opening
  BY <1>1 DEF Opening, PrecheckFinds, PrecheckPasses, CreateAccepted,
              CreateUnnamed, CreateDeclined, CreateFails, CreateLost,
              CreateRetried, Confirmed, ConfirmRejected, Resolve, Record, ExecutionFails
<1>2. CASE Closing
  BY <1>2 DEF Closing, CloseLoopEnds, Close, CloseFails, CloseEpic,
              CloseEpicFails, ProbeGone, ProbeKeeps, RemovePosition,
              SaveRiskClosed
<1>3. CASE Environment
  BY <1>3 DEF Environment, Boot, Reconnect, Candle, BrokerCloses, Crash,
              Terminate, Interrupt
<1>4. CASE EngineStep /\ ~Opening /\ ~Closing
  BY <1>4 DEF EngineStep, RestoreState, ReconcilePositions, ReconcileFails,
              SavePositions, SaveRisk, StartKilled, Stream, Exit, Halt,
              Refresh, Flattened, Stop, Hold, ExitSignal, EntrySignal, Reject,
              Approve
<1> QED
  BY <1>1, <1>2, <1>3, <1>4 DEF Next, vars

LEMMA ClosingLeaves ==
  ASSUME TypeInv, [Next]_vars, created' = created, book' # book
  PROVE  /\ \E d \in book : book' = book \ {d}
         /\ UNCHANGED <<risk, failures, dbRisk>>
<1> USE DEF Die, GoTo, Return, SaveThen, CloseThen, memory, store, broker
<1>0. ~OpenDeal
  BY EngineAssumption DEF OpenDeal, TypeInv, TypeOK
<1>1. CASE Opening
  BY <1>0, <1>1 DEF Opening, PrecheckFinds, PrecheckPasses, CreateAccepted,
              CreateUnnamed, CreateDeclined, CreateFails, CreateLost,
              CreateRetried, Confirmed, ConfirmRejected, Resolve, Record, ExecutionFails
<1>2. CASE Closing
  BY <1>2 DEF Closing, CloseLoopEnds, Close, CloseFails, CloseEpic,
              CloseEpicFails, ProbeGone, ProbeKeeps, RemovePosition,
              SaveRiskClosed, Closable, OpenDeals
<1>3. CASE Environment
  BY <1>3 DEF Environment, Boot, Reconnect, Candle, BrokerCloses, Crash,
              Terminate, Interrupt
<1>4. CASE EngineStep /\ ~Opening /\ ~Closing
  BY <1>4 DEF EngineStep, RestoreState, ReconcilePositions, ReconcileFails,
              SavePositions, SaveRisk, StartKilled, Stream, Exit, Halt,
              Refresh, Flattened, Stop, Hold, ExitSignal, EntrySignal, Reject,
              Approve
<1> QED
  BY <1>1, <1>2, <1>3, <1>4 DEF Next, vars

AccountInv == KnownInv /\ CapInv /\ EngineInv

LEMMA OpenIsOpen ==
  ASSUME AccountInv, [Next]_vars, created' # created
  PROVE  \E d \in Deals : Account!Open(d)
<1> DEFINE d == [id |-> created + 1, epic |-> job.epic, side |-> job.side]
<1>1. pc = "create"
  BY CreatesAtCreate
<1>2. OpenDeal /\ book' = book \cup {d} /\ UNCHANGED dbRisk
  BY OpeningLeaves DEF OpenDeal
<1>3. d \in Deals
  BY <1>1, <1>2, OpenDealType DEF AccountInv, EngineInv
<1>4. ~Blocked
  BY BlockedStaysShut DEF AccountInv
<1>5. \A o \in book : o.epic # d.epic
  BY <1>1 DEF AccountInv, KnownInv, DealInv, OpenDeals
<1>6. Cardinality(book) < MaxOpenPositions
  <2>1. \A o \in book : o.epic \in Held
    BY <1>1 DEF AccountInv, KnownInv, TrackInv, InFlight, Starting
  <2>2. DealInv /\ IsFiniteSet(book) /\ Cardinality(Held) < MaxOpenPositions
    BY <1>1 DEF AccountInv, KnownInv, CapInv
  <2>3. MaxOpenPositions \in Int
    BY LimitsAssumption
  <2> QED
    BY <2>1, <2>2, <2>3, NoMoreDeals
<1>7. Blocked' \in BOOLEAN /\ DurablyKilled' = DurablyKilled
  BY <1>2 DEF Blocked, DurablyKilled
<1>8. Account!Cardinality(book) = Cardinality(book)
  BY DEF Account!Cardinality, Cardinality
<1> HIDE DEF d
<1> QED
  BY <1>2, <1>3, <1>4, <1>5, <1>6, <1>7, <1>8 DEF Account!Open

LEMMA CloseIsClose ==
  ASSUME TypeInv, [Next]_vars, created' = created, book' # book
  PROVE  \E d \in book : Account!Close(d)
<1>1. PICK d \in book : book' = book \ {d}
  BY ClosingLeaves
<1>2. Blocked' = Blocked /\ DurablyKilled' = DurablyKilled
  BY ClosingLeaves DEF Blocked, DurablyKilled
<1> QED
  BY <1>1, <1>2 DEF Account!Close

LEMMA RestIsJudge ==
  ASSUME "early" \notin Faults, AccountInv, [Next]_vars, book' = book
  PROVE  Account!Judge
<1>1. risk \in RiskStates
  BY DEF AccountInv, EngineInv, TypeInv, TypeOK
<1>2. DurablyKilled' => DurablyKilled \/ Blocked
  <2>1. UNCHANGED dbRisk => DurablyKilled' = DurablyKilled
    BY DEF DurablyKilled
  <2>2. dbRisk' = Snapshot(risk) => (DurablyKilled' <=> risk.killed)
    BY <1>1, SnapshotKilled
  <2> QED
    BY <2>1, <2>2, DiskChanges DEF Blocked
<1>3. ~Recoverable => (DurablyKilled => DurablyKilled')
  BY KillStays DEF AccountInv
<1>4. ~Recoverable => (DurablyKilled' => Blocked')
  BY DEF Blocked, Recoverable
<1>5. Blocked' \in BOOLEAN /\ DurablyKilled' \in BOOLEAN
  <2>1. TypeInv'
    BY NextType DEF AccountInv, EngineInv
  <2> QED
    BY DEF Blocked, DurablyKilled
<1> QED
  BY <1>2, <1>3, <1>4, <1>5 DEF Account!Judge

(***************************************************************************)
(* The engine implements the safe account: whatever is lost, fails or      *)
(* restarts, short of a lost or repeated create, a failing look-up and a   *)
(* signal before the state is restored, a deal is opened only on an        *)
(* account nothing bars, below the limit and on an instrument without one, *)
(* and an all-time kill on disk bars it for ever (live_engine.py,          *)
(* execution/live.py:34-77, risk/manager.py:118-190).                      *)
(***************************************************************************)
THEOREM EngineIsSafeAccount ==
  ASSUME "lookup" \notin Faults, "gateway" \notin Faults,
         "lostCreate" \notin Faults, "early" \notin Faults
  PROVE  Spec => AccountSafe
<1>1. Init => Account!Init
  <2> SUFFICES ASSUME Init
               PROVE  book = {} /\ ~Blocked /\ ~DurablyKilled
    BY DEF Account!Init
  <2> QED
    BY EngineAssumption DEF Init, Blocked, DurablyKilled, NewRisk
<1>2. AccountInv /\ [Next]_vars => [Account!Next]_(Account!vars)
  <2> SUFFICES ASSUME AccountInv, [Next]_vars
               PROVE  Account!Next
    OBVIOUS
  <2>1. TypeInv
    BY DEF AccountInv, EngineInv
  <2> QED
    BY <2>1, OpenIsOpen, CloseIsClose, RestIsJudge DEF Account!Next
<1>3. Init => CapInv
  BY FS_EmptySet, LimitsAssumption DEF Init, CapInv
<1>4. KnownInv /\ CapInv /\ [Next]_vars => CapInv'
  BY NextCap
<1>5. Spec => []AccountInv
  BY <1>3, <1>4, KnownInvariant, EngineInvariant, PTL DEF Spec, AccountInv
<1> QED
  BY <1>1, <1>2, <1>5, PTL DEF Spec, AccountSafe, Account!Spec

=============================================================================
