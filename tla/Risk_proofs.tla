---------------------------- MODULE Risk_proofs ----------------------------
(***************************************************************************)
(* Proofs about the risk manager, for any equities, days, limits and       *)
(* window: RiskManager, and behind it EntryLimits, for any number of       *)
(* epics, any currencies and any correlations.                             *)
(***************************************************************************)
EXTENDS RiskManager, EntryLimits, RiskRules_proofs

----------------------------------------------------------------------------
(* The manager. *)

(***************************************************************************)
(* The variables keep their types: in particular every state a snapshot    *)
(* can hold restores to a proper RiskManager (risk/manager.py:118-142).    *)
(***************************************************************************)
THEOREM TypeCorrect == Spec => []TypeOK
<1>1. Init => TypeOK
  <2>1. <<>> \in Seq(Equities)
    BY EmptySeq
  <2>2. NoRecord \in Records
    BY DEF NoRecord, Records
  <2> QED
    BY NewRiskType, <2>1, <2>2 DEF Init, TypeOK
<1>2. TypeOK /\ [Next]_vars => TypeOK'
  <2> SUFFICES ASSUME TypeOK, [Next]_vars
               PROVE  TypeOK'
    OBVIOUS
  <2> USE DEF TypeOK
  <2>1. ASSUME NEW d \in Days, NEW e \in Equities, Update(d, e)
        PROVE  TypeOK'
    <3>1. e \in Int
      BY EquitiesAssumption
    <3>2. risk' \in RiskStates
      BY <2>1, <3>1, UpdateType DEF Update
    <3>3. recent' \in Seq(Equities)
      BY <2>1, SlideFacts DEF Update
    <3>4. deep' \in BOOLEAN /\ seen' \subseteq Equities /\ haltDays' \subseteq Days
      BY <2>1 DEF Update
    <3> QED
      BY <2>1, <3>2, <3>3, <3>4 DEF Update
  <2>2. CASE OperatorKill
    BY <2>2 DEF OperatorKill, Kill, RiskStates, record
  <2>3. CASE Save
    <3>1. kept' \in Records
      BY <2>3 DEF Save, Records
    <3> QED
      BY <2>3, <3>1, SnapshotType DEF Save, record
  <2>4. CASE Restart
    <3>1. risk' \in RiskStates
      BY <2>4, NewRiskType, RestoreType DEF Restart
    <3>2. seen' \subseteq Equities /\ deep' \in BOOLEAN /\ haltDays' \subseteq Days
      BY <2>4 DEF Restart, Records
    <3>3. running' \in BOOLEAN
      BY <2>4, <3>1 DEF Restart, RiskStates
    <3> QED
      BY <2>4, <3>1, <3>2, <3>3 DEF Restart
  <2>5. CASE UNCHANGED vars
    BY <2>5 DEF vars, record
  <2> QED
    BY <2>1, <2>2, <2>3, <2>4, <2>5 DEF Next
<1> QED
  BY <1>1, <1>2, PTL DEF Spec

----------------------------------------------------------------------------
(* The kill switch never forgets a drawdown. *)

(***************************************************************************)
(* What the all-time check leaves behind, and that no step in between      *)
(* lowers it: the peak bounds every equity on record, and once one of them *)
(* was too far below an earlier one the switch is tripped.  The same holds *)
(* of the snapshot and the record of its save, from which a restart begins.*)
(***************************************************************************)
PeakInv ==
  /\ \A x \in seen : x <= risk.peak
  /\ deep => risk.killed
  /\ IF saved = NoState THEN kept = NoRecord
     ELSE /\ \A x \in kept.seen : x <= saved.peak
          /\ kept.deep => saved.killed

(***************************************************************************)
(* In all-time mode the switch is tripped for good by any drawdown of the  *)
(* limit on record, whatever equities, days, restarts and crashes lie in   *)
(* between (risk/manager.py:105-109 with 118-142).                         *)
(***************************************************************************)
THEOREM DrawdownTripsForGood == Spec => []DrawdownNeverForgotten
<1>1. CASE Rolling
  <2>1. DrawdownNeverForgotten
    BY <1>1 DEF DrawdownNeverForgotten
  <2> QED
    BY <2>1, PTL
<1>2. CASE ~Rolling
  <2>1. Init => PeakInv
    BY DEF Init, PeakInv, NoRecord
  <2>2. TypeOK /\ PeakInv /\ [Next]_vars => PeakInv'
    <3> SUFFICES ASSUME TypeOK, PeakInv, [Next]_vars
                 PROVE  PeakInv'
      OBVIOUS
    <3> USE DEF TypeOK, PeakInv
    <3>1. ASSUME NEW d \in Days, NEW e \in Equities, Update(d, e)
          PROVE  PeakInv'
      <4>1. /\ e \in Int
            /\ seen' = seen \cup {e}
            /\ seen' \subseteq Int
            /\ risk.peak \in Int
        BY <3>1, EquitiesAssumption DEF Update, RiskStates
      <4> DEFINE top == Higher(risk.peak, e)
      <4>2. /\ risk'.peak = top
            /\ risk'.killed = (risk.killed \/ Lost(top, e, MaxTotalDrawdownPct))
        BY <1>2, <3>1, <4>1, UpdateAllTime DEF Update
      <4>3. top \in Int /\ \A x \in seen' : x <= top
        BY <4>1 DEF Higher
      <4> HIDE DEF top
      <4>4. ASSUME deep'
            PROVE  risk'.killed
        <5>1. CASE deep
          BY <4>2, <5>1
        <5>2. CASE ~deep
          <6>1. PICK x \in seen' : Lost(x, e, MaxTotalDrawdownPct)
            BY <3>1, <4>1, <4>4, <5>2 DEF Update
          <6>2. Lost(top, e, MaxTotalDrawdownPct)
            BY <4>1, <4>3, <6>1, LostFromHigher, LimitsAssumption
          <6> QED
            BY <4>2, <6>2
        <5> QED
          BY <5>1, <5>2
      <4>5. saved' = saved /\ kept' = kept
        BY <3>1 DEF Update
      <4> QED
        BY <4>2, <4>3, <4>4, <4>5
    <3>2. CASE OperatorKill
      BY <3>2 DEF OperatorKill, Kill, RiskStates, record
    <3>3. CASE Save
      <4>1. /\ saved' # NoState
            /\ saved'.peak = risk.peak /\ saved'.killed = risk.killed
            /\ kept'.seen = seen /\ kept'.deep = deep
        BY <3>3, SnapshotType, NoStateAssumption DEF Save, Snapshot
      <4> QED
        BY <3>3, <4>1 DEF Save, record
    <3>4. CASE Restart
      <4>1. seen' = kept.seen /\ deep' = kept.deep /\ saved' = saved /\ kept' = kept
        BY <3>4 DEF Restart
      <4>2. CASE saved = NoState
        BY <4>1, <4>2 DEF NoRecord
      <4>3. CASE saved # NoState
        <5>1. risk'.peak = saved.peak /\ risk'.killed = saved.killed
          BY <3>4, <4>3 DEF Restart, Restore, NewRisk
        <5> QED
          BY <4>1, <4>3, <5>1
      <4> QED
        BY <4>2, <4>3
    <3>5. CASE UNCHANGED vars
      BY <3>5 DEF vars, record
    <3> QED
      BY <3>1, <3>2, <3>3, <3>4, <3>5 DEF Next
  <2>3. PeakInv => DrawdownNeverForgotten
    BY DEF PeakInv, DrawdownNeverForgotten
  <2> QED
    BY <2>1, <2>2, <2>3, TypeCorrect, PTL DEF Spec
<1> QED
  BY <1>1, <1>2

----------------------------------------------------------------------------
(* The daily halt. *)

(***************************************************************************)
(* No breach on record lies in the future of the manager's day, which is   *)
(* what keeps start_day (risk/manager.py:73-76) from clearing a halt that  *)
(* still holds, and no manager is ahead of the candles.  Halted says the   *)
(* first and HaltLastsTheDay of a day, a halt flag and a set of breaches.  *)
(***************************************************************************)
Halted(day, flag, breaches) ==
  /\ \A h \in breaches : day # NoDay /\ h <= day
  /\ day \in breaches => flag
  /\ day # NoDay => today # NoDay /\ day <= today

DayInv ==
  /\ Halted(risk.day, risk.halted, haltDays)
  /\ IF saved = NoState THEN kept = NoRecord
     ELSE Halted(saved.day, saved.halted, kept.haltDays)

LEMMA UpdateDay ==
  ASSUME NEW r \in RiskStates, NEW d \in Days, NEW e \in Int
  PROVE  /\ UpdateEquity(r, d, e).day = d
         /\ UpdateEquity(r, d, e).halted =
              (\/ RollDay(r, d, e).halted
               \/ Lost(RollDay(r, d, e).dayStart, e, MaxDailyLossPct))
<1> DEFINE rolled == RollDay(r, d, e)
<1>1. rolled \in RiskStates /\ rolled.day = d
  BY DEF RollDay, StartDay, RiskStates
<1> DEFINE checked == DailyCheck(rolled, e)
<1> HIDE DEF rolled
<1>2. /\ checked \in RiskStates
      /\ checked.day = d
      /\ checked.halted = (rolled.halted \/ Lost(rolled.dayStart, e, MaxDailyLossPct))
  BY <1>1 DEF DailyCheck, RiskStates, Higher
<1> HIDE DEF checked
<1>3. /\ RollingCheck(checked, e).day = checked.day
      /\ RollingCheck(checked, e).halted = checked.halted
  BY <1>2 DEF RollingCheck, RiskStates
<1>4. /\ AllTimeCheck(checked, e).day = checked.day
      /\ AllTimeCheck(checked, e).halted = checked.halted
  BY <1>2 DEF AllTimeCheck, RiskStates
<1>5. \/ UpdateEquity(r, d, e) = RollingCheck(checked, e)
      \/ UpdateEquity(r, d, e) = AllTimeCheck(checked, e)
  BY DEF UpdateEquity, checked, rolled
<1> QED
  BY <1>2, <1>3, <1>4, <1>5 DEF rolled

(***************************************************************************)
(* When the days of the candles do not go back, a halt on record outlasts  *)
(* every recovery, update, restart and crash of its day.  RiskGaps shows     *)
(* that the assumption on the days is needed.                              *)
(***************************************************************************)
THEOREM HaltHolds ==
  ASSUME OrderedDays
  PROVE  Spec => []HaltLastsTheDay
<1>1. Init => DayInv
  <2> SUFFICES ASSUME Init
               PROVE  DayInv
    OBVIOUS
  <2>1. Halted(risk.day, risk.halted, haltDays)
    BY DEF Init, Halted, NewRisk
  <2> QED
    BY <2>1 DEF Init, DayInv
<1>2. TypeOK /\ DayInv /\ [Next]_vars => DayInv'
  <2> SUFFICES ASSUME TypeOK, DayInv, [Next]_vars
               PROVE  DayInv'
    OBVIOUS
  <2> USE DEF TypeOK, DayInv
  <2>1. ASSUME NEW d \in Days, NEW e \in Equities, Update(d, e)
        PROVE  DayInv'
    <3> DEFINE start == RollDay(risk, d, e)
               breach == Lost(start.dayStart, e, MaxDailyLossPct)
    <3>1. /\ e \in Int
          /\ d \in Int /\ d # NoDay /\ today' = d
          /\ today # NoDay => today \in Int /\ today <= d
          /\ risk.day # NoDay => risk.day \in Int /\ risk.day <= d
          /\ haltDays \subseteq Int
      <4>1. d \in DaysToCome /\ today' = d
        BY <2>1 DEF Update
      <4>2. risk.day \in Days \cup {NoDay}
        BY DEF RiskStates
      <4>3. today # NoDay => today \in Int /\ today <= d
        BY <4>1, DayOrderAssumption DEF DaysToCome
      <4>4. risk.day # NoDay => today # NoDay /\ risk.day <= today
        BY DEF Halted
      <4> QED
        BY <4>1, <4>2, <4>3, <4>4, EquitiesAssumption, DayOrderAssumption, DaysAssumption
    <3>2. /\ risk'.day = d
          /\ risk'.halted = (start.halted \/ breach)
      BY <2>1, <3>1, UpdateDay DEF Update
    <3>3. haltDays' = IF breach THEN haltDays \cup {d} ELSE haltDays
      BY <2>1 DEF Update
    <3>4. d \in haltDays => start.halted
      <4> SUFFICES ASSUME d \in haltDays
                   PROVE  start.halted
        OBVIOUS
      <4>1. risk.day = d
        BY <3>1 DEF Halted
      <4> QED
        BY <4>1 DEF RollDay, Halted
    <3> HIDE DEF start, breach
    <3>5. \A h \in haltDays' : risk'.day # NoDay /\ h <= risk'.day
      BY <3>1, <3>2, <3>3 DEF Halted
    <3>6. risk'.day \in haltDays' => risk'.halted
      BY <3>2, <3>3, <3>4
    <3>7. Halted(risk.day, risk.halted, haltDays)'
      BY <3>1, <3>2, <3>5, <3>6 DEF Halted
    <3>8. saved' = saved /\ kept' = kept
      BY <2>1 DEF Update
    <3>9. ASSUME saved # NoState
          PROVE  Halted(saved.day, saved.halted, kept.haltDays)'
      <4>1. Halted(saved.day, saved.halted, kept.haltDays)
        BY <3>9
      <4>2. saved.day # NoDay => today # NoDay /\ saved.day <= today
        BY <4>1 DEF Halted
      <4>3. saved.day # NoDay => saved.day \in Int
        BY <3>9, DayOrderAssumption DEF Snapshots
      <4> HIDE DEF TypeOK, DayInv
      <4>4. saved.day # NoDay => today' # NoDay /\ saved.day <= today'
        BY <3>1, <4>2, <4>3
      <4> QED
        BY <3>8, <4>1, <4>4 DEF Halted
    <3> QED
      BY <3>7, <3>8, <3>9
  <2>2. CASE OperatorKill
    BY <2>2 DEF OperatorKill, Kill, RiskStates, record, Halted
  <2>3. CASE Save
    <3>1. /\ saved' # NoState
          /\ saved'.day = risk.day /\ saved'.halted = risk.halted
          /\ kept'.haltDays = haltDays
      BY <2>3, SnapshotType, NoStateAssumption DEF Save, Snapshot
    <3> QED
      BY <2>3, <3>1 DEF Save, record, Halted
  <2>4. CASE Restart
    <3>1. /\ haltDays' = kept.haltDays /\ saved' = saved
          /\ kept' = kept /\ today' = today
      BY <2>4 DEF Restart
    <3>2. CASE saved = NoState
      <4>1. risk' = NewRisk
        BY <2>4, <3>2 DEF Restart, Restore
      <4> QED
        BY <3>1, <3>2, <4>1 DEF NewRisk, NoRecord, Halted
    <3>3. CASE saved # NoState
      <4>1. risk'.day = saved.day /\ risk'.halted = saved.halted
        BY <2>4, <3>3 DEF Restart, Restore, NewRisk
      <4> QED
        BY <3>1, <3>3, <4>1 DEF Halted
    <3> QED
      BY <3>2, <3>3
  <2>5. CASE UNCHANGED vars
    BY <2>5 DEF vars, record, Halted
  <2> QED
    BY <2>1, <2>2, <2>3, <2>4, <2>5 DEF Next
<1>3. DayInv => HaltLastsTheDay
  BY DEF DayInv, Halted, HaltLastsTheDay
<1> QED
  BY <1>1, <1>2, <1>3, TypeCorrect, PTL DEF Spec

----------------------------------------------------------------------------
(* The rolling window. *)

(***************************************************************************)
(* The object's window is the newest part of the account's: a restart      *)
(* empties it, an update adds the same equity to both.                     *)
(***************************************************************************)
IsSuffix(v, w) ==
  /\ Len(v) <= Len(w)
  /\ \A i \in 1..Len(v) : v[i] = w[Len(w) - Len(v) + i]

SuffixInv == Rolling => IsSuffix(risk.window, recent)

\* SlideFacts, of a window of equities.
LEMMA SlidesOfInts ==
  ASSUME NEW w \in Seq(Int), NEW e \in Int, Rolling
  PROVE  /\ Slide(w, e) \in Seq(Int)
         /\ Len(Slide(w, e)) = SlideLength(Len(w))
         /\ Slide(w, e)[SlideLength(Len(w))] = e
         /\ \A i \in 1..(SlideLength(Len(w)) - 1) :
              Slide(w, e)[i] = w[Len(w) + 1 - SlideLength(Len(w)) + i]
BY SlideFacts, Zenon

LEMMA SlideSuffix ==
  ASSUME NEW v \in Seq(Int), NEW w \in Seq(Int), NEW e \in Int, Rolling,
         IsSuffix(v, w)
  PROVE  IsSuffix(Slide(v, e), Slide(w, e))
<1> DEFINE m == SlideLength(Len(v))
           n == SlideLength(Len(w))
<1>1. /\ Len(v) \in Nat /\ Len(w) \in Nat /\ Len(v) <= Len(w)
      /\ DrawdownPeakWindowBars \in Nat \ {0}
  BY LenProperties DEF IsSuffix, Rolling
<1>2. /\ m \in 1..(Len(v) + 1) /\ n \in 1..(Len(w) + 1) /\ m <= n
  BY <1>1 DEF SlideLength
<1> HIDE DEF m, n
<1>3. /\ Len(Slide(v, e)) = m /\ Slide(v, e)[m] = e
      /\ \A i \in 1..(m - 1) : Slide(v, e)[i] = v[Len(v) + 1 - m + i]
  BY SlidesOfInts, Zenon DEF m
<1>4. /\ Len(Slide(w, e)) = n /\ Slide(w, e)[n] = e
      /\ \A i \in 1..(n - 1) : Slide(w, e)[i] = w[Len(w) + 1 - n + i]
  BY SlidesOfInts, Zenon DEF n
<1>5. ASSUME NEW i \in 1..m
      PROVE  Slide(v, e)[i] = Slide(w, e)[n - m + i]
  <2>1. CASE i = m
    BY <1>2, <1>3, <1>4, <2>1
  <2>2. CASE i # m
    <3>1. /\ i \in 1..(m - 1)
          /\ n - m + i \in 1..(n - 1)
          /\ Len(v) + 1 - m + i \in 1..Len(v)
      BY <1>1, <1>2, <2>2
    <3>2. v[Len(v) + 1 - m + i] = w[Len(w) - Len(v) + (Len(v) + 1 - m + i)]
      BY <3>1 DEF IsSuffix
    <3>3. /\ Len(w) - Len(v) + (Len(v) + 1 - m + i) = Len(w) + 1 - m + i
          /\ Len(w) + 1 - n + (n - m + i) = Len(w) + 1 - m + i
      BY <1>1, <1>2, <3>1
    <3>4. Slide(v, e)[i] = w[Len(w) + 1 - m + i]
      BY <1>3, <3>1, <3>2, <3>3
    <3>5. Slide(w, e)[n - m + i] = w[Len(w) + 1 - m + i]
      BY <1>4, <3>1, <3>3
    <3> QED
      BY <3>4, <3>5
  <2> QED
    BY <2>1, <2>2
<1> QED
  BY <1>2, <1>3, <1>4, <1>5 DEF IsSuffix

LEMMA UpdateRolling ==
  ASSUME NEW r \in RiskStates, NEW d \in Days, NEW e \in Int, Rolling
  PROVE  LET w == Slide(r.window, e)
             top == WindowPeak(w)
         IN  /\ UpdateEquity(r, d, e).window = w
             /\ UpdateEquity(r, d, e).killed =
                  (\/ Lost(top, e, MaxTotalDrawdownPct)
                   \/ r.killed /\ ~Halved(top, e, MaxTotalDrawdownPct))
<1> DEFINE rolled == RollDay(r, d, e)
           checked == DailyCheck(rolled, e)
<1>1. /\ rolled \in RiskStates
      /\ rolled.window = r.window
      /\ rolled.killed = r.killed
  BY DEF RollDay, StartDay, RiskStates
<1> HIDE DEF rolled
<1>2. /\ checked \in RiskStates
      /\ checked.window = r.window
      /\ checked.killed = r.killed
  BY <1>1 DEF DailyCheck, RiskStates, Higher
<1> HIDE DEF checked
<1>3. UpdateEquity(r, d, e) = RollingCheck(checked, e)
  BY DEF UpdateEquity, checked, rolled
<1>4. checked = [checked EXCEPT !.window = checked.window]
  BY <1>2 DEF RiskStates
<1> DEFINE w == Slide(r.window, e)
           top == WindowPeak(w)
           trip == \/ Lost(top, e, MaxTotalDrawdownPct)
                   \/ r.killed /\ ~Halved(top, e, MaxTotalDrawdownPct)
<1>5. RollingCheck(checked, e) = [checked EXCEPT !.window = w, !.killed = trip]
  BY <1>2 DEF RollingCheck
<1> HIDE DEF w, trip
<1>6. /\ RollingCheck(checked, e).window = w
      /\ RollingCheck(checked, e).killed = trip
  BY <1>2, <1>5 DEF RiskStates
<1> QED
  BY <1>3, <1>6 DEF w, trip

(***************************************************************************)
(* A window that repeats one positive equity shows no drawdown.            *)
(***************************************************************************)
LEMMA FlatReopens ==
  ASSUME NEW r \in RiskStates, NEW d \in Days, NEW e \in Int, Rolling, e > 0,
         MaxTotalDrawdownPct # 0,
         \A i \in 1..Len(Slide(r.window, e)) : Slide(r.window, e)[i] = e
  PROVE  ~UpdateEquity(r, d, e).killed
<1> DEFINE w == Slide(r.window, e)
<1>1. Len(w) >= 1 /\ DOMAIN w = 1..Len(w)
  <2>1. r.window \in Seq(Int)
    BY DEF RiskStates
  <2>2. w \in Seq(Int) /\ Len(w) = SlideLength(Len(r.window))
    BY <2>1, SlidesOfInts
  <2>3. Len(r.window) \in Nat /\ DrawdownPeakWindowBars \in Nat \ {0}
    BY <2>1, LenProperties DEF Rolling
  <2> QED
    BY <2>2, <2>3, LenProperties DEF SlideLength
<1>2. {w[i] : i \in DOMAIN w} = {e} /\ \A i \in DOMAIN w : w[i] <= e
  <2>1. \A i \in DOMAIN w : w[i] = e
    BY <1>1
  <2>2. 1 \in DOMAIN w
    BY <1>1
  <2> HIDE DEF w
  <2> QED
    BY <2>1, <2>2
<1>3. WindowPeak(w) = e
  <2> HIDE DEF w
  <2> QED
    BY <1>2 DEF WindowPeak
<1>4. ~Lost(e, e, MaxTotalDrawdownPct) /\ Halved(e, e, MaxTotalDrawdownPct)
  <2>1. MaxTotalDrawdownPct * e > 0
    <3>1. MaxTotalDrawdownPct \in Nat /\ MaxTotalDrawdownPct > 0
      BY LimitsAssumption
    <3> QED
      BY <3>1, SMT
  <2>2. 100 * (e - e) = 0 /\ 200 * (e - e) = 0
    OBVIOUS
  <2>3. MaxTotalDrawdownPct * e \in Int
    BY LimitsAssumption
  <2> QED
    BY <2>1, <2>2, <2>3 DEF Lost, Halved
<1> QED
  BY <1>3, <1>4, UpdateRolling

(***************************************************************************)
(* Rolling mode: a peak older than the window cannot keep the switch       *)
(* tripped (risk/manager.py:90-104).  The limit must not be zero: then     *)
(* every equity counts as a loss.                                          *)
(***************************************************************************)
THEOREM PeakExpires ==
  ASSUME MaxTotalDrawdownPct # 0
  PROVE  Spec => OldPeakExpires
<1>1. Init => SuffixInv
  BY DEF Init, SuffixInv, IsSuffix, NewRisk
<1>2. TypeOK /\ SuffixInv /\ [Next]_vars => SuffixInv'
  <2> SUFFICES ASSUME TypeOK, SuffixInv, [Next]_vars, Rolling
               PROVE  IsSuffix(risk'.window, recent')
    BY DEF SuffixInv
  <2>1. ASSUME NEW d \in Days, NEW e \in Equities, Update(d, e)
        PROVE  IsSuffix(risk'.window, recent')
    <3>1. e \in Int /\ risk.window \in Seq(Int) /\ recent \in Seq(Int)
      <4>1. Seq(Equities) \subseteq Seq(Int)
        BY EquitiesAssumption, SeqMonotone
      <4> QED
        BY <4>1, EquitiesAssumption DEF TypeOK, RiskStates
    <3>2. risk'.window = Slide(risk.window, e)
      BY <2>1, <3>1, UpdateRolling DEF Update, TypeOK
    <3>3. recent' = Slide(recent, e)
      BY <2>1 DEF Update
    <3> QED
      BY <3>1, <3>2, <3>3, SlideSuffix DEF SuffixInv
  <2>2. CASE OperatorKill
    BY <2>2 DEF OperatorKill, Kill, RiskStates, SuffixInv, TypeOK
  <2>3. CASE Save
    BY <2>3 DEF Save, SuffixInv
  <2>4. CASE Restart
    <3>1. risk'.window = <<>> /\ recent' = recent
      BY <2>4 DEF Restart, Restore, NewRisk
    <3>2. Len(recent) \in Nat
      BY LenProperties DEF TypeOK
    <3> QED
      BY <3>1, <3>2 DEF IsSuffix
  <2>5. CASE UNCHANGED vars
    BY <2>5 DEF vars, SuffixInv
  <2> QED
    BY <2>1, <2>2, <2>3, <2>4, <2>5 DEF Next
<1>3. TypeOK /\ TypeOK' /\ SuffixInv' =>
        [\A d \in Days, e \in Equities :
           (Rolling /\ Update(d, e) /\ FlatWindow(recent')) => ~risk'.killed]_vars
  <2> SUFFICES ASSUME TypeOK, TypeOK', SuffixInv',
                      NEW d \in Days, NEW e \in Equities,
                      Rolling, Update(d, e), FlatWindow(recent')
               PROVE  ~risk'.killed
    OBVIOUS
  <2> DEFINE w == Slide(risk.window, e)
             k == DrawdownPeakWindowBars
  <2>1. /\ e \in Int /\ risk \in RiskStates /\ recent \in Seq(Int)
        /\ risk.window \in Seq(Int)
        /\ k \in Nat \ {0}
    <3>1. Seq(Equities) \subseteq Seq(Int)
      BY EquitiesAssumption, SeqMonotone
    <3> QED
      BY <3>1, EquitiesAssumption DEF TypeOK, RiskStates, Rolling
  <2>2. recent' = Slide(recent, e) /\ risk' = UpdateEquity(risk, d, e)
    BY DEF Update
  <2>3. /\ Len(recent') = k
        /\ \A i \in 1..k : recent'[i] = recent'[1] /\ recent'[i] > 0
    <3>1. DOMAIN recent' = 1..Len(recent')
      BY LenProperties DEF TypeOK
    <3> QED
      BY <3>1 DEF FlatWindow
  <2>4. recent'[k] = e
    <3>1. /\ Len(Slide(recent, e)) = SlideLength(Len(recent))
          /\ Slide(recent, e)[SlideLength(Len(recent))] = e
      BY <2>1, SlidesOfInts
    <3> QED
      BY <2>2, <2>3, <3>1
  <2>5. e > 0 /\ \A i \in 1..k : recent'[i] = e
    BY <2>1, <2>3, <2>4
  <2>6. risk'.window = w
    BY <2>1, <2>2, UpdateRolling
  <2>7. \A i \in 1..Len(w) : w[i] = e
    <3>1. IsSuffix(w, recent')
      BY <2>6 DEF SuffixInv
    <3>2. Len(w) \in Nat /\ Len(w) <= k
      <4>1. w \in Seq(Int)
        BY <2>1, SlidesOfInts
      <4> QED
        BY <4>1, <3>1, <2>3, LenProperties DEF IsSuffix
    <3> HIDE DEF w, k
    <3>3. \A i \in 1..Len(w) : w[i] = recent'[k - Len(w) + i] /\ k - Len(w) + i \in 1..k
      BY <3>1, <3>2, <2>1, <2>3 DEF IsSuffix
    <3> QED
      BY <3>3, <2>5
  <2> QED
    BY <2>1, <2>2, <2>5, <2>7, FlatReopens
<1> QED
  BY <1>1, <1>2, <1>3, TypeCorrect, PTL DEF Spec, OldPeakExpires

----------------------------------------------------------------------------
(* The rolling peak. *)

(***************************************************************************)
(* What the rolling check leaves behind, restarts or not: while the switch *)
(* is not tripped, the newest equity of the object's window is less than   *)
(* the limit below every other one of it.                                  *)
(***************************************************************************)
WindowInv ==
  (Rolling /\ ~risk.killed) =>
    \A i \in 1..Len(risk.window) :
      ~Lost(risk.window[i], risk.window[Len(risk.window)], MaxTotalDrawdownPct)

WholeWindow == Rolling => risk.window = recent

LEMMA WindowIsSafe == Spec => []WindowInv
<1>1. Init => WindowInv
  <2>1. Len(NewRisk.window) = 0
    BY DEF NewRisk
  <2> QED
    BY <2>1 DEF Init, WindowInv
<1>2. TypeOK /\ WindowInv /\ [Next]_vars => WindowInv'
  <2> SUFFICES ASSUME TypeOK, WindowInv, [Next]_vars
               PROVE  WindowInv'
    OBVIOUS
  <2>1. ASSUME NEW d \in Days, NEW e \in Equities, Update(d, e), Rolling,
               ~risk'.killed
        PROVE  \A i \in 1..Len(risk'.window) :
                 ~Lost(risk'.window[i], risk'.window[Len(risk'.window)],
                       MaxTotalDrawdownPct)
    <3>1. e \in Int /\ risk \in RiskStates /\ risk.window \in Seq(Int)
      BY EquitiesAssumption DEF TypeOK, RiskStates
    <3>6. /\ Slide(risk.window, e) \in Seq(Int)
          /\ Len(Slide(risk.window, e)) = SlideLength(Len(risk.window))
          /\ Slide(risk.window, e)[SlideLength(Len(risk.window))] = e
      BY <2>1, <3>1, SlidesOfInts, Zenon
    <3> DEFINE w == Slide(risk.window, e)
               top == WindowPeak(w)
               n == Len(w)
    <3>2. risk'.window = w /\ ~Lost(top, e, MaxTotalDrawdownPct)
      BY <2>1, <3>1, UpdateRolling DEF Update
    <3>3. w \in Seq(Int) /\ n # 0 /\ w[n] = e
      <4>1. /\ w \in Seq(Int)
            /\ n = SlideLength(Len(risk.window))
            /\ w[SlideLength(Len(risk.window))] = e
        BY <3>6
      <4>2. Len(risk.window) \in Nat /\ DrawdownPeakWindowBars \in Nat \ {0}
        BY <2>1, <3>1, LenProperties DEF Rolling
      <4>3. SlideLength(Len(risk.window)) # 0
        BY <4>2 DEF SlideLength
      <4> QED
        BY <4>1, <4>3
    <3> HIDE DEF w, top, n
    <3>4. top \in Int /\ \A i \in 1..n : w[i] <= top
      BY <3>3, WindowPeakBounds DEF top, n
    <3>5. ASSUME NEW i \in 1..n
          PROVE  ~Lost(w[i], e, MaxTotalDrawdownPct)
      <4>1. w[i] \in Int
        BY <3>3, ElementOfSeq DEF n
      <4> QED
        BY <3>1, <3>2, <3>4, <4>1, LostFromHigher, LimitsAssumption
    <3> QED
      BY <3>2, <3>3, <3>5 DEF n
  <2>2. CASE OperatorKill
    BY <2>2 DEF OperatorKill, Kill, RiskStates, TypeOK, WindowInv
  <2>3. CASE Save
    BY <2>3 DEF Save, WindowInv
  <2>4. CASE Restart
    <3>1. risk'.window = <<>>
      BY <2>4 DEF Restart, Restore, NewRisk
    <3>2. Len(risk'.window) = 0
      BY <3>1
    <3> QED
      BY <3>2 DEF WindowInv
  <2>5. CASE UNCHANGED vars
    BY <2>5 DEF vars, WindowInv
  <2> QED
    BY <2>1, <2>2, <2>3, <2>4, <2>5 DEF Next, WindowInv
<1> QED
  BY <1>1, <1>2, TypeCorrect, PTL DEF Spec

(***************************************************************************)
(* Rolling mode: while the switch is not tripped, no equity of the last    *)
(* DrawdownPeakWindowBars is the limit above the last one                  *)
(* (risk/manager.py:93-104).  Without restarts the object's window is the  *)
(* account's; RiskRollingRestart shows that the assumption is needed, since*)
(* the snapshot leaves the window out (risk/manager.py:118-142).           *)
(***************************************************************************)
THEOREM PeakRemembered ==
  ASSUME ~RestartsAllowed
  PROVE  Spec => []RollingPeakRemembered
<1>1. Init => WholeWindow
  BY DEF Init, WholeWindow, NewRisk
<1>2. TypeOK /\ WholeWindow /\ [Next]_vars => WholeWindow'
  <2> SUFFICES ASSUME TypeOK, WholeWindow, [Next]_vars, Rolling
               PROVE  risk'.window = recent'
    BY DEF WholeWindow
  <2>1. ASSUME NEW d \in Days, NEW e \in Equities, Update(d, e)
        PROVE  risk'.window = recent'
    <3>1. e \in Int /\ risk \in RiskStates
      BY EquitiesAssumption DEF TypeOK
    <3>2. risk'.window = Slide(risk.window, e)
      BY <2>1, <3>1, UpdateRolling DEF Update
    <3> QED
      BY <2>1, <3>2 DEF Update, WholeWindow
  <2>2. CASE OperatorKill
    BY <2>2 DEF OperatorKill, Kill, RiskStates, WholeWindow, TypeOK
  <2>3. CASE Save
    BY <2>3 DEF Save, WholeWindow
  <2>4. CASE Restart
    BY <2>4 DEF Restart
  <2>5. CASE UNCHANGED vars
    BY <2>5 DEF vars, WholeWindow
  <2> QED
    BY <2>1, <2>2, <2>3, <2>4, <2>5 DEF Next
<1>3. TypeOK /\ WholeWindow /\ WindowInv => RollingPeakRemembered
  <2>1. TypeOK => DOMAIN recent = 1..Len(recent)
    BY LenProperties DEF TypeOK
  <2> QED
    BY <2>1 DEF WholeWindow, WindowInv, RollingPeakRemembered
<1> QED
  BY <1>1, <1>2, <1>3, TypeCorrect, WindowIsSafe, PTL DEF Spec

----------------------------------------------------------------------------
(* The book and its counts. *)

IsBook == \E values : book \in [Epics -> values]

CountInv == IsBook /\ CountsBounded

(***************************************************************************)
(* A set that gains one member at most stays within a limit it was below.  *)
(***************************************************************************)
LEMMA OneMore ==
  ASSUME NEW S, NEW T, NEW e, NEW limit \in Nat,
         IsFiniteSet(S), T \subseteq S \cup {e}, Cardinality(S) < limit
  PROVE  Cardinality(T) <= limit
<1>1. /\ IsFiniteSet(S \cup {e})
      /\ Cardinality(S \cup {e}) =
           IF e \in S THEN Cardinality(S) ELSE Cardinality(S) + 1
      /\ Cardinality(S) \in Nat
  BY FS_AddElement, FS_CardinalityType, Zenon
<1>2. Cardinality(T) <= Cardinality(S \cup {e}) /\ IsFiniteSet(T)
  BY <1>1, FS_Subset
<1> QED
  BY <1>1, <1>2, FS_CardinalityType

(***************************************************************************)
(* An entry opens its epic and no other, and only the currencies of its    *)
(* pair gain a position.                                                   *)
(***************************************************************************)
LEMMA EnterAdds ==
  ASSUME IsBook, NEW e \in Epics, NEW entry, book' = [book EXCEPT ![e] = entry]
  PROVE  /\ Open(book)' \subseteq Open(book) \cup {e}
         /\ \A c : Sharing(book, c)' \subseteq Sharing(book, c) \cup {e}
         /\ \A c : e \notin DOMAIN CurrencyMap
                     \/ c \notin {CurrencyMap[e][1], CurrencyMap[e][2]}
                   => Sharing(book, c)' \subseteq Sharing(book, c)
<1>1. \A x \in Epics \ {e} : book'[x] = book[x]
  BY DEF IsBook
<1>2. Open(book)' \subseteq Open(book) \cup {e}
  BY <1>1 DEF Open
<1> QED
  BY <1>2 DEF Sharing

(***************************************************************************)
(* A close opens nothing.                                                  *)
(***************************************************************************)
LEMMA CloseRemoves ==
  ASSUME IsBook, NEW e \in Epics, book' = [book EXCEPT ![e] = None]
  PROVE  /\ Open(book)' \subseteq Open(book)
         /\ \A c : Sharing(book, c)' \subseteq Sharing(book, c)
<1>1. \A x \in Epics \ {e} : book'[x] = book[x]
  BY DEF IsBook
<1>2. book'[e] = None
  BY DEF IsBook
<1>3. Open(book)' \subseteq Open(book)
  BY <1>1, <1>2 DEF Open
<1> QED
  BY <1>3 DEF Sharing

(***************************************************************************)
(* There are finitely many positions, of a currency, too.                  *)
(***************************************************************************)
LEMMA Finite ==
  /\ IsFiniteSet(Open(book)) /\ Cardinality(Open(book)) \in Nat
  /\ \A c : IsFiniteSet(Sharing(book, c)) /\ Cardinality(Sharing(book, c)) \in Nat
<1>1. Open(book) \subseteq Epics /\ \A c : Sharing(book, c) \subseteq Epics
  BY DEF Open, Sharing
<1> QED
  BY <1>1, EntryAssumption, FS_Subset, FS_CardinalityType

----------------------------------------------------------------------------

LEMMA EntryKeepsCounts ==
  ASSUME CountInv, NEW e \in Epics, NEW signal \in Signals, Enter(e, signal)
  PROVE  CountInv'
<1> DEFINE entry == [side |-> signal.side, notional |-> Size(signal)]
<1>1. /\ book' = [book EXCEPT ![e] = entry]
      /\ Cardinality(Open(book)) < MaxOpenPositions
      /\ CurrencyOK(e, entry)
  BY DEF Enter, MayEnter
<1> HIDE DEF entry
<1>2. IsBook'
  <2>1. PICK values : book \in [Epics -> values]
    BY DEF CountInv, IsBook
  <2>2. book' \in [Epics -> values \cup {entry}]
    BY <1>1, <2>1
  <2> QED
    BY <2>2 DEF IsBook
<1>3. Cardinality(Open(book)') <= MaxOpenPositions
  BY <1>1, EnterAdds, Finite, OneMore, LimitsAssumption DEF CountInv
<1>4. ASSUME MaxPositionsPerCurrency # None,
             NEW x \in DOMAIN CurrencyMap, NEW i \in 1..2
      PROVE  Cardinality(Sharing(book, CurrencyMap[x][i])') <= MaxPositionsPerCurrency
  <2> DEFINE c == CurrencyMap[x][i]
  <2> HIDE DEF c
  <2>0. MaxPositionsPerCurrency \in Nat
    BY <1>4, EntryAssumption DEF Limits
  <2>1. CASE e \in DOMAIN CurrencyMap /\ c \in {CurrencyMap[e][1], CurrencyMap[e][2]}
    <3>1. BelowLimit(Cardinality(Sharing(book, c)), MaxPositionsPerCurrency)
      BY <1>1, <2>1, Zenon DEF CurrencyOK
    <3>3. Cardinality(Sharing(book, c)) < MaxPositionsPerCurrency
      BY <1>4, <3>1 DEF BelowLimit
    <3>2. Sharing(book, c)' \subseteq Sharing(book, c) \cup {e}
      BY <1>1, EnterAdds DEF CountInv
    <3>4. IsFiniteSet(Sharing(book, c))
      BY Finite
    <3>5. Cardinality(Sharing(book, c)') <= MaxPositionsPerCurrency
      BY <2>0, <3>2, <3>3, <3>4, OneMore
    <3> QED
      BY <3>5 DEF c
  <2>2. CASE ~(e \in DOMAIN CurrencyMap /\ c \in {CurrencyMap[e][1], CurrencyMap[e][2]})
    <3>1. Sharing(book, c)' \subseteq Sharing(book, c)
      BY <1>1, <2>2, EnterAdds DEF CountInv
    <3>2. Cardinality(Sharing(book, c)) <= MaxPositionsPerCurrency
      BY <1>4 DEF CountInv, CountsBounded, c
    <3>3. Cardinality(Sharing(book, c)') <= Cardinality(Sharing(book, c))
      BY <3>1, Finite, FS_Subset
    <3>4. Cardinality(Sharing(book, c)') \in Nat
      BY <3>1, Finite, FS_Subset, FS_CardinalityType
    <3> QED
      BY <2>0, <3>2, <3>3, <3>4, Finite DEF c
  <2> QED
    BY <2>1, <2>2
<1> QED
  BY <1>2, <1>3, <1>4 DEF CountInv, CountsBounded

LEMMA CloseKeepsCounts ==
  ASSUME CountInv, NEW e \in Epics, Close(e)
  PROVE  CountInv'
<1>1. book' = [book EXCEPT ![e] = None]
  BY DEF Close
<1>2. IsBook'
  <2>1. PICK values : book \in [Epics -> values]
    BY DEF CountInv, IsBook
  <2>2. book' \in [Epics -> values \cup {None}]
    BY <1>1, <2>1
  <2> QED
    BY <2>2 DEF IsBook
<1>3. /\ Cardinality(Open(book)') <= Cardinality(Open(book))
      /\ Cardinality(Open(book)') \in Nat
  BY <1>1, CloseRemoves, Finite, FS_Subset, FS_CardinalityType DEF CountInv
<1>4. \A c : /\ Cardinality(Sharing(book, c)') <= Cardinality(Sharing(book, c))
             /\ Cardinality(Sharing(book, c)') \in Nat
  BY <1>1, CloseRemoves, Finite, FS_Subset, FS_CardinalityType DEF CountInv
<1>5. Cardinality(Open(book)') <= MaxOpenPositions
  BY <1>3, Finite, LimitsAssumption DEF CountInv, CountsBounded
<1>6. ASSUME MaxPositionsPerCurrency # None,
             NEW x \in DOMAIN CurrencyMap, NEW i \in 1..2
      PROVE  Cardinality(Sharing(book, CurrencyMap[x][i])') <= MaxPositionsPerCurrency
  <2>1. MaxPositionsPerCurrency \in Nat
    BY <1>6, EntryAssumption DEF Limits
  <2>2. Cardinality(Sharing(book, CurrencyMap[x][i])) <= MaxPositionsPerCurrency
    BY <1>6 DEF CountInv, CountsBounded
  <2> QED
    BY <1>4, <2>1, <2>2, Finite
<1> QED
  BY <1>2, <1>5, <1>6 DEF CountInv, CountsBounded

(***************************************************************************)
(* max_open_positions and max_positions_per_currency hold at all times,    *)
(* whatever is entered, closed, reported and regrouped in between          *)
(* (risk/manager.py:184, :245-257): the counts are of the book the guards  *)
(* look at, and nothing but an entry adds to it.                           *)
(***************************************************************************)
THEOREM CountsHold == EntrySpec => []CountsBounded
<1>1. EntryInit => CountInv
  <2> SUFFICES ASSUME EntryInit PROVE CountInv
    OBVIOUS
  <2>1. IsBook
    BY DEF EntryInit, IsBook
  <2>2. Open(book) = {} /\ \A c : Sharing(book, c) = {}
    BY DEF EntryInit, Open, Sharing
  <2>3. Cardinality(Open(book)) = 0 /\ \A c : Cardinality(Sharing(book, c)) = 0
    BY <2>2, FS_EmptySet, Zenon
  <2>4. MaxPositionsPerCurrency # None => MaxPositionsPerCurrency \in Nat
    BY EntryAssumption DEF Limits
  <2> QED
    BY <2>1, <2>3, <2>4, LimitsAssumption DEF CountInv, CountsBounded
<1>2. CountInv /\ [EntryNext]_entryVars => CountInv'
  <2> SUFFICES ASSUME CountInv, [EntryNext]_entryVars PROVE CountInv'
    OBVIOUS
  <2>1. ASSUME NEW e \in Epics, Close(e) PROVE CountInv'
    BY <2>1, CloseKeepsCounts
  <2>2. ASSUME NEW e \in Epics, NEW signal \in Signals, Enter(e, signal)
        PROVE  CountInv'
    BY <2>2, EntryKeepsCounts
  <2>3. ASSUME UNCHANGED book PROVE CountInv'
    BY <2>3 DEF CountInv, IsBook, CountsBounded, Open, Sharing
  <2>4. ASSUME NEW d \in Days, NEW x \in Balances, Report(d, x) PROVE CountInv'
    BY <2>3, <2>4 DEF Report
  <2>5. ASSUME NEW m \in Matrices, NEW warm \in WarmSets, Correlate(m, warm)
        PROVE  CountInv'
    BY <2>3, <2>5 DEF Correlate
  <2>6. CASE UNCHANGED entryVars
    BY <2>3, <2>6 DEF entryVars
  <2> QED
    BY <2>1, <2>2, <2>4, <2>5, <2>6 DEF EntryNext
<1>3. CountInv => CountsBounded
  BY DEF CountInv
<1> QED
  BY <1>1, <1>2, <1>3, PTL DEF EntrySpec

----------------------------------------------------------------------------
(* What an entry adds to the exposures. *)

LEMMA SizeFacts ==
  ASSUME equity \in Balances, NEW signal \in Signals
  PROVE  Size(signal) \in Nat /\ Size(signal) <= equity * MaxPositionPct
<1> DEFINE cap == equity * MaxPositionPct
<1>1. /\ equity \in Nat /\ MaxPositionPct \in Nat
      /\ VolTargetPct \in Nat /\ RiskPerTradePct \in Nat
      /\ signal.atr \in Nat /\ (signal.stop # None => signal.stop \in Nat)
  BY EntryAssumption DEF Signals
<1>2. \A x, pct \in Nat, d \in Nat \ {0} : (x * pct * 100) \div d \in Nat
  <2>1. \A x, pct \in Nat : x * pct * 100 \in Nat
    OBVIOUS
  <2>2. \A n \in Nat, d \in Nat \ {0} : n \div d \in Nat
    OBVIOUS
  <2> QED  BY <2>1, <2>2
<1>3. cap \in Nat
  BY <1>1
<1>4. signal.atr # 0 => (equity * VolTargetPct * 100) \div signal.atr \in Nat
  BY <1>1, <1>2
<1>5. signal.stop \notin {None, 0} => (equity * RiskPerTradePct * 100) \div signal.stop \in Nat
  BY <1>1, <1>2
<1> HIDE DEF cap
<1>6. \A wanted \in Nat : (IF wanted < cap THEN wanted ELSE cap) \in Nat
                          /\ (IF wanted < cap THEN wanted ELSE cap) <= cap
  BY <1>3
<1> QED  BY <1>3, <1>4, <1>5, <1>6 DEF Size, cap

\* An epic with enough bars is of its own cluster.
LEMMA ModelFacts ==
  ASSUME NEW m \in Matrices, NEW warm \in WarmSets
  PROVE  /\ Model(m, warm) \in [group : [Epics -> SUBSET Epics], sign : [Epics -> Sides]]
         /\ \A e \in Epics : Model(m, warm).group[e] # {} => e \in Model(m, warm).group[e]
<1>1. warm \subseteq Epics
  BY EntryAssumption
<1>2. \A e \in Epics : Cluster(m, warm, e) \subseteq warm
  BY DEF Cluster
<1>3. \A e \in warm : e \in Cluster(m, warm, e)
  BY DEF Cluster
<1> QED  BY <1>1, <1>2, <1>3 DEF Model, Sides

\* Where a group looks at an epic, the epic is of the group.
OwnGroup ==
  correlation # None =>
    \A e \in Epics : correlation.group[e] # {} => e \in correlation.group[e]

EntryInv == EntryTypeOK /\ OwnGroup

LEMMA EntryInitInv == EntryInit => EntryInv
BY NewRiskType DEF EntryInit, EntryInv, EntryTypeOK, OwnGroup

LEMMA EntryNextInv == EntryInv /\ [EntryNext]_entryVars => EntryInv'
<1> SUFFICES ASSUME EntryInv, [EntryNext]_entryVars PROVE EntryInv'
  OBVIOUS
<1>1. ASSUME NEW e \in Epics, Close(e) PROVE EntryInv'
  BY <1>1 DEF Close, EntryInv, EntryTypeOK, OwnGroup
<1>2. ASSUME NEW e \in Epics, NEW signal \in Signals, Enter(e, signal) PROVE EntryInv'
  <2>1. [side |-> signal.side, notional |-> Size(signal)] \in Positions
    BY SizeFacts DEF EntryInv, EntryTypeOK, Signals, Positions
  <2> QED  BY <1>2, <2>1 DEF Enter, EntryInv, EntryTypeOK, OwnGroup
<1>3. ASSUME NEW d \in Days, NEW x \in Balances, Report(d, x) PROVE EntryInv'
  <2>1. x \in Int
    BY EntryAssumption
  <2>2. manager' \in RiskStates
    BY <1>3, <2>1, UpdateType DEF Report, EntryInv, EntryTypeOK
  <2> QED  BY <1>3, <2>2 DEF Report, EntryInv, EntryTypeOK, OwnGroup
<1>4. ASSUME NEW m \in Matrices, NEW warm \in WarmSets, Correlate(m, warm) PROVE EntryInv'
  BY <1>4, ModelFacts DEF Correlate, EntryInv, EntryTypeOK, OwnGroup
<1>5. CASE UNCHANGED entryVars
  BY <1>5 DEF entryVars, EntryInv, EntryTypeOK, OwnGroup
<1> QED  BY <1>1, <1>2, <1>3, <1>4, <1>5 DEF EntryNext

THEOREM EntryTypeCorrect == EntrySpec => []EntryTypeOK
BY EntryInitInv, EntryNextInv, PTL DEF EntrySpec, EntryInv

\* A sum over the epics in which the one of e was 0.
LEMMA OneEpicMore ==
  ASSUME NEW f, NEW g, NEW e \in Epics, f[e] = 0,
         DOMAIN f = Epics, DOMAIN g = Epics,
         \A x \in Epics : f[x] \in Int /\ g[x] \in Int,
         \A x \in Epics \ {e} : g[x] = f[x]
  PROVE  SumFunction(g) = SumFunction(f) + g[e]
<1>1. IsFiniteSet(Epics)
  BY EntryAssumption
<1>2. SumFunctionOnSet(g, Epics) = SumFunctionOnSet(f, Epics) - f[e] + g[e]
  BY <1>1, SumChanges
<1>3. SumFunctionOnSet(f, Epics) \in Int /\ g[e] \in Int
  BY <1>1, SumType
<1> QED  BY <1>2, <1>3, SumOfFunction

LEMMA ProductType ==
  ASSUME NEW s \in Int, NEW p \in Positions
  PROVE  s * Exposed(p) \in Int
<1>1. p.side \in {1, -1} /\ p.notional \in Int
  BY DEF Positions, Sides
<1>2. Exposed(p) \in Int
  BY <1>1 DEF Exposed
<1> QED  BY <1>2

LEMMA EntryAdds ==
  ASSUME EntryTypeOK, EntryTypeOK', NEW e \in Epics,
         book[e] = None, book'[e] # None, \A x \in Epics \ {e} : book'[x] = book[x]
  PROVE  /\ \A c : e \in DOMAIN CurrencyMap /\ c \in {CurrencyMap[e][1], CurrencyMap[e][2]} =>
               NetCurrency(book', c)
                 = NetCurrency(book, c) + Contribution(e, c) * Exposed(book'[e])
         /\ \A group, sign : e \in group /\ sign \in [Epics -> Sides] =>
               NetGroup(book', group, sign)
                 = NetGroup(book, group, sign) + sign[e] * Exposed(book'[e])
<1>1. \A x \in Epics : /\ book[x] # None => book[x] \in Positions
                       /\ book'[x] # None => book'[x] \in Positions
  BY DEF EntryTypeOK
<1>2. e \notin Open(book) /\ e \in Open(book')
      /\ \A x \in Epics \ {e} : x \in Open(book') <=> x \in Open(book)
  BY DEF Open
<1>3. ASSUME NEW c, e \in DOMAIN CurrencyMap, c \in {CurrencyMap[e][1], CurrencyMap[e][2]}
      PROVE  NetCurrency(book', c)
               = NetCurrency(book, c) + Contribution(e, c) * Exposed(book'[e])
  <2> DEFINE term(b, x) == IF x \in Sharing(b, c) THEN Contribution(x, c) * Exposed(b[x]) ELSE 0
             f == [x \in Epics |-> term(book, x)]
             g == [x \in Epics |-> term(book', x)]
  <2>1. \A x \in Epics : term(book, x) \in Int /\ term(book', x) \in Int
    <3>1. \A x : Contribution(x, c) \in Int
      BY DEF Contribution
    <3>2. \A x \in Sharing(book, c) : book[x] \in Positions
      BY <1>1 DEF Sharing, Open
    <3>3. \A x \in Sharing(book', c) : book'[x] \in Positions
      BY <1>1 DEF Sharing, Open
    <3> QED  BY <3>1, <3>2, <3>3, ProductType
  <2>2. term(book, e) = 0 /\ term(book', e) = Contribution(e, c) * Exposed(book'[e])
    BY <1>2, <1>3 DEF Sharing
  <2>3. \A x \in Epics \ {e} : term(book', x) = term(book, x)
    BY <1>2 DEF Sharing
  <2>4. NetCurrency(book, c) = SumFunction(f) /\ NetCurrency(book', c) = SumFunction(g)
    BY DEF NetCurrency
  <2> HIDE DEF term
  <2>5. SumFunction(g) = SumFunction(f) + g[e]
    <3>1. f[e] = 0 /\ DOMAIN f = Epics /\ DOMAIN g = Epics
      BY <2>2
    <3>2. \A x \in Epics : f[x] \in Int /\ g[x] \in Int
      BY <2>1
    <3>3. \A x \in Epics \ {e} : g[x] = f[x]
      BY <2>3
    <3> HIDE DEF f, g
    <3> QED  BY <3>1, <3>2, <3>3, OneEpicMore
  <2>6. g[e] = Contribution(e, c) * Exposed(book'[e])
    BY <2>2
  <2> HIDE DEF f, g
  <2> QED  BY <2>4, <2>5, <2>6
<1>4. ASSUME NEW group, NEW sign \in [Epics -> Sides], e \in group
      PROVE  NetGroup(book', group, sign)
               = NetGroup(book, group, sign) + sign[e] * Exposed(book'[e])
  <2> DEFINE term(b, x) == IF x \in group \cap Open(b) THEN sign[x] * Exposed(b[x]) ELSE 0
             f == [x \in Epics |-> term(book, x)]
             g == [x \in Epics |-> term(book', x)]
  <2>1. \A x \in Epics : term(book, x) \in Int /\ term(book', x) \in Int
    <3>1. \A x \in Epics : sign[x] \in Int
      BY DEF Sides
    <3>2. \A x \in Open(book) : book[x] \in Positions
      BY <1>1 DEF Open
    <3>3. \A x \in Open(book') : book'[x] \in Positions
      BY <1>1 DEF Open
    <3> QED  BY <3>1, <3>2, <3>3, ProductType
  <2>2. term(book, e) = 0 /\ term(book', e) = sign[e] * Exposed(book'[e])
    BY <1>2, <1>4
  <2>3. \A x \in Epics \ {e} : term(book', x) = term(book, x)
    BY <1>2
  <2>4. NetGroup(book, group, sign) = SumFunction(f) /\ NetGroup(book', group, sign) = SumFunction(g)
    BY DEF NetGroup
  <2> HIDE DEF term
  <2>5. SumFunction(g) = SumFunction(f) + g[e]
    <3>1. f[e] = 0 /\ DOMAIN f = Epics /\ DOMAIN g = Epics
      BY <2>2
    <3>2. \A x \in Epics : f[x] \in Int /\ g[x] \in Int
      BY <2>1
    <3>3. \A x \in Epics \ {e} : g[x] = f[x]
      BY <2>3
    <3> HIDE DEF f, g
    <3> QED  BY <3>1, <3>2, <3>3, OneEpicMore
  <2>6. g[e] = sign[e] * Exposed(book'[e])
    BY <2>2
  <2> HIDE DEF f, g
  <2> QED  BY <2>4, <2>5, <2>6
<1> QED  BY <1>3, <1>4

(***************************************************************************)
(* An entry leaves no currency of its pair and no correlated group of its  *)
(* epic above its share of the equity of that moment, and its own notional *)
(* within its cap, for any pairs, matrices, limits and sizing, whatever    *)
(* was opened, closed or regrouped before (risk/manager.py:221-296): what  *)
(* the checks project is what the book holds afterwards.                   *)
(***************************************************************************)
THEOREM EntriesStayWithinLimits == EntrySpec => EntryWithinLimits
<1>1. EntryInv /\ EntryInv' /\ [EntryNext]_entryVars
        => [\A e \in Epics : (book[e] = None /\ book'[e] # None)
                               => WithinLimitsOf(e, book')]_entryVars
  <2> SUFFICES ASSUME EntryInv, EntryInv', EntryNext,
                      NEW e \in Epics, book[e] = None, book'[e] # None
               PROVE  WithinLimitsOf(e, book')
    BY DEF entryVars
  <2>1. PICK signal \in Signals : Enter(e, signal)
    <3>1. ASSUME NEW x \in Epics, Close(x) PROVE FALSE
      BY <3>1 DEF Close, EntryInv, EntryTypeOK
    <3>2. ASSUME NEW x \in Epics, NEW signal \in Signals, Enter(x, signal), x # e PROVE FALSE
      BY <3>2 DEF Enter, EntryInv, EntryTypeOK
    <3> QED  BY <3>1, <3>2 DEF EntryNext, Report, Correlate
  <2> DEFINE entry == [side |-> signal.side, notional |-> Size(signal)]
  <2>2. /\ book'[e] = entry /\ \A x \in Epics \ {e} : book'[x] = book[x]
        /\ CurrencyOK(e, entry) /\ CorrelationOK(e, entry)
    BY <2>1 DEF Enter, EntryInv, EntryTypeOK
  <2>3. book'[e].notional <= MaxPositionPct * equity
    <3>1. book'[e].notional = Size(signal)
      BY <2>2
    <3>2. equity \in Nat /\ MaxPositionPct \in Nat /\ equity \in Balances
      BY EntryAssumption DEF EntryInv, EntryTypeOK
    <3>3. equity * MaxPositionPct = MaxPositionPct * equity
      BY <3>2
    <3> QED  BY <3>1, <3>2, <3>3, SizeFacts
  <2> HIDE DEF entry
  <2>4. ASSUME e \in DOMAIN CurrencyMap, NEW c \in {CurrencyMap[e][1], CurrencyMap[e][2]}
        PROVE  Abs(NetCurrency(book', c)) <= MaxCurrencyExposurePct * equity
    <3>1. NetCurrency(book', c) = NetCurrency(book, c) + Contribution(e, c) * Exposed(entry)
      BY <2>2, <2>4, EntryAdds DEF EntryInv
    <3>2. Abs(NetCurrency(book, c) + Contribution(e, c) * Exposed(entry))
            <= MaxCurrencyExposurePct * equity
      BY <2>2, <2>4 DEF CurrencyOK
    <3> QED  BY <3>1, <3>2
  <2>5. ASSUME correlation # None, correlation.group[e] # {}
        PROVE  LET group == correlation.group[e]
               IN /\ Abs(NetGroup(book', group, correlation.sign))
                       <= MaxCorrelatedExposurePct * equity
                  /\ MaxPositionsPerGroup # None =>
                       Cardinality(group \cap Open(book')) <= MaxPositionsPerGroup
    <3> DEFINE group == correlation.group[e]
    <3>1. e \in group /\ correlation.sign \in [Epics -> Sides] /\ group \in SUBSET Epics
      BY <2>5 DEF EntryInv, EntryTypeOK, OwnGroup
    <3>2. NetGroup(book', group, correlation.sign)
            = NetGroup(book, group, correlation.sign) + correlation.sign[e] * Exposed(entry)
      <4> HIDE DEF group
      <4> QED  BY <2>2, <3>1, EntryAdds DEF EntryInv
    <3>3. /\ Abs(NetGroup(book, group, correlation.sign) + correlation.sign[e] * Exposed(entry))
               <= MaxCorrelatedExposurePct * equity
          /\ BelowLimit(Cardinality(group \cap Open(book)), MaxPositionsPerGroup)
      BY <2>2, <2>5 DEF CorrelationOK
    <3> HIDE DEF group
    <3>4. ASSUME MaxPositionsPerGroup # None
          PROVE  Cardinality(group \cap Open(book')) <= MaxPositionsPerGroup
      <4>1. MaxPositionsPerGroup \in Nat
        BY <3>4, EntryAssumption DEF Limits
      <4>2. Cardinality(group \cap Open(book)) < MaxPositionsPerGroup
        BY <3>3, <3>4 DEF BelowLimit
      <4>3. IsFiniteSet(group \cap Open(book))
        BY <3>1, EntryAssumption, FS_Subset
      <4>4. group \cap Open(book') \subseteq (group \cap Open(book)) \cup {e}
        BY <2>2 DEF Open
      <4> QED  BY <4>1, <4>2, <4>3, <4>4, OneMore
    <3>5. Abs(NetGroup(book', group, correlation.sign)) <= MaxCorrelatedExposurePct * equity
      BY <3>2, <3>3
    <3> QED  BY <3>4, <3>5 DEF group
  <2> QED  BY <2>3, <2>4, <2>5 DEF WithinLimitsOf
<1> QED
  BY <1>1, EntryInitInv, EntryNextInv, PTL DEF EntrySpec, EntryWithinLimits

=============================================================================
