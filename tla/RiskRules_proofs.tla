-------------------------- MODULE RiskRules_proofs --------------------------
(***************************************************************************)
(* Facts about the rules of the risk manager, for any limits and window;   *)
(* the proofs about RiskManager and about LiveEngine rest on them.         *)
(***************************************************************************)
EXTENDS RiskRules, FiniteFacts, SequenceTheorems, FiniteSetTheorems, TLAPS

----------------------------------------------------------------------------

(***************************************************************************)
(* A loss counted from some equity is also one counted from a higher one:  *)
(* this is why remembering the peak is enough (risk/manager.py:105-109).   *)
(***************************************************************************)
LEMMA LostFromHigher ==
  ASSUME NEW x \in Int, NEW p \in Int, NEW e \in Int, NEW pct \in 0..100,
         x <= p, Lost(x, e, pct)
  PROVE  Lost(p, e, pct)
<1>1. (100 - pct) * (p - x) >= 0
  <2> DEFINE a == 100 - pct
             b == p - x
  <2>1. a \in Nat /\ b \in Nat
    OBVIOUS
  <2>2. a * b \in Nat
    BY <2>1, SMT
  <2> QED
    BY <2>2
<1>2. /\ (100 - pct) * (p - x) = 100 * p - 100 * x - pct * p + pct * x
      /\ 100 * (x - e) = 100 * x - 100 * e
      /\ 100 * (p - e) = 100 * p - 100 * e
  BY SMT
<1>3. x > 0 /\ 100 * (x - e) >= pct * x
  BY DEF Lost
<1>4. pct * p \in Int /\ pct * x \in Int
  BY SMT
<1> QED
  BY <1>1, <1>2, <1>3, <1>4 DEF Lost

(***************************************************************************)
(* A window that slides over one more equity is the newest of them, at     *)
(* most DrawdownPeakWindowBars long, in order (risk/manager.py:94-96).     *)
(***************************************************************************)
SlideLength(len) ==
  IF len < DrawdownPeakWindowBars THEN len + 1 ELSE DrawdownPeakWindowBars

LEMMA SlideFacts ==
  ASSUME NEW S, NEW w \in Seq(S), NEW e \in S, Rolling
  PROVE  /\ Slide(w, e) \in Seq(S)
         /\ Len(Slide(w, e)) = SlideLength(Len(w))
         /\ Slide(w, e)[SlideLength(Len(w))] = e
         /\ \A i \in 1..(SlideLength(Len(w)) - 1) :
              Slide(w, e)[i] = w[Len(w) + 1 - SlideLength(Len(w)) + i]
<1> DEFINE W == DrawdownPeakWindowBars
           n == SlideLength(Len(w))
<1>1. W \in Nat \ {0}
  BY DEF Rolling
<1> DEFINE longer == Append(w, e)
<1>2. /\ longer \in Seq(S)
      /\ Len(longer) = Len(w) + 1
      /\ longer[Len(w) + 1] = e
      /\ \A i \in 1..Len(w) : longer[i] = w[i]
      /\ Len(w) \in Nat
  BY AppendProperties, LenProperties
<1>3. Slide(w, e) = IF Len(longer) - W > 0
                      THEN SubSeq(longer, Len(longer) - W + 1, Len(longer))
                      ELSE longer
  BY DEF Slide
<1> HIDE DEF longer
<1>4. n \in 1..(Len(w) + 1)
  BY <1>1, <1>2 DEF SlideLength
<1>5. CASE Len(longer) - W > 0
  <2> DEFINE m == Len(longer) - W + 1
  <2>1. n = W /\ m \in 1..(Len(w) + 1) /\ m = Len(w) + 2 - n
    <3>1. n = W
      BY <1>1, <1>2, <1>5 DEF SlideLength
    <3> HIDE DEF W
    <3> QED
      BY <1>1, <1>2, <1>5, <3>1
  <2>2. \A i \in m..(Len(w) + 1) : longer[i] \in S
    BY <1>2, <2>1, ElementOfSeq
  <2> HIDE DEF m
  <2>3. /\ SubSeq(longer, m, Len(w) + 1) \in Seq(S)
        /\ Len(SubSeq(longer, m, Len(w) + 1)) = n
        /\ \A i \in 1..n : SubSeq(longer, m, Len(w) + 1)[i] = longer[m + i - 1]
    <3>1. m \in Int /\ Len(w) + 1 \in Int
      BY <1>2, <2>1
    <3>2. Len(w) + 1 - m + 1 = n /\ m <= Len(w) + 1
      BY <1>2, <1>4, <2>1
    <3> QED
      BY <2>2, <3>1, <3>2, SubSeqProperties
  <2>4. Slide(w, e) = SubSeq(longer, m, Len(w) + 1)
    BY <1>2, <1>3, <1>5 DEF m
  <2>5. Slide(w, e)[n] = e
    <3>1. n \in 1..n /\ m + n - 1 = Len(w) + 1
      BY <1>2, <1>4, <2>1
    <3>2. Slide(w, e)[n] = longer[m + n - 1]
      BY <2>3, <2>4, <3>1
    <3> QED
      BY <1>2, <3>1, <3>2
  <2>6. ASSUME NEW i \in 1..(n - 1)
        PROVE  Slide(w, e)[i] = w[Len(w) + 1 - n + i]
    <3>1. i \in 1..n /\ Len(w) + 1 - n + i \in 1..Len(w)
      BY <1>2, <1>4
    <3>2. m + i - 1 = Len(w) + 1 - n + i
      BY <1>2, <1>4, <2>1
    <3> QED
      BY <1>2, <2>3, <2>4, <3>1, <3>2
  <2> QED
    BY <1>4, <2>3, <2>4, <2>5, <2>6
<1>6. CASE ~(Len(longer) - W > 0)
  <2>1. Slide(w, e) = longer /\ n = Len(w) + 1
    BY <1>1, <1>2, <1>3, <1>6 DEF SlideLength
  <2> QED
    BY <1>2, <1>4, <2>1
<1> QED
  BY <1>5, <1>6

(***************************************************************************)
(* Every rule maps a well-formed risk state to a well-formed one.          *)
(***************************************************************************)
LEMMA UpdateType ==
  ASSUME NEW r \in RiskStates, NEW d \in Days, NEW e \in Int
  PROVE  UpdateEquity(r, d, e) \in RiskStates
<1> DEFINE rolled == RollDay(r, d, e)
           checked == DailyCheck(rolled, e)
<1>1. rolled \in RiskStates
  BY DEF RollDay, StartDay, RiskStates
<1>2. checked \in RiskStates
  BY <1>1 DEF DailyCheck, RiskStates, Higher
<1>3. Rolling => RollingCheck(checked, e) \in RiskStates
  <2> SUFFICES ASSUME Rolling
               PROVE  RollingCheck(checked, e) \in RiskStates
    OBVIOUS
  <2>1. Slide(checked.window, e) \in Seq(Int)
    BY <1>2, SlideFacts DEF RiskStates
  <2> QED
    BY <1>2, <2>1 DEF RollingCheck, RiskStates
<1>4. AllTimeCheck(checked, e) \in RiskStates
  BY <1>2 DEF AllTimeCheck, RiskStates
<1> QED
  BY <1>3, <1>4 DEF UpdateEquity

LEMMA SeqMonotone ==
  ASSUME NEW S, NEW T, S \subseteq T
  PROVE  Seq(S) \subseteq Seq(T)
<1> SUFFICES ASSUME NEW s \in Seq(S)
             PROVE  s \in Seq(T)
  OBVIOUS
<1>1. Len(s) \in Nat /\ s \in [1..Len(s) -> S]
  BY LenProperties
<1>2. s \in [1..Len(s) -> T]
  BY <1>1
<1> QED
  BY <1>1, <1>2

LEMMA RestoreType ==
  ASSUME NEW r \in RiskStates, NEW s \in Snapshots \cup {NoState}
  PROVE  Restore(r, s) \in RiskStates
BY DEF Restore, RiskStates, Snapshots

LEMMA SnapshotType ==
  ASSUME NEW r \in RiskStates
  PROVE  Snapshot(r) \in Snapshots
BY DEF Snapshot, RiskStates, Snapshots

LEMMA NewRiskType == NewRisk \in RiskStates
BY DEF NewRisk, RiskStates

(***************************************************************************)
(* What an update leaves in all-time mode: the switch is sticky and the    *)
(* peak only rises (risk/manager.py:89, 105-109).                          *)
(***************************************************************************)
LEMMA UpdateAllTime ==
  ASSUME NEW r \in RiskStates, NEW d \in Days, NEW e \in Int, ~Rolling
  PROVE  /\ UpdateEquity(r, d, e).peak = Higher(r.peak, e)
         /\ UpdateEquity(r, d, e).killed =
              (r.killed \/ Lost(Higher(r.peak, e), e, MaxTotalDrawdownPct))
<1> DEFINE rolled == RollDay(r, d, e)
<1>1. /\ rolled \in RiskStates
      /\ rolled.peak = r.peak
      /\ rolled.killed = r.killed
  BY DEF RollDay, StartDay, RiskStates
<1> DEFINE checked == DailyCheck(rolled, e)
<1> HIDE DEF rolled
<1>2. /\ checked \in RiskStates
      /\ checked.peak = Higher(r.peak, e)
      /\ checked.killed = r.killed
  BY <1>1 DEF DailyCheck, RiskStates, Higher
<1> HIDE DEF checked
<1>3. UpdateEquity(r, d, e) = AllTimeCheck(checked, e)
  BY DEF UpdateEquity, checked, rolled
<1> QED
  BY <1>2, <1>3 DEF AllTimeCheck, RiskStates

(***************************************************************************)
(* The peak of a window is one of its equities and no lower than any.      *)
(***************************************************************************)
LEMMA WindowPeakBounds ==
  ASSUME NEW w \in Seq(Int), Len(w) # 0
  PROVE  /\ WindowPeak(w) \in Int
         /\ \A i \in 1..Len(w) : w[i] <= WindowPeak(w)
<1> DEFINE V == {w[i] : i \in DOMAIN w}
<1>1. /\ Len(w) \in Nat /\ DOMAIN w = 1..Len(w) /\ w \in [1..Len(w) -> Int]
  BY LenProperties
<1>2. V \subseteq Int /\ w[1] \in V /\ IsFiniteSet(V)
  <2>1. w \in Surjection(1..Len(w), V)
    BY <1>1 DEF Surjection
  <2>2. IsFiniteSet(1..Len(w))
    BY <1>1, FS_Interval
  <2> QED
    BY <1>1, <2>1, <2>2, FS_Surjection
<1>3. \E m \in V : \A x \in V : x <= m
  <2> HIDE DEF V
  <2> QED
    BY <1>2, HasLargest
<1>4. \E m \in V : \A i \in DOMAIN w : w[i] <= m
  BY <1>3
<1>5. WindowPeak(w) \in V /\ \A i \in DOMAIN w : w[i] <= WindowPeak(w)
  <2> HIDE DEF V
  <2>1. WindowPeak(w) = CHOOSE m \in V : \A i \in DOMAIN w : w[i] <= m
    BY DEF WindowPeak, V
  <2> QED
    BY <1>4, <2>1
<1> QED
  BY <1>1, <1>2, <1>5

=============================================================================
