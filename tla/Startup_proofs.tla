--------------------------- MODULE Startup_proofs ---------------------------
(***************************************************************************)
(* Proofs about a deployment: RunLock for any set of process ids, and      *)
(* Preflight for any number of instruments, deals of others and retries.   *)
(***************************************************************************)
EXTENDS MCStartup, SequenceTheorems, FiniteSetTheorems, TLAPS

----------------------------------------------------------------------------
(* The run lock. *)

(***************************************************************************)
(* What keeps the lock exclusive when launches are serial:                 *)
(*   OneAcquirer    that launches are serial                               *)
(*   HolderNamed    the file names whoever holds the lock, so there is one *)
(*   SeesHolder     an acquirer that read the file read its holder         *)
(*   TakesStale     and one that takes the file over does so from nobody   *)
(*   WritesAlone    the file stays empty until its new owner is written    *)
(***************************************************************************)
OneAcquirer ==
  \A p, q \in Pids : pc[p] \in Acquiring /\ pc[q] \in Acquiring => p = q
HolderNamed == \A p \in Pids : pc[p] \in Holding => file = p
SeesHolder ==
  \A p, q \in Pids : pc[p] = "check" /\ pc[q] \in Holding => seen[p] = q
TakesStale ==
  \A p, q \in Pids : pc[p] = "take" => pc[q] \notin Holding
WritesAlone ==
  \A p \in Pids : pc[p] = "write" => file = Empty

LockInv ==
  TypeOK /\ OneAcquirer /\ HolderNamed /\ SeesHolder /\ TakesStale
    /\ WritesAlone /\ detached = {}

LEMMA InitLock == Init => LockInv
BY DEF Init, LockInv, TypeOK, OneAcquirer, HolderNamed, SeesHolder,
       TakesStale, WritesAlone, Acquiring, Holding

LEMMA NextLock ==
  ASSUME SerialStarts, LockInv, [Next]_vars
  PROVE  LockInv'
<1> USE LockAssumption DEF LockInv, TypeOK, OneAcquirer, HolderNamed,
        SeesHolder, TakesStale, WritesAlone, Acquiring, Holding
<1>1. ASSUME NEW p \in Pids, Launch(p) PROVE LockInv'
  BY <1>1 DEF Launch, GoTo
<1>2. ASSUME NEW p \in Pids, Create(p) PROVE LockInv'
  BY <1>2 DEF Create, GoTo
<1>3. ASSUME NEW p \in Pids, Read(p) PROVE LockInv'
  BY <1>3 DEF Read, GoTo
<1>4. ASSUME NEW p \in Pids, Refuse(p) PROVE LockInv'
  BY <1>4 DEF Refuse, End, GoTo
<1>5. ASSUME NEW p \in Pids, FindStale(p) PROVE LockInv'
  BY <1>5 DEF FindStale, Busy, Alive, GoTo
<1>6. ASSUME NEW p \in Pids, Truncate(p) PROVE LockInv'
  BY <1>6 DEF Truncate, GoTo
<1>7. ASSUME NEW p \in Pids, Write(p) PROVE LockInv'
  BY <1>7 DEF Write, GoTo
<1>8. ASSUME NEW p \in Pids, Release(p) PROVE LockInv'
  BY <1>8 DEF Release, End, GoTo
<1>9. ASSUME NEW p \in Pids, Unlink(p) PROVE LockInv'
  BY <1>9 DEF Unlink, GoTo
<1>10. ASSUME NEW p \in Pids, Crash(p) PROVE LockInv'
  BY <1>10 DEF Crash, End, GoTo
<1>11. ASSUME NEW p \in Pids, Reuse(p) \/ ForeignEnds(p) PROVE LockInv'
  BY <1>11 DEF Reuse, ForeignEnds
<1>12. CASE UNCHANGED vars
  BY <1>12 DEF vars
<1> QED
  BY <1>1, <1>2, <1>3, <1>4, <1>5, <1>6, <1>7, <1>8, <1>9, <1>10, <1>11,
     <1>12 DEF Next

(***************************************************************************)
(* When engines are launched one after the other, however they end and     *)
(* whoever gets their process ids, at most one holds the lock              *)
(* (runlock.py:54-80).                                                     *)
(***************************************************************************)
THEOREM SerialLaunchesExclude ==
  ASSUME SerialStarts
  PROVE  Spec => []MutualExclusion
<1>1. LockInv => MutualExclusion
  BY DEF LockInv, HolderNamed, MutualExclusion
<1> QED
  BY <1>1, InitLock, NextLock, PTL DEF Spec

(***************************************************************************)
(* release never deletes a lock that is not its own (runlock.py:72-80).    *)
(***************************************************************************)
THEOREM ReleaseDeletesOwn ==
  ASSUME SerialStarts
  PROVE  Spec => DeletesOwnLock
<1>1. LockInv =>
        \A p \in Pids : (pc[p] = "unlink" /\ file # NoFile /\ file' = NoFile)
                           => file = p
  BY DEF LockInv, HolderNamed, Holding
<1> QED
  BY <1>1, InitLock, NextLock, PTL DEF Spec, DeletesOwnLock

(***************************************************************************)
(* A launch whose stale pid is no other program's is refused only while    *)
(* another engine holds the lock (runlock.py:59-65), however the engines   *)
(* before it ended.                                                        *)
(***************************************************************************)
THEOREM StaleLockTakenOver ==
  ASSUME SerialStarts
  PROVE  Spec => StaleTakenOver
<1>1. LockInv =>
        \A p \in Pids : (Refuse(p) /\ seen[p] \notin foreign) => OtherHolds(p)
  <2> SUFFICES ASSUME LockInv, NEW p \in Pids, Refuse(p), seen[p] \notin foreign
               PROVE  \E q \in Pids \ {p} : pc[q] \in Holding
    BY DEF OtherHolds
  <2>1. /\ seen[p] \in Pids \ {p}
        /\ pc[seen[p]] # "off"
    BY DEF Refuse, Busy, Alive, LockInv, TypeOK
  <2>2. pc[seen[p]] \notin Acquiring
    BY <2>1 DEF Refuse, LockInv, OneAcquirer, Acquiring
  <2> QED
    BY <2>1, <2>2 DEF LockInv, TypeOK
<1> QED
  BY <1>1, InitLock, NextLock, PTL DEF Spec, StaleTakenOver

----------------------------------------------------------------------------
(* The preflight. *)

CheckNames ==
  {"login", "account/equity", "instruments", "market details", "history",
   "positions", "test order", "test order open", "test order close"}
Checks == [name : CheckNames, ok : BOOLEAN]
OwnDeals ==
  [of : {"test"}, epic : {First}, ref : 1..MaxSent, shown : BOOLEAN]
OthersDeals == {OthersDeal(e) : e \in Others}

ReadSteps == {"login", "accounts", "details", "history", "positions"}
OrderSteps == {"create", "confirm", "resolve", "close"}

(***************************************************************************)
(* What the run relies on between its steps: the book holds the deals of   *)
(* others as they were and none of its own before the create; a reference  *)
(* never names somebody else's deal; what it is about to close is its own. *)
(***************************************************************************)
PreflightTypeOK ==
  /\ live \in BOOLEAN /\ wanted \in BOOLEAN
  /\ step \in ReadSteps \cup {"rules"} \cup OrderSteps \cup {"done"}
  /\ results \in Seq(Checks)
  /\ ref \in Nat \cup {NoRef}
  /\ book \subseteq OwnDeals \cup OthersDeals
OrderInv ==
  /\ step \in ReadSteps \cup {"rules", "create"} => Own = {}
  /\ step \in OrderSteps => ~live
  /\ step \in {"resolve", "confirm"} => ref # 0
  /\ step = "close" => deal \in Own /\ deal.shown
RunInv == PreflightTypeOK /\ OrderInv

LEMMA FailureStays ==
  ASSUME NEW s \in Seq(Checks), NEW x \in Checks, ~x.ok
  PROVE  /\ \E i \in DOMAIN Append(s, x) : ~Append(s, x)[i].ok
         /\ s \o <<x>> = Append(s, x)
<1>1. /\ Append(s, x) \in Seq(Checks)
      /\ Len(Append(s, x)) = Len(s) + 1
      /\ Append(s, x)[Len(s) + 1] = x
      /\ Len(s) \in Nat
  BY AppendProperties, LenProperties
<1>2. Len(s) + 1 \in DOMAIN Append(s, x)
  BY <1>1, LenProperties
<1>3. s \o <<x>> = Append(s, x)
  BY AppendIsConcat
<1> QED
  BY <1>1, <1>2, <1>3

LEMMA ReportedType ==
  ASSUME NEW name \in CheckNames, NEW ok \in BOOLEAN, results \in Seq(Checks)
  PROVE  Reported(name, ok) \in Seq(Checks)
<1>1. [name |-> name, ok |-> ok] \in Checks
  BY DEF Checks
<1> HIDE DEF Checks
<1> QED
  BY <1>1, AppendProperties DEF Reported

LEMMA InitRun == PreflightInit => RunInv
<1> SUFFICES ASSUME PreflightInit PROVE RunInv
  OBVIOUS
<1>1. <<>> \in Seq(Checks)
  BY EmptySeq
<1>2. Own = {}
  BY DEF PreflightInit, Own, OthersDeal
<1> QED
  BY <1>1, <1>2 DEF PreflightInit, RunInv, PreflightTypeOK, OrderInv, ReadSteps,
     OrderSteps, OthersDeals

(***************************************************************************)
(* A create that is sent leaves deals of the preflight in the book, how    *)
(* often it was sent again or not (rest_client.py, _raw_request).          *)
(***************************************************************************)
LEMMA SentFacts ==
  ASSUME NEW b \in Sent, PreflightTypeOK, Own = {}
  PROVE  /\ b \subseteq OwnDeals \cup OthersDeals
         /\ Cardinality(b \ book) \in Nat \ {0}
         /\ MaxSent = 1 => b = book \cup {Opened(1)}
<1>1. PICK n \in 1..MaxSent : b = book \cup {Opened(i) : i \in 1..n}
  BY DEF Sent
<1>2. \A i \in 1..n : Opened(i) \in OwnDeals /\ Opened(i) \notin book
  BY PreflightAssumption DEF Opened, OwnDeals, Own
<1> DEFINE D == {Opened(i) : i \in 1..n}
<1>3. b \ book = D
  BY <1>1, <1>2
<1>4. IsFiniteSet(D) /\ D # {}
  <2> DEFINE f == [i \in 1..n |-> Opened(i)]
  <2>1. f \in Surjection(1..n, D)
    BY DEF Surjection
  <2>2. IsFiniteSet(1..n) /\ 1 \in 1..n
    BY FS_Interval, PreflightAssumption
  <2>3. D # {}
    BY <2>2
  <2> HIDE DEF f, D
  <2> QED
    BY <2>1, <2>2, <2>3, FS_Surjection
<1>5. Cardinality(D) \in Nat \ {0}
  <2> HIDE DEF D
  <2> QED
    BY <1>4, FS_CardinalityType, FS_EmptySet
<1>6. b \subseteq OwnDeals \cup OthersDeals
  BY <1>1, <1>2 DEF PreflightTypeOK
<1>7. ASSUME MaxSent = 1
      PROVE  b = book \cup {Opened(1)}
  <2>1. 1..n = {1}
    BY <1>7
  <2> QED
    BY <1>1, <2>1
<1> QED
  BY <1>3, <1>5, <1>6, <1>7

LEMMA NextRun ==
  ASSUME First \notin Others, RunInv, [PreflightNext]_preflightVars
  PROVE  RunInv'
<1> USE DEF CheckNames, RunInv, PreflightTypeOK, OrderInv, ReadSteps, OrderSteps
<1>1. CASE Login
  <2>1. results' \in Seq(Checks)
    BY <1>1, ReportedType DEF Login
  <2> QED
    BY <1>1, <2>1 DEF Login, asked, order, Own
<1>2. CASE Accounts
  <2>1. CASE count # 0
    <3>1. results' \in Seq(Checks)
      BY <1>2, <2>1, ReportedType DEF Accounts, Probe
    <3> QED
      BY <1>2, <2>1, <3>1 DEF Accounts, Probe, asked, order, Own
  <2>2. CASE count = 0
    <3>1. PICK ok \in BOOLEAN :
            results' = Reported("account/equity", ok)
                         \o <<[name |-> "instruments", ok |-> FALSE]>>
      BY <1>2, <2>2 DEF Accounts
    <3>2. Reported("account/equity", ok) \in Seq(Checks)
      BY ReportedType DEF CheckNames
    <3>3. [name |-> "instruments", ok |-> FALSE] \in Checks
      BY DEF Checks, CheckNames
    <3>4. results' \in Seq(Checks)
      BY <3>1, <3>2, <3>3, AppendIsConcat, AppendProperties
    <3> QED
      BY <1>2, <2>2, <3>4 DEF Accounts, asked, order, Own
  <2> QED
    BY <2>1, <2>2
<1>3. CASE MarketDetails
  <2>1. results' \in Seq(Checks)
    BY <1>3, ReportedType DEF MarketDetails, Probe
  <2> QED
    BY <1>3, <2>1 DEF MarketDetails, Probe, asked, order, Own
<1>4. CASE Histories
  <2>1. results' \in Seq(Checks)
    BY <1>4, ReportedType DEF Histories
  <2> QED
    BY <1>4, <2>1 DEF Histories, asked, order, Own
<1>5. CASE Positions
  <2>1. results' \in Seq(Checks)
    BY <1>5, ReportedType DEF Positions, Probe
  <2> QED
    BY <1>5, <2>1 DEF Positions, Probe, asked, order, Own
<1>6. CASE DealingRules
  <2>1. results' \in Seq(Checks)
    BY <1>6, ReportedType DEF DealingRules, Fails
  <2> QED
    BY <1>6, <2>1 DEF DealingRules, Fails, asked, order, Own
<1>7. CASE CreateOrder
  <2>1. CASE book' \in Sent
    <3>1. /\ book' \subseteq OwnDeals \cup OthersDeals
          /\ Cardinality(book' \ book) \in Nat \ {0}
      BY <1>7, <2>1, SentFacts DEF CreateOrder
    <3>2. ref' \in Nat \cup {NoRef} /\ ref' # 0
      BY <1>7, <3>1, PreflightAssumption DEF CreateOrder
    <3> QED
      BY <1>7, <3>1, <3>2 DEF CreateOrder, asked
  <2>2. CASE book' \notin Sent
    BY <1>7, <2>2 DEF CreateOrder, asked, Own
  <2> QED
    BY <2>1, <2>2
<1>8. CASE OrderRaises
  <2>1. book' \subseteq OwnDeals \cup OthersDeals
    BY <1>8, SentFacts DEF OrderRaises
  <2>2. results' \in Seq(Checks)
    BY <1>8, ReportedType DEF OrderRaises, Fails
  <2> QED
    BY <1>8, <2>1, <2>2 DEF OrderRaises, Fails, asked
<1>9. CASE Confirm
  <2>1. results' \in Seq(Checks)
    BY <1>9, ReportedType DEF Confirm, Fails
  <2> QED
    BY <1>9, <2>1 DEF Confirm, Fails, asked, order, Own
<1>10. CASE Resolve
  <2>1. Resolved \subseteq {d \in Own : d.shown}
    BY <1>10 DEF Resolve, Resolved, Shown, Own, OwnDeals, OthersDeals, OthersDeal
  <2>2. results' \in Seq(Checks)
    BY <1>10, ReportedType DEF Resolve, Fails, Unresolved
  <2> QED
    BY <1>10, <2>1, <2>2 DEF Resolve, Fails, asked, Own
<1>11. CASE Close
  <2>1. results' \in Seq(Checks)
    BY <1>11, ReportedType DEF Close
  <2> QED
    BY <1>11, <2>1 DEF Close, asked, order
<1>12. CASE CloseRaises
  <2>1. results' \in Seq(Checks)
    BY <1>12, ReportedType DEF CloseRaises, Fails
  <2> QED
    BY <1>12, <2>1 DEF CloseRaises, Fails, asked, order
<1>13. CASE Shows
  <2>1. PICK d \in book \ Shown :
          book' = (book \ {d}) \cup {[d EXCEPT !.shown = TRUE]}
    BY <1>13 DEF Shows
  <2>2. d \in OwnDeals
    BY <2>1 DEF Shown, OthersDeals, OthersDeal
  <2>3. [d EXCEPT !.shown = TRUE] \in OwnDeals /\ ~d.shown /\ d \in Own
    BY <2>1, <2>2 DEF OwnDeals, Shown, Own
  <2> QED
    BY <1>13, <2>1, <2>3 DEF Shows, asked, order, Own
<1>14. CASE UNCHANGED preflightVars
  BY <1>14 DEF preflightVars, Own
<1> QED
  BY <1>1, <1>2, <1>3, <1>4, <1>5, <1>6, <1>7, <1>8, <1>9, <1>10, <1>11, <1>12,
     <1>13, <1>14 DEF PreflightNext, ReadOnly, TestOrder

(***************************************************************************)
(* The preflight closes no deal of somebody else (preflight.py,            *)
(* _test_order): while nobody holds a deal of the epic it tests, a lookup, *)
(* by reference or by epic, can only answer with the deal it opened.       *)
(***************************************************************************)
THEOREM OthersLeftAlone ==
  ASSUME First \notin Others
  PROVE  PreflightSpec => OthersUntouched
<1>1. RunInv /\ [PreflightNext]_preflightVars =>
        \A d \in book : d.of = "other" => d \in book'
  <2> SUFFICES ASSUME RunInv, [PreflightNext]_preflightVars,
                      NEW d \in book, d.of = "other"
               PROVE  d \in book'
    OBVIOUS
  <2>1. CASE CreateOrder \/ OrderRaises
    BY <2>1 DEF CreateOrder, OrderRaises, Sent
  <2>2. CASE Close \/ CloseRaises
    <3>1. d # deal
      BY <2>2 DEF Close, CloseRaises, RunInv, OrderInv, Own
    <3> QED
      BY <2>2, <3>1 DEF Close, CloseRaises
  <2>3. CASE Shows
    <3>1. PICK c \in book \ Shown :
            book' = (book \ {c}) \cup {[c EXCEPT !.shown = TRUE]}
      BY <2>3 DEF Shows
    <3>2. c \in OwnDeals
      BY <3>1
      DEF Shown, RunInv, PreflightTypeOK, OthersDeals, OthersDeal
    <3>3. d # c
      BY <3>2 DEF OwnDeals
    <3> QED
      BY <3>1, <3>3
  <2>4. CASE book' = book
    BY <2>4
  <2> QED
    BY <2>1, <2>2, <2>3, <2>4
    DEF PreflightNext, ReadOnly, TestOrder, Login, Accounts, MarketDetails,
        Histories, Positions, Probe, DealingRules, Confirm, Resolve, preflightVars
<1> QED
  BY <1>1, InitRun, NextRun, PTL DEF PreflightSpec, OthersUntouched

(***************************************************************************)
(* What a run whose create is sent once owns, and what it has when it ends.*)
(***************************************************************************)
OneOwn == \A c, d \in Own : c = d
PassInv == OneOwn /\ PassMeansRoundTrip

LEMMA FailureShows ==
  ASSUME PreflightTypeOK, NEW name \in CheckNames, results' = Reported(name, FALSE)
  PROVE  ~AllPassed'
<1>1. [name |-> name, ok |-> FALSE] \in Checks
  BY DEF Checks
<1>2. \E i \in DOMAIN results' : ~results'[i].ok
  BY <1>1, FailureStays DEF Reported, PreflightTypeOK
<1> QED
  BY <1>2 DEF AllPassed

LEMMA NextPass ==
  ASSUME First \notin Others, MaxSent = 1, RunInv, PassInv,
         [PreflightNext]_preflightVars
  PROVE  PassInv'
<1> USE DEF CheckNames, PassInv
<1>1. PreflightTypeOK /\ OrderInv
  BY DEF RunInv
<1>2. ASSUME step' # "done" \/ ~AllPassed'
      PROVE  PassMeansRoundTrip'
  BY <1>2 DEF PassMeansRoundTrip
<1>3. CASE Login
  <2>1. step' # "done" \/ ~AllPassed'
    BY <1>1, <1>3, FailureShows DEF Login
  <2> QED
    BY <1>2, <1>3, <2>1 DEF Login, OneOwn, Own
<1>4. CASE Accounts
  <2>1. CASE count # 0
    BY <1>2, <1>4, <2>1 DEF Accounts, Probe, OneOwn, Own
  <2>2. CASE count = 0
    <3>1. PICK ok \in BOOLEAN :
            results' = Reported("account/equity", ok)
                         \o <<[name |-> "instruments", ok |-> FALSE]>>
      BY <1>4, <2>2 DEF Accounts
    <3>2. Reported("account/equity", ok) \in Seq(Checks)
      BY <1>1, ReportedType DEF PreflightTypeOK
    <3>3. [name |-> "instruments", ok |-> FALSE] \in Checks
      BY DEF Checks
    <3>4. \E i \in DOMAIN results' : ~results'[i].ok
      BY <3>1, <3>2, <3>3, FailureStays
    <3>5. ~AllPassed'
      BY <3>4 DEF AllPassed
    <3> QED
      BY <1>2, <1>4, <2>2, <3>5 DEF Accounts, OneOwn, Own
  <2> QED
    BY <2>1, <2>2
<1>5. CASE MarketDetails
  BY <1>2, <1>5 DEF MarketDetails, Probe, OneOwn, Own
<1>6. CASE Histories
  BY <1>2, <1>6 DEF Histories, OneOwn, Own
<1>7. CASE Positions
  <2>1. Own' = {}
    BY <1>1, <1>7 DEF Positions, Probe, OrderInv, ReadSteps, Own
  <2>2. step' = "done" => ~wanted'
    BY <1>7 DEF Positions, Probe, asked
  <2> QED
    BY <2>1, <2>2 DEF OneOwn, PassMeansRoundTrip
<1>8. CASE DealingRules
  <2>1. step' # "done" \/ ~AllPassed'
    BY <1>1, <1>8, FailureShows DEF DealingRules, Fails
  <2> QED
    BY <1>2, <1>8, <2>1 DEF DealingRules, OneOwn, Own
<1>9. CASE CreateOrder \/ OrderRaises
  <2>1. Own = {}
    BY <1>1, <1>9 DEF CreateOrder, OrderRaises, OrderInv
  <2>2. book' = book \/ book' = book \cup {Opened(1)}
    BY <1>1, <1>9, <2>1, SentFacts DEF CreateOrder, OrderRaises
  <2>3. OneOwn'
    BY <2>1, <2>2 DEF OneOwn, Own
  <2>4. step' # "done" \/ ~AllPassed'
    BY <1>1, <1>9, FailureShows DEF CreateOrder, OrderRaises, Fails
  <2> QED
    BY <1>2, <2>3, <2>4
<1>10. CASE Confirm
  <2>1. step' # "done" \/ ~AllPassed'
    BY <1>1, <1>10, FailureShows DEF Confirm, Fails
  <2> QED
    BY <1>2, <1>10, <2>1 DEF Confirm, OneOwn, Own
<1>11. CASE Resolve
  <2>1. step' # "done" \/ ~AllPassed'
    BY <1>1, <1>11, FailureShows DEF Resolve, Fails, Unresolved
  <2> QED
    BY <1>2, <1>11, <2>1 DEF Resolve, OneOwn, Own
<1>12. CASE Close
  <2>1. /\ deal \in Own /\ deal' = deal
        /\ book' = book \ {deal}
        /\ live' = live /\ ~live
    BY <1>1, <1>12 DEF Close, OrderInv, OrderSteps, order, asked
  <2>2. Own' = {}
    BY <2>1 DEF OneOwn, Own
  <2>3. deal.of = "test" /\ deal \in OwnDeals
    BY <1>1, <2>1 DEF Own, PreflightTypeOK, OthersDeals, OthersDeal
  <2>4. deal # NoDeal
    BY <2>3, PreflightAssumption DEF OwnDeals
  <2> QED
    BY <2>1, <2>2, <2>3, <2>4 DEF OneOwn, PassMeansRoundTrip
<1>13. CASE CloseRaises
  <2>1. ~AllPassed'
    BY <1>1, <1>13, FailureShows DEF CloseRaises, Fails
  <2> QED
    BY <1>2, <1>13, <2>1 DEF CloseRaises, OneOwn, Own
<1>14. CASE Shows
  <2>1. PICK d \in book \ Shown :
          book' = (book \ {d}) \cup {[d EXCEPT !.shown = TRUE]}
    BY <1>14 DEF Shows
  <2>2. d \in OwnDeals
    BY <1>1, <2>1 DEF Shown, PreflightTypeOK, OthersDeals, OthersDeal
  <2>3. d \in Own
    BY <2>1, <2>2 DEF OwnDeals, Own
  <2>4. Own = {d}
    BY <2>3 DEF OneOwn
  <2>5. OneOwn'
    BY <2>1, <2>4 DEF OneOwn, Own
  <2>6. ~(step = "done" /\ AllPassed)
    BY <2>3 DEF PassMeansRoundTrip
  <2> QED
    BY <1>14, <2>5, <2>6 DEF Shows, PassMeansRoundTrip, AllPassed
<1>15. CASE UNCHANGED preflightVars
  BY <1>15 DEF preflightVars, PassMeansRoundTrip, OneOwn, Own, AllPassed
<1> QED
  BY <1>3, <1>4, <1>5, <1>6, <1>7, <1>8, <1>9, <1>10, <1>11, <1>12, <1>13, <1>14,
     <1>15 DEF PreflightNext, ReadOnly, TestOrder

(***************************************************************************)
(* A preflight that passes made its round trip: no deal of its own is left,*)
(* and with --test-order one was opened and closed, on a demo account      *)
(* (preflight.py, _test_order).  PreflightGaps shows that both assumptions *)
(* are needed: a deal of somebody else of the tested epic, and an order    *)
(* doubled by a 503.                                                       *)
(***************************************************************************)
THEOREM PassedRoundTrip ==
  ASSUME First \notin Others, MaxSent = 1
  PROVE  PreflightSpec => []PassMeansRoundTrip
<1>1. PreflightInit => PassInv
  BY DEF PreflightInit, PassInv, OneOwn, Own, OthersDeal, PassMeansRoundTrip
<1>2. PassInv => PassMeansRoundTrip
  BY DEF PassInv
<1> QED
  BY <1>1, <1>2, InitRun, NextRun, NextPass, PTL DEF PreflightSpec

(***************************************************************************)
(* A deployment runs the two as they were proved: what holds of a preflight*)
(* and of the launches holds behind one another (cli.py, cmd_preflight and *)
(* cmd_run).                                                               *)
(***************************************************************************)
THEOREM DeploymentIsBoth == DeploySpec => Spec /\ PreflightSpec
<1>1. DeployInit => Init /\ PreflightInit
  BY DEF DeployInit
<1>2. [DeployNext]_<<vars, preflightVars>> =>
        [Next]_vars /\ [PreflightNext]_preflightVars
  BY DEF DeployNext, GivenUp
<1> QED
  BY <1>1, <1>2, PTL DEF DeploySpec, Spec, PreflightSpec

=============================================================================
