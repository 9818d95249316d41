-------------------------- MODULE Research_proofs --------------------------
(***************************************************************************)
(* Proofs about the research registry and the studies that feed it.        *)
(*                                                                         *)
(* While recording commands do not overlap, the registry implements the    *)
(* atomic ledger, for any ideas, terminals, rows and measures, and through *)
(* crashes.  The invariant says what a command in progress holds: a report *)
(* the ledger of the file, a save a ledger one allowed step away from it,  *)
(* a write one such step away from what was truncated.                     *)
(*                                                                         *)
(* No walk-forward fold and no holdout looks ahead, whatever the backtest, *)
(* the grid, the data and the sizes of the windows are.  What is chosen is *)
(* computed from a slice, and the slice of the blanked data is the slice   *)
(* of the data.                                                            *)
(*                                                                         *)
(* A download saves the end of a history: what it holds between two pages  *)
(* is the end of one, and the cursor parts it from what is missing.        *)
(*                                                                         *)
(* No trade counts twice: the bars of a timeline can be numbered, so that  *)
(* the windows of two folds, apart in number, are apart in time.           *)
(*                                                                         *)
(* What passes has a profit: a sum can be split by any key, and what       *)
(* is won exceeds what is lost when their ratio exceeds one.               *)
(***************************************************************************)
EXTENDS MCResearch, FiniteFacts, SequenceTheorems, FiniteSetTheorems, TLAPS

ScreenStep(old, new) ==
  /\ new \in Ledgers
  /\ \A i \in Ideas :
       \/ new[i] = old[i]
       \/ old[i] \notin FROZEN_STATUSES /\ new[i] \in {"candidate", "screen-fail"}

HOLDOUT_STATUSES == {"holdout-pass", "holdout-fail", "candidate"}

DecideStep(statuses, old, new) ==
  \E i \in Ideas, status \in statuses : new = [old EXCEPT ![i] = status]

Allowed(by, old, new) ==
  \/ by = "screen" /\ ScreenStep(old, new)
  \/ by = "holdout" /\ DecideStep(HOLDOUT_STATUSES, old, new)
  \/ by = "operator" /\ DecideStep(STATUSES, old, new)

Alone == \A p, q \in Procs : pc[p] # "idle" /\ pc[q] # "idle" => p = q

Holds(p) ==
  /\ pc[p] = "idle" <=> job[p].by = "none"
  /\ pc[p] = "report" => job[p].by = "screen" /\ Loadable(file) /\ mem[p] = Load(file)
  /\ pc[p] = "holdout" =>
       \E i \in Ideas : /\ job[p].by = "holdout" /\ job[p].ideas = {i}
                       /\ job[p].status \in HOLDOUT_STATUSES
  /\ pc[p] = "save" => Loadable(file) /\ Allowed(job[p].by, Load(file), mem[p])
  /\ pc[p] = "write" =>
       file = EmptyFile /\ Loadable(base) /\ Allowed(job[p].by, Load(base), mem[p])

Inv == TypeOK /\ Alone /\ \A p \in Procs : Holds(p)

-----------------------------------------------------------------------------
LEMMA LoadType == ASSUME NEW f \in Files, Loadable(f) PROVE Load(f) \in Ledgers
BY DEF Files, Loadable, Load, Ledgers, NoEntries

LEMMA HoldoutStatus ==
  ASSUME NEW m PROVE ClassifyHoldout(m) \in HOLDOUT_STATUSES /\ HOLDOUT_STATUSES \subseteq STATUSES
BY DEF ClassifyHoldout, STATUSES, HOLDOUT_STATUSES

LEMMA InitInv == Init => Inv
<1> SUFFICES ASSUME Init PROVE Inv
  OBVIOUS
<1>1. TypeOK
  BY DEF Init, TypeOK, Files, NoJob, NoEntries, Ledgers
<1>2. Alone /\ \A p \in Procs : Holds(p)
  BY DEF Init, Alone, Holds, NoJob
<1> QED  BY <1>1, <1>2 DEF Inv

\* An ended command keeps Holds of the others, who are idle.
LEMMA EndKeeps ==
  ASSUME Inv, NEW p \in Procs, pc[p] # "idle", End(p),
         file' \in Files, base' \in Files, running' = running
  PROVE  Inv'
<1>1. TypeOK'
  BY DEF Inv, TypeOK, End, GoTo, NoJob, NoEntries, Ledgers
<1>2. \A q \in Procs : pc'[q] = "idle" /\ job'[q].by = "none"
  <2> TAKE q \in Procs
  <2>1. CASE q = p
    BY <2>1 DEF Inv, TypeOK, End, GoTo, NoJob
  <2>2. CASE q # p
    BY <2>2 DEF Inv, TypeOK, End, GoTo, Alone, Holds
  <2> QED  BY <2>1, <2>2
<1>3. Alone' /\ \A q \in Procs : Holds(q)'
  BY <1>2 DEF Alone, Holds
<1> QED  BY <1>1, <1>3 DEF Inv

\* A command that moves on is the only one.
LEMMA StepKeeps ==
  ASSUME Inv, TypeOK', NEW p \in Procs, NEW label,
         \A q \in Procs \ {p} : pc[q] = "idle",
         GoTo(p, label), Holds(p)', \A q \in Procs \ {p} : job'[q] = job[q]
  PROVE  Inv'
<1>1. \A q \in Procs \ {p} : pc'[q] = "idle" /\ job'[q].by = "none"
  BY DEF Inv, TypeOK, GoTo, Holds
<1>2. Alone'
  BY <1>1 DEF Alone
<1>3. ASSUME NEW q \in Procs PROVE Holds(q)'
  BY <1>1 DEF Holds
<1> QED  BY <1>2, <1>3 DEF Inv

LEMMA OthersIdle ==
  ASSUME Inv, NEW p \in Procs, pc[p] # "idle"
  PROVE  \A q \in Procs \ {p} : pc[q] = "idle"
BY DEF Inv, Alone

-----------------------------------------------------------------------------
LEMMA NextInv ==
  ASSUME OneAtATime, Inv, [Next]_vars
  PROVE  Inv'
<1> USE DEF Inv
<1>1. ASSUME NEW p \in Procs, NEW names \in SUBSET Ideas, NEW skip \in BOOLEAN,
             ReportStarts(p, names, skip)
      PROVE  Inv'
  <2>1. \A q \in Procs \ {p} : pc[q] = "idle"
    BY <1>1 DEF ReportStarts, MayStart
  <2>2. Load(file) \in Ledgers
    BY <1>1, LoadType DEF ReportStarts, TypeOK
  <2>3. TypeOK'
    BY <1>1, <2>2 DEF ReportStarts, TypeOK, GoTo
  <2>4. Holds(p)'
    BY <1>1, <2>2 DEF ReportStarts, Holds, TypeOK, GoTo, Loadable, Load, NoEntries
  <2> QED  BY <1>1, <2>1, <2>3, <2>4, StepKeeps DEF ReportStarts, TypeOK
<1>2. ASSUME NEW p \in Procs, ReportEnds(p)
      PROVE  Inv'
  BY <1>2, EndKeeps DEF ReportEnds, TypeOK
<1>3. ASSUME NEW p \in Procs, NEW evaluated \in SUBSET Ideas,
             NEW r \in [Ideas -> ScreenRows], ReportRecords(p, evaluated, r)
      PROVE  Inv'
  <2>1. \A q \in Procs \ {p} : pc[q] = "idle"
    BY <1>3, OthersIdle DEF ReportRecords
  <2>2. Loadable(file) /\ mem[p] = Load(file) /\ Load(file) \in Ledgers
    BY <1>3, LoadType DEF ReportRecords, Holds, TypeOK
  <2> DEFINE Verdict(i) == IF Passed(r[i]) THEN "candidate" ELSE "screen-fail"
             new == [i \in Ideas |-> IF i \in evaluated
                                       THEN SetStatus(mem[p][i], Verdict(i), FALSE)
                                       ELSE mem[p][i]]
  <2>3. \A i \in Ideas : \/ new[i] = mem[p][i]
                         \/ /\ mem[p][i] \notin FROZEN_STATUSES
                            /\ new[i] \in {"candidate", "screen-fail"}
    BY DEF SetStatus
  <2>4. new \in Ledgers
    BY <2>2, <2>3 DEF Ledgers, STATUSES
  <2>5. mem' = [mem EXCEPT ![p] = new] /\ UNCHANGED <<file, job, base, running>>
    BY <1>3 DEF ReportRecords
  <2>6. TypeOK'
    BY <1>3, <2>4, <2>5 DEF ReportRecords, TypeOK, GoTo
  <2>7. mem'[p] = new /\ pc'[p] = "save"
    BY <1>3, <2>5 DEF ReportRecords, TypeOK, GoTo
  <2>8. job[p].by = "screen" /\ Allowed(job[p].by, Load(file), new)
    BY <1>3, <2>2, <2>3, <2>4 DEF ReportRecords, Holds, Allowed, ScreenStep
  <2>9. Holds(p)'
    <3> HIDE DEF new
    <3> QED  BY <2>2, <2>5, <2>7, <2>8 DEF Holds, Loadable, Load
  <2> QED  BY <1>3, <2>1, <2>6, <2>9, StepKeeps DEF ReportRecords
<1>4. ASSUME NEW p \in Procs, NEW i \in Ideas, NEW measure, HoldoutTests(p, i, measure)
      PROVE  Inv'
  <2>1. \A q \in Procs \ {p} : pc[q] = "idle"
    BY <1>4 DEF HoldoutTests, MayStart
  <2>2. ClassifyHoldout(measure) \in HOLDOUT_STATUSES \cap STATUSES
    BY HoldoutStatus
  <2>3. TypeOK'
    BY <1>4, <2>2 DEF HoldoutTests, TypeOK, GoTo
  <2>4. /\ pc'[p] = "holdout"
        /\ job'[p] = [by |-> "holdout", ideas |-> {i}, status |-> ClassifyHoldout(measure)]
    BY <1>4 DEF HoldoutTests, TypeOK, GoTo
  <2>5. Holds(p)'
    BY <2>2, <2>4 DEF Holds
  <2> QED  BY <1>4, <2>1, <2>3, <2>5, StepKeeps DEF HoldoutTests, TypeOK
<1>5. ASSUME NEW p \in Procs, HoldoutRecords(p)
      PROVE  Inv'
  <2>1. \A q \in Procs \ {p} : pc[q] = "idle"
    BY <1>5, OthersIdle DEF HoldoutRecords
  <2>2. Loadable(file) /\ Load(file) \in Ledgers
    BY <1>5, LoadType DEF HoldoutRecords, TypeOK
  <2>3. PICK i \in Ideas : /\ job[p].by = "holdout" /\ job[p].ideas = {i}
                         /\ job[p].status \in HOLDOUT_STATUSES \cap STATUSES
    BY <1>5, HoldoutStatus DEF HoldoutRecords, Holds
  <2> DEFINE new == [Load(file) EXCEPT ![i] = job[p].status]
  <2>4. mem' = [mem EXCEPT ![p] = new] /\ UNCHANGED <<file, job, base, running>>
    <3>1. new = [j \in Ideas |-> IF j \in job[p].ideas
                                   THEN SetStatus(Load(file)[j], job[p].status, TRUE)
                                   ELSE Load(file)[j]]
      BY <2>2, <2>3 DEF SetStatus, Ledgers
    <3> QED  BY <1>5, <3>1 DEF HoldoutRecords
  <2>5. new \in Ledgers
    BY <2>2, <2>3 DEF Ledgers
  <2>6. TypeOK'
    BY <1>5, <2>4, <2>5 DEF HoldoutRecords, TypeOK, GoTo
  <2>7. mem'[p] = new /\ pc'[p] = "save"
    BY <1>5, <2>4 DEF HoldoutRecords, TypeOK, GoTo
  <2>8. job[p].by = "holdout" /\ Allowed(job[p].by, Load(file), new)
    BY <2>3 DEF Allowed, DecideStep
  <2>9. Holds(p)'
    <3> HIDE DEF new
    <3> QED  BY <2>2, <2>4, <2>7, <2>8 DEF Holds, Loadable, Load
  <2> QED  BY <1>5, <2>1, <2>6, <2>9, StepKeeps DEF HoldoutRecords
<1>6. ASSUME NEW p \in Procs, HoldoutEnds(p)
      PROVE  Inv'
  BY <1>6, EndKeeps DEF HoldoutEnds, TypeOK
<1>7. ASSUME NEW p \in Procs, NEW i \in Ideas, NEW status \in STATUSES,
             OperatorSets(p, i, status)
      PROVE  Inv'
  <2>1. \A q \in Procs \ {p} : pc[q] = "idle"
    BY <1>7 DEF OperatorSets, MayStart
  <2>2. Loadable(file) /\ Load(file) \in Ledgers
    BY <1>7, LoadType DEF OperatorSets, TypeOK
  <2> DEFINE new == [Load(file) EXCEPT ![i] = status]
  <2>3. mem' = [mem EXCEPT ![p] = new] /\ UNCHANGED <<file, base, running>>
    BY <1>7 DEF OperatorSets, SetStatus
  <2>4. new \in Ledgers
    BY <2>2 DEF Ledgers
  <2>5. TypeOK'
    BY <1>7, <2>3, <2>4 DEF OperatorSets, TypeOK, GoTo
  <2>6. mem'[p] = new /\ pc'[p] = "save" /\ job'[p].by = "operator"
    BY <1>7, <2>3 DEF OperatorSets, TypeOK, GoTo
  <2>7. Allowed("operator", Load(file), new)
    BY DEF Allowed, DecideStep
  <2>8. Holds(p)'
    <3> HIDE DEF new
    <3> QED  BY <2>2, <2>3, <2>6, <2>7 DEF Holds, Loadable, Load
  <2> QED  BY <1>7, <2>1, <2>5, <2>8, StepKeeps DEF OperatorSets, TypeOK
<1>8. ASSUME NEW p \in Procs, Truncate(p)
      PROVE  Inv'
  <2>1. \A q \in Procs \ {p} : pc[q] = "idle"
    BY <1>8, OthersIdle DEF Truncate
  <2>2. base' = file
    BY <1>8, <2>1 DEF Truncate
  <2>3. TypeOK'
    BY <1>8, <2>2 DEF Truncate, TypeOK, GoTo, Files
  <2>4. Holds(p)'
    BY <1>8, <2>2 DEF Truncate, Holds, TypeOK, GoTo, Loadable, Load
  <2> QED  BY <1>8, <2>1, <2>3, <2>4, StepKeeps DEF Truncate
<1>9. ASSUME NEW p \in Procs, Write(p)
      PROVE  Inv'
  <2>1. file' \in Files
    BY <1>9 DEF Write, TypeOK, Files
  <2> QED  BY <1>9, <2>1, EndKeeps DEF Write, TypeOK
<1>10. ASSUME NEW p \in Procs, Crash(p)
       PROVE  Inv'
  <2>1. file' \in Files
    BY <1>10 DEF Crash, TypeOK, Files
  <2> QED  BY <1>10, <2>1, EndKeeps DEF Crash, TypeOK
<1>11. ASSUME NEW i \in Ideas, Launch(i) \/ ForceLaunch(i) \/ EngineExits(i)
       PROVE  Inv'
  <2>1. TypeOK' /\ UNCHANGED <<file, pc, job, mem, base>>
    BY <1>11 DEF Launch, ForceLaunch, EngineExits, TypeOK
  <2> QED  BY <2>1 DEF Alone, Holds, Loadable, Load
<1>12. CASE UNCHANGED vars
  BY <1>12 DEF vars, TypeOK, Alone, Holds, Loadable, Load
<1> QED
  BY <1>1, <1>2, <1>3, <1>4, <1>5, <1>6, <1>7, <1>8, <1>9, <1>10, <1>11, <1>12 DEF Next

(***************************************************************************)
(* What the file, the terminals and the engines hold is always well formed *)
(* while recording commands do not overlap.                                *)
(***************************************************************************)
THEOREM RegistryTypeCorrect ==
  ASSUME OneAtATime
  PROVE  Spec => []TypeOK
<1>1. Inv /\ [Next]_vars => Inv'
  BY NextInv
<1>2. Inv => TypeOK
  BY DEF Inv
<1> QED  BY <1>1, <1>2, InitInv, PTL DEF Spec

-----------------------------------------------------------------------------
\* the refinement

\* Outside of a write the ledger is the file's.
LEMMA RecordedIsFile ==
  ASSUME \A q \in Procs : pc[q] # "write"
  PROVE  Recorded = IF Loadable(file) THEN Load(file) ELSE Garbled
BY DEF Recorded

LEMMA ReadableIsNotGarbled ==
  ASSUME NEW f \in Files, Loadable(f)
  PROVE  Load(f) # Garbled /\ Load(f) \in Ledgers
BY LoadType, FileAssumption

\* What the abstract ledger sees of the commands.
Task == [p \in Procs |-> job[p].by]
Saving == {p \in Procs : pc[p] = "write"}

LEMMA InitRefines == Init => Ledger!Init
<1> SUFFICES ASSUME Init PROVE Ledger!Init
  OBVIOUS
<1>1. Recorded = NoEntries
  BY RegistryAssumption, FileAssumption DEF Init, Recorded, Loadable, Load
<1>2. Task = [p \in Procs |-> "none"] /\ Saving = {}
  BY DEF Init, NoJob, Task, Saving
<1> QED  BY <1>1, <1>2 DEF Init, Ledger!Init, Ledger!NoEntries, NoEntries, Task, Saving

LEMMA TaskStep ==
  ASSUME TypeOK, NEW p \in Procs, NEW j, job' = [job EXCEPT ![p] = j]
  PROVE  Task' = [Task EXCEPT ![p] = j.by]
BY DEF TypeOK, Task

LEMMA SavingStep ==
  ASSUME TypeOK, NEW p \in Procs, NEW label, GoTo(p, label)
  PROVE  Saving' = IF label = "write" THEN Saving \cup {p} ELSE Saving \ {p}
BY DEF TypeOK, GoTo, Saving

LEMMA EndStep ==
  ASSUME TypeOK, NEW p \in Procs, End(p)
  PROVE  Task' = [Task EXCEPT ![p] = "none"] /\ Saving' = Saving \ {p}
<1>1. NoJob.by = "none"
  BY DEF NoJob
<1>2. Task' = [Task EXCEPT ![p] = NoJob.by]
  BY TaskStep DEF End
<1>3. Saving' = Saving \ {p}
  BY SavingStep DEF End
<1> QED  BY <1>1, <1>2, <1>3

\* While nobody writes, before and after, a step that keeps the file.
LEMMA KeepsRecorded ==
  ASSUME \A q \in Procs : pc[q] # "write", \A q \in Procs : pc'[q] # "write",
         file' = file
  PROVE  Recorded' = Recorded
BY DEF Recorded, Loadable, Load

LEMMA NobodyWrites ==
  ASSUME Inv, NEW p \in Procs, \A q \in Procs \ {p} : pc[q] = "idle", pc[p] # "write",
         pc'[p] # "write", \A q \in Procs \ {p} : pc'[q] = pc[q], file' = file
  PROVE  Recorded' = Recorded /\ Saving' = Saving
<1>1. \A q \in Procs : pc[q] # "write" /\ pc'[q] # "write"
  OBVIOUS
<1> QED  BY <1>1, KeepsRecorded DEF Saving

\* The three kinds of step that leave the ledger alone.
LEMMA StartRefines ==
  ASSUME OneAtATime, Inv, NEW p \in Procs, MayStart(p),
         NEW kind \in {"screen", "holdout", "operator"}, Task' = [Task EXCEPT ![p] = kind],
         pc'[p] # "write", \A q \in Procs \ {p} : pc'[q] = pc[q],
         UNCHANGED <<file, running>>
  PROVE  Ledger!Next
<1>1. Task[p] = "none"
  BY DEF Inv, Holds, MayStart, Task
<1>2. Recorded' = Recorded /\ Saving' = Saving
  BY NobodyWrites DEF MayStart, GoTo, Inv, TypeOK
<1>3. Ledger!Start(p, kind)
  BY <1>1, <1>2 DEF Ledger!Start, Task, Saving
<1> QED  BY <1>3 DEF Ledger!Next

LEMMA GiveUpRefines ==
  ASSUME Inv, NEW p \in Procs, pc[p] # "idle", pc[p] # "write", End(p),
         UNCHANGED <<file, running>>
  PROVE  Ledger!Next
<1>1. Task' = [Task EXCEPT ![p] = "none"]
  BY EndStep DEF Inv
<1>2. Recorded' = Recorded /\ Saving' = Saving
  BY OthersIdle, NobodyWrites DEF End, GoTo, Inv, TypeOK
<1>3. p \notin Saving
  BY DEF Saving
<1>4. Ledger!GiveUp(p)
  BY <1>1, <1>2, <1>3 DEF Ledger!GiveUp, Task, Saving
<1> QED  BY <1>4 DEF Ledger!Next

LEMMA RecordingStutters ==
  ASSUME Inv, NEW p \in Procs, pc[p] # "idle", pc[p] # "write", GoTo(p, "save"),
         UNCHANGED <<file, job, running>>
  PROVE  UNCHANGED Ledger!vars
<1>1. Recorded' = Recorded /\ Saving' = Saving
  BY OthersIdle, NobodyWrites DEF GoTo, Inv, TypeOK
<1>2. Task' = Task
  BY DEF Task
<1> QED  BY <1>1, <1>2 DEF Ledger!vars, Task, Saving

LEMMA NextRefines ==
  ASSUME OneAtATime, Inv, Inv', [Next]_vars
  PROVE  [Ledger!Next]_(Ledger!vars)
<1> USE DEF Inv
<1>1. ASSUME NEW p \in Procs, NEW names \in SUBSET Ideas, NEW skip \in BOOLEAN,
             ReportStarts(p, names, skip)
      PROVE  Ledger!Next
  <2>1. PICK kept : job' = [job EXCEPT ![p] = [by |-> "screen", ideas |-> kept, status |-> None]]
    BY <1>1 DEF ReportStarts
  <2> DEFINE j == [by |-> "screen", ideas |-> kept, status |-> None]
  <2>2. j.by = "screen" /\ job' = [job EXCEPT ![p] = j]
    BY <2>1
  <2> HIDE DEF j
  <2>3. /\ MayStart(p) /\ UNCHANGED <<file, running>>
        /\ pc'[p] # "write" /\ \A q \in Procs \ {p} : pc'[q] = pc[q]
    BY <1>1 DEF ReportStarts, GoTo, TypeOK
  <2>4. Task' = [Task EXCEPT ![p] = "screen"]
    BY <2>2, TaskStep
  <2> QED  BY <2>3, <2>4, StartRefines
<1>2. ASSUME NEW p \in Procs, ReportEnds(p) \/ HoldoutEnds(p)
      PROVE  Ledger!Next
  BY <1>2, GiveUpRefines DEF ReportEnds, HoldoutEnds
<1>3. ASSUME NEW p \in Procs, NEW evaluated \in SUBSET Ideas,
             NEW r \in [Ideas -> ScreenRows], ReportRecords(p, evaluated, r)
      PROVE  UNCHANGED Ledger!vars
  BY <1>3, RecordingStutters DEF ReportRecords
<1>4. ASSUME NEW p \in Procs, NEW i \in Ideas, NEW measure, HoldoutTests(p, i, measure)
      PROVE  Ledger!Next
  <2> DEFINE j == [by |-> "holdout", ideas |-> {i}, status |-> ClassifyHoldout(measure)]
  <2>1. j.by = "holdout" /\ job' = [job EXCEPT ![p] = j]
    BY <1>4 DEF HoldoutTests
  <2> HIDE DEF j
  <2>3. /\ MayStart(p) /\ UNCHANGED <<file, running>>
        /\ pc'[p] # "write" /\ \A q \in Procs \ {p} : pc'[q] = pc[q]
    BY <1>4 DEF HoldoutTests, GoTo, TypeOK
  <2>4. Task' = [Task EXCEPT ![p] = "holdout"]
    BY <2>1, TaskStep
  <2> QED  BY <2>3, <2>4, StartRefines
<1>5. ASSUME NEW p \in Procs, HoldoutRecords(p)
      PROVE  UNCHANGED Ledger!vars
  BY <1>5, RecordingStutters DEF HoldoutRecords
<1>6. ASSUME NEW p \in Procs, NEW i \in Ideas, NEW status \in STATUSES,
             OperatorSets(p, i, status)
      PROVE  Ledger!Next
  <2> DEFINE j == [by |-> "operator", ideas |-> {i}, status |-> status]
  <2>1. j.by = "operator" /\ job' = [job EXCEPT ![p] = j]
    BY <1>6 DEF OperatorSets
  <2> HIDE DEF j
  <2>3. /\ MayStart(p) /\ UNCHANGED <<file, running>>
        /\ pc'[p] # "write" /\ \A q \in Procs \ {p} : pc'[q] = pc[q]
    BY <1>6 DEF OperatorSets, GoTo, TypeOK
  <2>4. Task' = [Task EXCEPT ![p] = "operator"]
    BY <2>1, TaskStep
  <2> QED  BY <2>3, <2>4, StartRefines
<1>7. ASSUME NEW p \in Procs, Truncate(p)
      PROVE  Ledger!Next
  <2>1. \A q \in Procs \ {p} : pc[q] = "idle"
    BY <1>7, OthersIdle DEF Truncate
  <2>2. base' = file /\ Loadable(file) /\ pc'[p] = "write" /\ pc[p] = "save"
    BY <1>7, <2>1 DEF Truncate, GoTo, Holds, TypeOK
  <2>3. Recorded = Load(file)
    BY <2>1, <2>2, RecordedIsFile
  <2>4. Recorded' = Load(file)
    BY <2>2 DEF Recorded, Load
  <2>5. Saving' = Saving \cup {p} /\ p \notin Saving
    BY <1>7, <2>2, SavingStep DEF Truncate, Saving
  <2>6. Task' = Task /\ Task[p] # "none"
    BY <1>7, <2>2 DEF Truncate, Task, Holds
  <2>7. Ledger!BeginSave(p)
    BY <1>7, <2>3, <2>4, <2>5, <2>6 DEF Truncate, Ledger!BeginSave, Task, Saving
  <2> QED  BY <2>7 DEF Ledger!Next
<1>8. ASSUME NEW p \in Procs, Write(p)
       PROVE  Ledger!Next
  <2>1. /\ pc[p] = "write" /\ file = EmptyFile /\ Loadable(base)
        /\ Allowed(job[p].by, Load(base), mem[p]) /\ running' = running
    BY <1>8 DEF Write, Holds
  <2>2. \A q \in Procs : pc'[q] # "write"
    BY <1>8, OthersIdle DEF Write, End, GoTo, TypeOK
  <2>3. file' = mem[p] /\ mem[p] \in Ledgers
    BY <1>8, <2>1 DEF Write, TypeOK
  <2>4. Recorded = Load(base) /\ Load(base) \in Ledgers /\ Load(base) # Garbled
    BY <2>1, ReadableIsNotGarbled DEF Recorded, TypeOK
  <2>5. Recorded' = mem[p]
    <3>1. mem[p] # NoFile /\ mem[p] # EmptyFile /\ mem[p] # Garbled
      BY <2>3, FileAssumption
    <3> QED  BY <2>2, <2>3, <3>1 DEF Recorded, Loadable, Load
  <2>6. Task' = [Task EXCEPT ![p] = "none"] /\ Saving' = Saving \ {p} /\ p \in Saving
    BY <1>8, <2>1, EndStep DEF Write, Saving
  <2>7. Task[p] = job[p].by
    BY DEF Task
  <2>8. Ledger!EndSave(p)
    BY <2>1, <2>6 DEF Ledger!EndSave, Task, Saving
  <2>9. CASE job[p].by = "screen" /\ ScreenStep(Load(base), mem[p])
    <3>1. Ledger!RecordScreen(p)
      BY <2>3, <2>4, <2>5, <2>7, <2>8, <2>9
         DEF Ledger!RecordScreen, Ledger!Statuses, Ledger!Frozen, Ledger!ScreenVerdicts,
             ScreenStep, Ledgers, STATUSES, FROZEN_STATUSES, Task
    <3> QED  BY <3>1 DEF Ledger!Next
  <2>10. CASE job[p].by = "holdout" /\ DecideStep(HOLDOUT_STATUSES, Load(base), mem[p])
    <3>1. PICK i \in Ideas, status \in HOLDOUT_STATUSES :
            mem[p] = [Load(base) EXCEPT ![i] = status]
      BY <2>10 DEF DecideStep
    <3>2. status \in Ledger!HoldoutVerdicts /\ status \in Ledger!Statuses
      BY DEF Ledger!HoldoutVerdicts, Ledger!Statuses, HOLDOUT_STATUSES
    <3>3. Ledger!Record(p, i, status)
      BY <2>4, <2>5, <2>7, <2>8, <2>10, <3>1, <3>2 DEF Ledger!Record, Task
    <3> QED  BY <3>2, <3>3 DEF Ledger!Next
  <2>11. CASE job[p].by = "operator" /\ DecideStep(STATUSES, Load(base), mem[p])
    <3>1. PICK i \in Ideas, status \in STATUSES : mem[p] = [Load(base) EXCEPT ![i] = status]
      BY <2>11 DEF DecideStep
    <3>2. status \in Ledger!Statuses
      BY DEF Ledger!Statuses, STATUSES
    <3>3. Ledger!Record(p, i, status)
      BY <2>4, <2>5, <2>7, <2>8, <2>11, <3>1, <3>2 DEF Ledger!Record, Task
    <3> QED  BY <3>2, <3>3 DEF Ledger!Next
  <2> QED  BY <2>1, <2>9, <2>10, <2>11 DEF Allowed
<1>9. ASSUME NEW p \in Procs, Crash(p)
       PROVE  Ledger!Next
  <2>1. CASE pc[p] = "write"
    <3>1. file' \in {EmptyFile, Garbled} /\ running' = running
      BY <1>9, <2>1 DEF Crash, Holds
    <3>2. \A q \in Procs : pc'[q] # "write"
      BY <1>9, OthersIdle DEF Crash, End, GoTo, TypeOK
    <3>3. Recorded' \in {NoEntries, Garbled}
      BY <3>1, <3>2, RegistryAssumption DEF Recorded, Loadable, Load
    <3>4. Task' = [Task EXCEPT ![p] = "none"] /\ Saving' = Saving \ {p} /\ p \in Saving
      BY <1>9, <2>1, EndStep DEF Crash, Saving
    <3>5. Ledger!EndSave(p)
      BY <3>1, <3>4 DEF Ledger!EndSave, Task, Saving
    <3>6. Ledger!Lose(p)
      BY <3>3, <3>5 DEF Ledger!Lose, Ledger!NoEntries, NoEntries
    <3> QED  BY <3>6 DEF Ledger!Next
  <2>2. CASE pc[p] # "write"
    BY <1>9, <2>2, GiveUpRefines DEF Crash
  <2> QED  BY <2>1, <2>2
<1>10. ASSUME UNCHANGED <<file, pc, job, mem, base>>
       PROVE  Recorded' = Recorded /\ Task' = Task /\ Saving' = Saving
  BY <1>10 DEF Recorded, Loadable, Load, Task, Saving
<1>11. ASSUME NEW i \in Ideas, Launch(i)
       PROVE  Ledger!Next
  <2>1. Recorded = IF Loadable(file) THEN Load(file) ELSE Garbled
    BY <1>11, RecordedIsFile DEF Launch
  <2>2. Recorded # Garbled => Recorded[i] \in Ledger!Launchable \cup {None}
    BY <1>11, <2>1 DEF Launch, GateOpen, Ledger!Launchable, ALLOWED_LAUNCH_STATUSES
  <2>3. Ledger!Launch(i)
    BY <1>10, <1>11, <2>2 DEF Launch, Ledger!Launch, Task, Saving
  <2> QED  BY <2>3 DEF Ledger!Next
<1>12. ASSUME NEW i \in Ideas, ForceLaunch(i)
       PROVE  Ledger!Next
  <2>1. Ledger!ForceLaunch(i)
    BY <1>10, <1>12 DEF ForceLaunch, Ledger!ForceLaunch, Task, Saving
  <2> QED  BY <2>1 DEF Ledger!Next
<1>13. ASSUME NEW i \in Ideas, EngineExits(i)
       PROVE  Ledger!Next
  <2>1. Ledger!Exit(i)
    BY <1>10, <1>13 DEF EngineExits, Ledger!Exit, Task, Saving
  <2> QED  BY <2>1 DEF Ledger!Next
<1>14. CASE UNCHANGED vars
  BY <1>10, <1>14 DEF vars, Ledger!vars, Task, Saving
<1> QED
  BY <1>1, <1>2, <1>3, <1>4, <1>5, <1>6, <1>7, <1>8, <1>9, <1>11, <1>12, <1>13, <1>14
     DEF Next

(***************************************************************************)
(* The registry implements the atomic ledger while recording commands do   *)
(* not overlap: a status changes only by the one write of a command and is *)
(* lost only where a save is cut short, a screen reopens no frozen idea,   *)
(* and no engine passes the gate on one that a readable ledger rejects.    *)
(***************************************************************************)
THEOREM RegistryIsLedger ==
  ASSUME OneAtATime
  PROVE  Spec => LedgerRefined
<1>1. Inv /\ [Next]_vars => Inv'
  BY NextInv
<1>2. Inv /\ Inv' /\ [Next]_vars => [Ledger!Next]_(Ledger!vars)
  BY NextRefines
<1> QED
  BY <1>1, <1>2, InitInv, InitRefines, PTL DEF Spec, LedgerRefined, Ledger!Spec
-----------------------------------------------------------------------------
(* The studies. *)

StudyInv ==
  /\ data = None => folds = <<>>
  /\ folds \in Seq({Fold(data, k) : k \in Nat})
  /\ \A i \in DOMAIN folds : folds[i] = Fold(data, i - 1)
  /\ held # None => held.params = HoldoutChoice(data)

-----------------------------------------------------------------------------
\* Blanking a part of the data keeps the timeline.
LEMMA SameTimes ==
  ASSUME NEW d, NEW t
  PROVE  Times(Blanked(d, t)) = Times(d)
<1>1. /\ DOMAIN Blanked(d, t) = DOMAIN d
      /\ \A e \in DOMAIN d : DOMAIN Blanked(d, t)[e] = DOMAIN d[e]
  BY DEF Blanked
<1>2. {DOMAIN Blanked(d, t)[e] : e \in DOMAIN Blanked(d, t)} = {DOMAIN d[e] : e \in DOMAIN d}
  BY <1>1
<1> QED  BY <1>2 DEF Times

LEMMA SameTimeAt ==
  ASSUME NEW d, NEW t, NEW i
  PROVE  TimeAt(Blanked(d, t), i) = TimeAt(d, i)
BY SameTimes DEF TimeAt

\* A slice that ends before the blanked part is the slice of the data.
LEMMA SameSlice ==
  ASSUME NEW d, NEW start, NEW end
  PROVE  SliceUntil(Blanked(d, end), start, end) = SliceUntil(d, start, end)
<1> DEFINE B == Blanked(d, end)
           Within(x, e) == {u \in DOMAIN x[e] : start <= u /\ u < end}
           Epics(x) == {e \in DOMAIN x : Within(x, e) # {}}
<1>1. /\ DOMAIN B = DOMAIN d
      /\ \A e \in DOMAIN d : DOMAIN B[e] = DOMAIN d[e]
  BY DEF Blanked
<1>2. \A e \in DOMAIN d : Within(B, e) = Within(d, e)
  BY <1>1
<1>3. Epics(B) = Epics(d)
  BY <1>1, <1>2
<1>4. ASSUME NEW e \in Epics(d)
      PROVE  Restrict(B[e], Within(B, e)) = Restrict(d[e], Within(d, e))
  <2>1. \A u \in Within(d, e) : B[e][u] = d[e][u]
    BY <1>4 DEF Blanked
  <2> QED  BY <2>1, <1>2, <1>4 DEF Restrict
<1>5. \A x : SliceUntil(x, start, end) = [e \in Epics(x) |-> Restrict(x[e], Within(x, e))]
  BY DEF SliceUntil
<1> QED
  <2> HIDE DEF B, Within, Epics
  <2>1. [e \in Epics(B) |-> Restrict(B[e], Within(B, e))]
          = [e \in Epics(d) |-> Restrict(d[e], Within(d, e))]
    BY <1>3, <1>4
  <2> QED  BY <2>1, <1>5 DEF B

LEMMA FoldBlind ==
  ASSUME NEW d, NEW k
  PROVE  Choice(d, k) = Choice(Blanked(d, OosStart(d, k)), k)
<1> DEFINE t == OosStart(d, k)
<1>1. /\ IsStart(Blanked(d, t), k) = IsStart(d, k)
      /\ OosStart(Blanked(d, t), k) = t
  BY SameTimeAt DEF IsStart, OosStart
<1>2. SliceUntil(Blanked(d, t), IsStart(Blanked(d, t), k), OosStart(Blanked(d, t), k))
        = SliceUntil(d, IsStart(d, k), t)
  BY <1>1, SameSlice
<1> QED  BY <1>2 DEF Choice

LEMMA HoldoutIsBlind ==
  ASSUME NEW d
  PROVE  HoldoutChoice(d) = HoldoutChoice(Blanked(d, HoldoutStart(d)))
<1> DEFINE t == HoldoutStart(d)
<1>1. /\ TimeAt(Blanked(d, t), 0) = TimeAt(d, 0)
      /\ HoldoutStart(Blanked(d, t)) = t
  BY SameTimes, SameTimeAt DEF HoldoutStart, HoldoutSplit, Bars
<1>2. SliceUntil(Blanked(d, t), TimeAt(Blanked(d, t), 0), HoldoutStart(Blanked(d, t)))
        = SliceUntil(d, TimeAt(d, 0), t)
  BY <1>1, SameSlice
<1> QED  BY <1>2 DEF HoldoutChoice

-----------------------------------------------------------------------------

LEMMA StudyInitInv == StudyInit => StudyInv
BY DEF StudyInit, StudyInv

LEMMA StudyNextInv == StudyInv /\ [StudyNext]_studyVars => StudyInv'
<1> SUFFICES ASSUME StudyInv, [StudyNext]_studyVars
             PROVE  StudyInv'
  OBVIOUS
<1>1. CASE RunFold
  <2> DEFINE Folds == {Fold(data, k) : k \in Nat}
  <2>1. /\ data # None /\ UNCHANGED <<data, held>>
        /\ folds' = Append(folds, Fold(data, Len(folds)))
    BY <1>1 DEF RunFold
  <2>2. folds \in Seq(Folds) /\ Len(folds) \in Nat
    BY DEF StudyInv
  <2>3. Fold(data, Len(folds)) \in Folds
    BY <2>2
  <2>4. folds' \in Seq(Folds)
    <3> HIDE DEF Folds
    <3> QED  BY <2>1, <2>2, <2>3
  <2>5. ASSUME NEW i \in DOMAIN folds'
        PROVE  folds'[i] = Fold(data, i - 1)
    <3> HIDE DEF Folds
    <3>1. i \in 1..(Len(folds) + 1)
      BY <2>1, <2>2, <2>3
    <3>2. CASE i \in DOMAIN folds
      BY <3>2, <2>1, <2>2, <2>3 DEF StudyInv
    <3>3. CASE i = Len(folds) + 1
      BY <3>3, <2>1, <2>2, <2>3
    <3> QED  BY <3>1, <3>2, <3>3, <2>2
  <2> QED  BY <2>1, <2>4, <2>5 DEF StudyInv
<1>2. CASE Summarize
  BY <1>2 DEF Summarize, StudyInv
<1>3. CASE HoldoutTest
  <2>1. held'.params = HoldoutChoice(data)
    BY <1>3 DEF HoldoutTest, Measure
  <2> QED  BY <1>3, <2>1 DEF HoldoutTest, StudyInv
<1>4. CASE StudyEnds
  BY <1>4 DEF StudyEnds, StudyInv
<1>5. CASE UNCHANGED studyVars
  BY <1>5 DEF studyVars, StudyInv
<1> QED  BY <1>1, <1>2, <1>3, <1>4, <1>5 DEF StudyNext

LEMMA InvBlind == StudyInv => NoLookAhead
<1> SUFFICES ASSUME StudyInv
             PROVE  NoLookAhead
  OBVIOUS
<1>1. ASSUME NEW i \in DOMAIN folds
      PROVE  folds[i].choice = Choice(Blanked(data, folds[i].oos_start), i - 1)
  <2>1. /\ folds[i].choice = Choice(data, i - 1)
        /\ folds[i].oos_start = OosStart(data, i - 1)
    BY DEF StudyInv, Fold
  <2> QED  BY <2>1, FoldBlind
<1>2. held # None => held.params = HoldoutChoice(Blanked(data, HoldoutStart(data)))
  BY HoldoutIsBlind DEF StudyInv
<1> QED  BY <1>1, <1>2 DEF NoLookAhead

(***************************************************************************)
(* Parameters and epics are chosen without seeing what they are tested on, *)
(* for every backtest, grid, data and window.                              *)
(***************************************************************************)
THEOREM ChoicesAreBlind == StudySpec => []NoLookAhead
<1>1. StudySpec => []StudyInv
  BY StudyInitInv, StudyNextInv, PTL DEF StudySpec
<1> QED  BY <1>1, InvBlind, PTL

-----------------------------------------------------------------------------
(* Finite sets of times, and the newest of them. *)

\* The newest n of a set of times are n, or all, and none is older than another.
LEMMA NewestFacts ==
  ASSUME NEW S, S \subseteq Int, IsFiniteSet(S), NEW n \in Nat
  PROVE  LET N == Newest(S, n)
         IN  /\ N \subseteq S /\ IsFiniteSet(N)
             /\ \A t \in N, u \in S : u > t => u \in N
             /\ Cardinality(N) \in 0..n
             /\ Cardinality(N) < n => N = S
<1> DEFINE above(t) == {u \in S : u > t}
           N == {t \in S : Cardinality(above(t)) < n}
<1>0. N = Newest(S, n)
  BY DEF Newest
<1>1. \A t \in S : above(t) \subseteq S
  OBVIOUS
<1>2. \A t \in S : IsFiniteSet(above(t)) /\ Cardinality(above(t)) \in Nat
  <2> HIDE DEF above
  <2> QED  BY <1>1, FS_Subset, FS_CardinalityType
<1>3. N \subseteq S
  OBVIOUS
<1>4. IsFiniteSet(N) /\ Cardinality(N) \in Nat
  <2> HIDE DEF N
  <2> QED  BY <1>3, FS_Subset, FS_CardinalityType
<1>5. ASSUME NEW t \in N, NEW u \in S, u > t
      PROVE  u \in N
  <2>1. above(u) \subseteq above(t)
    <3>1. t \in Int /\ u \in Int /\ u > t
      BY <1>3, <1>5
    <3>2. \A x \in S : x > u => x > t
      BY <3>1
    <3> QED  BY <3>2
  <2>2. Cardinality(above(u)) <= Cardinality(above(t))
    <3> HIDE DEF above
    <3> QED  BY <1>2, <1>3, <2>1, FS_Subset
  <2>3. Cardinality(above(t)) < n /\ t \in S
    BY <1>5
  <2>4. Cardinality(above(u)) < n
    <3> HIDE DEF above, N
    <3> QED  BY <1>2, <2>2, <2>3
  <2> QED  BY <2>4
<1>6. Cardinality(N) <= n
  <2>1. CASE N = {}
    <3> HIDE DEF N
    <3>1. Cardinality(N) = 0
      BY <2>1, FS_EmptySet
    <3> QED  BY <3>1
  <2>2. CASE N # {}
    <3>1. PICK m \in N : \A x \in N : m <= x
      <4> HIDE DEF N
      <4> QED  BY <1>3, <1>4, <2>2, HasLeast
    <3>2. N \subseteq above(m) \cup {m}
      <4>1. \A x \in N : x \in S /\ x \in Int /\ m \in Int
        BY <1>3
      <4>2. \A x \in N : x \in above(m) \cup {m}
        <5> HIDE DEF N
        <5> QED  BY <3>1, <4>1
      <4> HIDE DEF N, above
      <4> QED  BY <4>2
    <3>3. m \in S /\ Cardinality(above(m)) < n /\ m \notin above(m)
      BY <1>3
    <3> HIDE DEF above, N
    <3>4. /\ IsFiniteSet(above(m) \cup {m})
          /\ Cardinality(above(m) \cup {m}) = Cardinality(above(m)) + 1
      BY <1>2, <3>3, FS_AddElement
    <3>5. Cardinality(N) <= Cardinality(above(m)) + 1
      BY <3>2, <3>4, FS_Subset
    <3> QED  BY <1>2, <1>4, <3>3, <3>5
  <2> QED  BY <2>1, <2>2
<1>7. ASSUME Cardinality(N) < n
      PROVE  N = S
  <2>1. SUFFICES ASSUME S \ N # {} PROVE FALSE
    BY <1>3
  <2>2. S \ N \subseteq Int /\ IsFiniteSet(S \ N)
    <3> HIDE DEF N
    <3> QED  BY FS_Subset
  <2>3. PICK m \in S \ N : \A x \in S \ N : x <= m
    <3> HIDE DEF N
    <3> QED  BY <2>1, <2>2, HasLargest
  <2>4. above(m) \subseteq N
    <3>1. \A x \in S : x > m => ~(x <= m)
      BY <2>3
    <3> HIDE DEF N
    <3> QED  BY <2>3, <3>1
  <2>5. Cardinality(above(m)) <= Cardinality(N) /\ m \in S
    <3> HIDE DEF above, N
    <3> QED  BY <1>4, <2>4, FS_Subset
  <2>6. Cardinality(above(m)) < n
    <3> HIDE DEF above, N
    <3> QED  BY <1>2, <1>4, <1>7, <2>5
  <2> QED  BY <2>3, <2>6
<1> QED
  <2> HIDE DEF above, N
  <2> QED  BY <1>0, <1>3, <1>4, <1>5, <1>6, <1>7

LEMMA LeastFacts ==
  ASSUME NEW S, S \subseteq Int, IsFiniteSet(S), S # {}
  PROVE  Min(S) \in S /\ \A x \in S : Min(S) <= x
<1>1. \E m \in S : \A x \in S : m <= x
  BY HasLeast
<1> QED  BY <1>1 DEF Min

LEMMA EndsOfTwo ==
  ASSUME NEW a \in Int, NEW b \in Int
  PROVE  /\ Min({a, b}) = IF a <= b THEN a ELSE b
         /\ Max({a, b}) = IF a <= b THEN b ELSE a
<1>1. \A x \in {a, b} : x = a \/ x = b
  OBVIOUS
<1>2. \A x \in {a, b} : (\A y \in {a, b} : x <= y) => x = IF a <= b THEN a ELSE b
  OBVIOUS
<1>3. \A x \in {a, b} : (\A y \in {a, b} : x >= y) => x = IF a <= b THEN b ELSE a
  OBVIOUS
<1>4. \E x \in {a, b} : \A y \in {a, b} : x <= y
  OBVIOUS
<1>5. \E x \in {a, b} : \A y \in {a, b} : x >= y
  OBVIOUS
<1>6. Min({a, b}) \in {a, b} /\ \A y \in {a, b} : Min({a, b}) <= y
  BY <1>4 DEF Min
<1>7. Max({a, b}) \in {a, b} /\ \A y \in {a, b} : Max({a, b}) >= y
  BY <1>5 DEF Max
<1> QED  BY <1>2, <1>3, <1>6, <1>7

\* D is an end of S: whatever of S is newer than a time of D is in D.
EndIn(D, S) == D \subseteq S /\ \A t \in D, u \in S : u > t => u \in D

\* The newest of what an end leaves make it a longer end.
LEMMA PageAdds ==
  ASSUME NEW S, S \subseteq Int, IsFiniteSet(S), NEW D, EndIn(D, S), NEW n \in Nat
  PROVE  LET B == Newest(S \ D, n)
         IN  /\ B \subseteq S \ D /\ IsFiniteSet(B)
             /\ EndIn(D \cup B, S)
             /\ Cardinality(B) \in 0..n /\ Cardinality(D) \in Nat
             /\ Cardinality(D \cup B) = Cardinality(D) + Cardinality(B)
             /\ Cardinality(B) < n => D \cup B = S
<1> DEFINE B == Newest(S \ D, n)
<1>1. D \subseteq S /\ IsFiniteSet(D) /\ Cardinality(D) \in Nat
  BY FS_Subset, FS_CardinalityType DEF EndIn
<1>2. S \ D \subseteq Int /\ IsFiniteSet(S \ D)
  BY FS_Subset
<1>3. /\ B \subseteq S \ D /\ IsFiniteSet(B)
      /\ \A t \in B, u \in S \ D : u > t => u \in B
      /\ Cardinality(B) \in 0..n
      /\ Cardinality(B) < n => B = S \ D
  BY <1>2, NewestFacts
<1> HIDE DEF B
<1>4. Cardinality(D \cup B) = Cardinality(D) + Cardinality(B)
  <2>1. D \cap B = {}
    BY <1>3
  <2>2. Cardinality(D \cap B) = 0
    BY <2>1, FS_EmptySet
  <2>3. Cardinality(D \cup B) = Cardinality(D) + Cardinality(B) - Cardinality(D \cap B)
    BY <1>1, <1>3, FS_Union
  <2> QED  BY <1>1, <1>3, <2>2, <2>3
<1>5. EndIn(D \cup B, S)
  BY <1>1, <1>3 DEF EndIn
<1> QED  BY <1>1, <1>3, <1>4, <1>5 DEF B

\* An end of n times is what the newest n are, and so is the whole of fewer.
LEMMA EndIsNewest ==
  ASSUME NEW S, S \subseteq Int, IsFiniteSet(S), NEW D, EndIn(D, S),
         NEW n \in Nat, Cardinality(D) <= n, D = S \/ Cardinality(D) = n
  PROVE  Newest(S, n) = D
<1>1. D \subseteq S /\ IsFiniteSet(D) /\ Cardinality(D) \in Nat
  BY FS_Subset, FS_CardinalityType DEF EndIn
<1>2. ASSUME NEW t \in D
      PROVE  Cardinality({u \in S : u > t}) < n
  <2> DEFINE A == {u \in S : u > t}
  <2>1. A \subseteq D \ {t}
    <3>1. \A u \in S : u > t => u \in D /\ u \in Int /\ t \in Int
      BY <1>1, <1>2 DEF EndIn
    <3>2. \A u \in A : u \in D \ {t}
      BY <3>1
    <3> QED  BY <3>2
  <2>2. IsFiniteSet(D \ {t}) /\ Cardinality(D \ {t}) = Cardinality(D) - 1
    BY <1>1, <1>2, FS_RemoveElement
  <2> HIDE DEF A
  <2>3. Cardinality(A) <= Cardinality(D) - 1
    BY <2>1, <2>2, FS_Subset
  <2>4. Cardinality(A) \in Nat
    BY <2>1, <2>2, FS_Subset, FS_CardinalityType
  <2>5. Cardinality(A) < n
    BY <1>1, <2>3, <2>4
  <2> QED  BY <2>5 DEF A
<1>3. ASSUME NEW t \in S \ D
      PROVE  ~(Cardinality({u \in S : u > t}) < n)
  <2> DEFINE A == {u \in S : u > t}
  <2>1. \A d \in D : d \in S /\ d \in Int /\ t \in Int /\ d # t /\ ~(t > d)
    BY <1>1, <1>3 DEF EndIn
  <2>2. \A d \in D : d > t
    BY <2>1
  <2>3. D \subseteq A /\ A \subseteq S
    BY <2>1, <2>2
  <2> HIDE DEF A
  <2>4. IsFiniteSet(A) /\ Cardinality(A) \in Nat
    BY <2>3, FS_Subset, FS_CardinalityType
  <2>5. Cardinality(D) <= Cardinality(A)
    BY <2>3, <2>4, FS_Subset
  <2>6. Cardinality(D) = n
    BY <1>3
  <2>7. ~(Cardinality(A) < n)
    BY <2>4, <2>5, <2>6
  <2> QED  BY <2>7 DEF A
<1>4. Newest(S, n) = {t \in S : Cardinality({u \in S : u > t}) < n}
  BY DEF Newest
<1>5. \A t \in S : t \in D <=> Cardinality({u \in S : u > t}) < n
  BY <1>2, <1>3
<1> QED  BY <1>1, <1>4, <1>5

-----------------------------------------------------------------------------
(* The download. *)

\* The candles of an instrument, and DownloadAssumption of one market.
IsSeries(s) == IsFiniteSet(DOMAIN s) /\ DOMAIN s \subseteq Int
IsMarket(m) ==
  /\ Len(m) \in Nat \ {0} /\ DOMAIN m = 1..Len(m)
  /\ \A e \in DOMAIN m : IsSeries(m[e])

\* The history of an instrument of a market, and its times.
Shown(m, e, time) == {t \in DOMAIN m[e] : t <= time}
HistoryOf(m, e, time) ==
  [t \in Shown(m, e, time) |-> IF t = time THEN Forming(m[e][t]) ELSE m[e][t]]

LEMMA HistoryIsOfMarket ==
  ASSUME NEW e, NEW time
  PROVE  /\ History(e, time) = HistoryOf(market, e, time)
         /\ DOMAIN History(e, time) = Shown(market, e, time)
BY DEF History, HistoryOf, Shown

LEMMA ShownFacts ==
  ASSUME NEW m, IsMarket(m), NEW e \in DOMAIN m, NEW time
  PROVE  Shown(m, e, time) \subseteq Int /\ IsFiniteSet(Shown(m, e, time))
<1>1. Shown(m, e, time) \in SUBSET DOMAIN m[e]
  BY DEF Shown
<1> QED  BY <1>1, FS_Subset DEF IsMarket, IsSeries

\* As many bars as were asked for, or as the requests can carry.
Carried(total) == Min({total, Chunk * MaxRequests})

(***************************************************************************)
(* What a fetch f of the market m holds: an end of the history at its      *)
(* first request.  While it pages, that many bars as its requests so far   *)
(* carry, and the cursor parts them from what is still to be asked for.    *)
(***************************************************************************)
IsFetch(f, m) ==
  /\ f = [pc |-> f.pc, epic |-> f.epic, total |-> f.total, got |-> f.got,
          cursor |-> f.cursor, left |-> f.left, asOf |-> f.asOf]
  /\ f.pc \in {"page", "save", "write"}
  /\ f.epic \in DOMAIN m /\ f.total \in Nat \ {0}

HoldsEnd(f, m) ==
  LET S == Shown(m, f.epic, f.asOf)
      D == DOMAIN f.got
  IN  /\ EndIn(D, S)
      /\ f.got = Restrict(HistoryOf(m, f.epic, f.asOf), D)

Begins(f) == f.cursor = NoCursor /\ f.got = NoBars /\ f.left = MaxRequests

Pages(f, m, time) ==
  LET S == Shown(m, f.epic, f.asOf)
      D == DOMAIN f.got
  IN  /\ HoldsEnd(f, m)
      /\ f.cursor \in Int /\ f.asOf \in Int /\ f.cursor < f.asOf /\ f.asOf <= time
      /\ \A t \in S : t <= f.cursor <=> t \notin D
      /\ f.left \in 1..MaxRequests
      /\ Cardinality(D) = Chunk * (MaxRequests - f.left)
      /\ Cardinality(D) < f.total

Complete(f, m) ==
  LET S == Shown(m, f.epic, f.asOf)
      D == DOMAIN f.got
  IN  /\ HoldsEnd(f, m)
      /\ Cardinality(D) <= Carried(f.total)
      /\ D = S \/ Cardinality(D) = Carried(f.total)

FetchOK(f, m, time) ==
  /\ IsFetch(f, m)
  /\ f.pc = "page" => Begins(f) \/ Pages(f, m, time)
  /\ f.pc \in {"save", "write"} => Complete(f, m)

FilesOK(f, m) ==
  /\ DOMAIN f = DOMAIN m
  /\ \A e \in DOMAIN f : f[e] = Unreadable \/ IsSeries(f[e])

DownloadInv ==
  /\ now \in Int
  /\ IsMarket(market)
  /\ FilesOK(files, market)
  /\ fetch.pc \in {"idle", "failed"} \/ FetchOK(fetch, market, now)

LEMMA Requests ==
  ASSUME NEW c \in Nat \ {0}, NEW r \in Nat \ {0}, NEW l \in 1..r
  PROVE  /\ c * (r - l) \in Nat /\ c * r \in Nat
         /\ c * (r - l) + c = c * (r - (l - 1))
         /\ c * (r - l) + c <= c * r
         /\ l = 1 => c * (r - l) + c = c * r
         /\ l = r => c * (r - l) = 0
<1>1. /\ c \in Int /\ r \in Int /\ l \in Int /\ 1 <= l /\ l <= r /\ 1 <= c
  OBVIOUS
<1>2. c * (r - l) = c * r - c * l /\ c * (r - (l - 1)) = c * r - c * l + c
  BY <1>1
<1>3. c <= c * l /\ c * l <= c * r
  BY <1>1
<1> QED  BY <1>1, <1>2, <1>3

\* What is asked for next, and what of it is there.
LEMMA NextRequest ==
  ASSUME NEW c \in Nat \ {0}, NEW total \in Nat \ {0}, NEW x \in Nat, x < total
  PROVE  LET need == Min({c, Max({1, total - x})})
         IN  /\ need \in Nat \ {0}
             /\ need = IF c <= total - x THEN c ELSE total - x
<1>1. Max({1, total - x}) = total - x
  BY EndsOfTwo
<1>2. Min({c, total - x}) = IF c <= total - x THEN c ELSE total - x
  BY EndsOfTwo
<1> QED  BY <1>1, <1>2

(***************************************************************************)
(* Where a turn of the loop begins: what is held is an end of the history  *)
(* at the first request, and the batch the newest of what is missing.      *)
(***************************************************************************)
LEMMA PageBegins ==
  ASSUME DownloadInv, fetch.pc = "page"
  PROVE  LET e == fetch.epic
             D == DOMAIN fetch.got
             asOf == IF fetch.cursor = NoCursor THEN now ELSE fetch.asOf
             S == Shown(market, e, asOf)
         IN  /\ asOf \in Int /\ asOf <= now
             /\ EndIn(D, S)
             /\ fetch.got = Restrict(HistoryOf(market, e, asOf), D)
             /\ \A need : HistoricalPrices(e, need, fetch.cursor) = Newest(S \ D, need)
             /\ \A t \in S \ D : History(e, now)[t] = HistoryOf(market, e, asOf)[t]
             /\ fetch.left \in 1..MaxRequests
             /\ Cardinality(D) = Chunk * (MaxRequests - fetch.left)
             /\ Cardinality(D) < fetch.total
<1> DEFINE e == fetch.epic
           D == DOMAIN fetch.got
<1>0. /\ IsMarket(market) /\ e \in DOMAIN market /\ now \in Int
      /\ fetch.total \in Nat \ {0}
      /\ Begins(fetch) \/ Pages(fetch, market, now)
  BY DEF DownloadInv, FetchOK, IsFetch
<1>1. CASE fetch.cursor = NoCursor
  <2> DEFINE S == Shown(market, e, now)
  <2>1. Begins(fetch)
    BY <1>0, <1>1, DownloadAssumption DEF Pages
  <2>2. D = {} /\ fetch.left = MaxRequests /\ fetch.got = NoBars
    BY <2>1 DEF Begins, NoBars
  <2>3. EndIn(D, S) /\ S \ D = S
    BY <2>2 DEF EndIn
  <2>4. fetch.got = Restrict(HistoryOf(market, e, now), D)
    BY <2>2 DEF Restrict, NoBars
  <2>5. {t \in DOMAIN History(e, now) : fetch.cursor = NoCursor \/ t <= fetch.cursor} = S
    BY <1>1, HistoryIsOfMarket
  <2>6. \A need : HistoricalPrices(e, need, fetch.cursor) = Newest(S, need)
    BY <2>5 DEF HistoricalPrices
  <2>7. \A t \in S \ D : History(e, now)[t] = HistoryOf(market, e, now)[t]
    BY HistoryIsOfMarket
  <2>8. Cardinality(D) = 0
    BY <2>2, FS_EmptySet
  <2>9. /\ MaxRequests \in 1..MaxRequests
        /\ Chunk * (MaxRequests - MaxRequests) = 0
    BY DownloadAssumption
  <2> HIDE DEF S, D, e
  <2> QED
    BY <1>0, <1>1, <2>2, <2>3, <2>4, <2>6, <2>7, <2>8, <2>9 DEF S, D, e
<1>2. CASE fetch.cursor # NoCursor
  <2> DEFINE S == Shown(market, e, fetch.asOf)
  <2>1. Pages(fetch, market, now)
    BY <1>0, <1>2 DEF Begins
  <2>2. /\ EndIn(D, S) /\ fetch.got = Restrict(HistoryOf(market, e, fetch.asOf), D)
        /\ fetch.cursor \in Int /\ fetch.asOf \in Int
        /\ fetch.cursor < fetch.asOf /\ fetch.asOf <= now
        /\ \A t \in S : t <= fetch.cursor <=> t \notin D
        /\ fetch.left \in 1..MaxRequests
        /\ Cardinality(D) = Chunk * (MaxRequests - fetch.left)
        /\ Cardinality(D) < fetch.total
    BY <2>1 DEF Pages, HoldsEnd
  <2>3. DOMAIN market[e] \subseteq Int
    BY <1>0 DEF IsMarket, IsSeries
  <2>4. \A t \in DOMAIN market[e] : t <= fetch.cursor =>
           t <= now /\ t <= fetch.asOf /\ t # now /\ t # fetch.asOf
    BY <1>0, <2>2, <2>3
  <2>5. {t \in DOMAIN History(e, now) : fetch.cursor = NoCursor \/ t <= fetch.cursor} = S \ D
    <3>1. DOMAIN History(e, now) = {t \in DOMAIN market[e] : t <= now}
      BY HistoryIsOfMarket DEF Shown
    <3>2. S = {t \in DOMAIN market[e] : t <= fetch.asOf}
      BY DEF Shown
    <3> HIDE DEF S, D, e
    <3> QED  BY <1>2, <2>2, <2>4, <3>1, <3>2
  <2>6. \A need : HistoricalPrices(e, need, fetch.cursor) = Newest(S \ D, need)
    <3> HIDE DEF S, D, e
    <3> QED  BY <2>5 DEF HistoricalPrices
  <2>7. ASSUME NEW t \in S \ D
        PROVE  History(e, now)[t] = HistoryOf(market, e, fetch.asOf)[t]
    <3>1. t \in DOMAIN market[e] /\ t <= fetch.cursor
      BY <2>2, <2>7 DEF Shown
    <3>2. t \in Shown(market, e, now) /\ t # now /\ t # fetch.asOf
      BY <2>4, <3>1 DEF Shown
    <3>3. HistoryOf(market, e, now)[t] = market[e][t]
      BY <3>2 DEF HistoryOf
    <3>4. HistoryOf(market, e, fetch.asOf)[t] = market[e][t]
      BY <2>7, <3>2 DEF HistoryOf
    <3> QED  BY <3>3, <3>4, HistoryIsOfMarket
  <2> HIDE DEF S, D, e
  <2> QED  BY <1>2, <2>2, <2>6, <2>7 DEF S, D, e
<1> QED  BY <1>1, <1>2

LEMMA PageKeeps ==
  ASSUME DownloadInv, Page
  PROVE  FetchOK(fetch', market, now)
<1> DEFINE e == fetch.epic
           total == fetch.total
           left == fetch.left
           D == DOMAIN fetch.got
           asOf == IF fetch.cursor = NoCursor THEN now ELSE fetch.asOf
           S == Shown(market, e, asOf)
           need == Min({Chunk, Max({1, total - Cardinality(D)})})
           B == HistoricalPrices(e, need, fetch.cursor)
           G == D \cup B
           got == [t \in G |-> IF t \in D THEN fetch.got[t] ELSE History(e, now)[t]]
           last == \/ Cardinality(DOMAIN got) >= total
                   \/ B \subseteq D
                   \/ Cardinality(B) < need
                   \/ left = 1
<1>1. /\ fetch.pc = "page"
      /\ fetch' = [fetch EXCEPT
                     !.got = got,
                     !.left = @ - 1,
                     !.asOf = IF fetch.cursor = NoCursor THEN now ELSE @,
                     !.cursor = IF last THEN @ ELSE CursorBefore(B),
                     !.pc = IF last THEN "save" ELSE "page"]
  BY DEF Page
<1>2. /\ IsMarket(market) /\ IsFetch(fetch, market) /\ now \in Int
      /\ total \in Nat \ {0} /\ e \in DOMAIN market
  BY <1>1 DEF DownloadInv, FetchOK, IsFetch
<1>3. /\ asOf \in Int /\ asOf <= now
      /\ EndIn(D, S)
      /\ fetch.got = Restrict(HistoryOf(market, e, asOf), D)
      /\ B = Newest(S \ D, need)
      /\ \A t \in S \ D : History(e, now)[t] = HistoryOf(market, e, asOf)[t]
      /\ left \in 1..MaxRequests
      /\ Cardinality(D) = Chunk * (MaxRequests - left)
      /\ Cardinality(D) < total
  <2> HIDE DEF need
  <2> QED  BY <1>1, PageBegins
<1>4. S \subseteq Int /\ IsFiniteSet(S)
  <2> HIDE DEF asOf
  <2> QED  BY <1>2, ShownFacts
<1>5. /\ Chunk \in Nat \ {0} /\ MaxRequests \in Nat \ {0} /\ NoCursor \notin Int
      /\ Chunk * (MaxRequests - left) \in Nat /\ Chunk * MaxRequests \in Nat
      /\ Chunk * (MaxRequests - left) + Chunk = Chunk * (MaxRequests - (left - 1))
      /\ Chunk * (MaxRequests - left) + Chunk <= Chunk * MaxRequests
      /\ left = 1 => Chunk * (MaxRequests - left) + Chunk = Chunk * MaxRequests
  <2>1. /\ Chunk \in Nat \ {0} /\ MaxRequests \in Nat \ {0} /\ NoCursor \notin Int
        /\ left \in 1..MaxRequests
    BY <1>3, DownloadAssumption
  <2> HIDE DEF left
  <2> QED  BY <2>1, Requests
<1>6. /\ need \in Nat \ {0}
      /\ need = IF Chunk <= total - Cardinality(D) THEN Chunk ELSE total - Cardinality(D)
  <2>1. /\ Chunk \in Nat \ {0} /\ total \in Nat \ {0}
        /\ Cardinality(D) \in Nat /\ Cardinality(D) < total
    BY <1>2, <1>3, <1>5
  <2> HIDE DEF total, D
  <2> QED  BY <2>1, NextRequest
<1>7. /\ B \subseteq S \ D /\ IsFiniteSet(B)
      /\ EndIn(G, S)
      /\ Cardinality(B) \in 0..need /\ Cardinality(D) \in Nat
      /\ Cardinality(G) = Cardinality(D) + Cardinality(B)
      /\ Cardinality(B) < need => G = S
  <2> HIDE DEF S, D, need, B
  <2>1. need \in Nat
    BY <1>6
  <2>2. EndIn(D, S) /\ B = Newest(S \ D, need)
    BY <1>3
  <2>3. LET N == Newest(S \ D, need)
        IN  /\ N \subseteq S \ D /\ IsFiniteSet(N)
            /\ EndIn(D \cup N, S)
            /\ Cardinality(N) \in 0..need /\ Cardinality(D) \in Nat
            /\ Cardinality(D \cup N) = Cardinality(D) + Cardinality(N)
            /\ Cardinality(N) < need => D \cup N = S
    BY <2>1, <2>2, <1>4, PageAdds
  <2> QED  BY <2>2, <2>3
<1>8. DOMAIN got = G
  OBVIOUS
<1>9. got = Restrict(HistoryOf(market, e, asOf), G)
  <2> DEFINE H == HistoryOf(market, e, asOf)
  <2>1. \A t \in D : fetch.got[t] = H[t]
    <3> HIDE DEF H
    <3> QED  BY <1>3 DEF Restrict, H
  <2>2. \A t \in G : t \notin D => History(e, now)[t] = H[t]
    <3> HIDE DEF H, B, S, D
    <3> QED  BY <1>3, <1>7 DEF H
  <2> HIDE DEF H, B, D
  <2>3. got = [t \in G |-> H[t]]
    BY <2>1, <2>2
  <2> QED  BY <2>3 DEF Restrict, H
<1>10. Carried(total) = IF total <= Chunk * MaxRequests THEN total ELSE Chunk * MaxRequests
  <2> HIDE DEF total
  <2> QED  BY <1>2, <1>5, EndsOfTwo DEF Carried
<1>11. /\ IsFetch(fetch', market)
       /\ fetch'.epic = e /\ fetch'.total = total /\ fetch'.got = got
       /\ fetch'.asOf = asOf /\ fetch'.left = left - 1
       /\ fetch'.cursor = (IF last THEN fetch.cursor ELSE CursorBefore(B))
       /\ fetch'.pc = (IF last THEN "save" ELSE "page")
  <2> DEFINE cursor == IF last THEN fetch.cursor ELSE CursorBefore(B)
             label == IF last THEN "save" ELSE "page"
  <2>1. fetch = [pc |-> fetch.pc, epic |-> fetch.epic, total |-> fetch.total,
                 got |-> fetch.got, cursor |-> fetch.cursor, left |-> fetch.left,
                 asOf |-> fetch.asOf]
    BY <1>2 DEF IsFetch
  <2>2. fetch' = [fetch EXCEPT !.got = got, !.left = @ - 1, !.asOf = asOf,
                               !.cursor = cursor, !.pc = label]
    <3> HIDE DEF got, B, last
    <3> QED  BY <1>1
  <2>3. label \in {"page", "save"}
    BY DEF label
  <2> HIDE DEF got, asOf, cursor, label
  <2>4. fetch' = [pc |-> label, epic |-> e, total |-> total, got |-> got,
                  cursor |-> cursor, left |-> left - 1, asOf |-> asOf]
    BY <2>1, <2>2
  <2> HIDE DEF e, total, left
  <2>5. /\ fetch'.pc = label /\ fetch'.epic = e /\ fetch'.total = total
        /\ fetch'.got = got /\ fetch'.cursor = cursor /\ fetch'.left = left - 1
        /\ fetch'.asOf = asOf
    BY <2>4
  <2>6. IsFetch(fetch', market)
    BY <1>2, <2>3, <2>4, <2>5 DEF IsFetch
  <2> QED  BY <2>5, <2>6 DEF cursor, label
<1>12. HoldsEnd(fetch', market)
  <2> HIDE DEF e, asOf, G, got
  <2> QED  BY <1>7, <1>8, <1>9, <1>11 DEF HoldsEnd, S
<1>13. CASE last
  <2>1. fetch'.pc = "save"
    BY <1>11, <1>13
  <2> HIDE DEF need, B, S, D, G, got, asOf, total, left, e
  <2>2. Cardinality(G) <= Carried(total)
    BY <1>2, <1>3, <1>5, <1>6, <1>7, <1>10
  <2>3. G = S \/ Cardinality(G) = Carried(total)
    <3>1. CASE Cardinality(B) < need
      BY <3>1, <1>7
    <3>2. CASE Cardinality(B) = need
      <4>1. B # {}
        BY <3>2, <1>6, FS_EmptySet
      <4>2. Cardinality(G) >= total \/ left = 1
        BY <3>2, <4>1, <1>6, <1>7, <1>8, <1>13
      <4> QED
        BY <3>2, <4>2, <1>2, <1>3, <1>5, <1>6, <1>7, <1>10
    <3> QED  BY <3>1, <3>2, <1>6, <1>7
  <2>4. Complete(fetch', market)
    BY <2>2, <2>3, <1>8, <1>11, <1>12 DEF Complete, S
  <2> QED  BY <2>1, <2>4, <1>11 DEF FetchOK
<1>14. CASE ~last
  <2>1. fetch'.pc = "page" /\ fetch'.cursor = Min(B) - 1
    BY <1>11, <1>14 DEF CursorBefore
  <2>2. ~(Cardinality(G) >= total) /\ Cardinality(B) = need /\ left # 1 /\ B # {}
    <3> HIDE DEF need, B, S, D, G, got, total, left
    <3> QED  BY <1>6, <1>7, <1>8, <1>14
  <2> HIDE DEF need, B, S, D, G, got, asOf, total, left, e, last
  <2>3. /\ Cardinality(G) = Chunk * (MaxRequests - (left - 1))
        /\ Cardinality(G) < total /\ left - 1 \in 1..MaxRequests
    BY <2>2, <1>2, <1>3, <1>5, <1>6, <1>7
  <2>4. Min(B) \in B /\ Min(B) \in Int /\ \A t \in B : Min(B) <= t
    BY <1>4, <1>7, <2>2, LeastFacts
  <2>5. Min(B) - 1 \in Int /\ Min(B) - 1 < asOf
    BY <2>4, <1>2, <1>3, <1>7 DEF S, Shown
  <2>6. ASSUME NEW t \in S
        PROVE  t <= Min(B) - 1 <=> t \notin G
    <3>1. t \in Int
      BY <1>4
    <3>2. CASE t \in B
      BY <3>1, <3>2, <2>4 DEF G
    <3>3. CASE t \in D
      <4>1. Min(B) \in S \ D
        BY <2>4, <1>7
      <4>2. ~(Min(B) > t) /\ Min(B) # t
        BY <4>1, <3>3, <1>3 DEF EndIn
      <4> QED  BY <4>2, <3>1, <3>3, <2>4 DEF G
    <3>4. CASE t \notin G
      <4>1. ~(t > Min(B))
        BY <3>4, <2>4, <1>7 DEF EndIn, G
      <4>2. t # Min(B)
        BY <3>4, <2>4 DEF G
      <4> QED  BY <4>1, <4>2, <3>1, <3>4, <2>4
    <3> QED  BY <3>2, <3>3, <3>4 DEF G
  <2>7. Pages(fetch', market, now)
    BY <2>1, <2>3, <2>5, <2>6, <1>3, <1>8, <1>11, <1>12 DEF Pages, S
  <2> QED  BY <2>1, <2>7, <1>11 DEF FetchOK
<1> QED  BY <1>13, <1>14

\* Any part of what was fetched is candles.
LEMMA GotIsSeries ==
  ASSUME DownloadInv, fetch.pc = "write", NEW R, R \subseteq DOMAIN fetch.got
  PROVE  IsSeries(Restrict(fetch.got, R))
<1> DEFINE S == Shown(market, fetch.epic, fetch.asOf)
<1>1. IsMarket(market) /\ fetch.epic \in DOMAIN market /\ DOMAIN fetch.got \subseteq S
  BY DEF DownloadInv, FetchOK, IsFetch, Complete, HoldsEnd, EndIn
<1>2. S \subseteq Int /\ IsFiniteSet(S)
  BY <1>1, ShownFacts
<1>3. R \subseteq Int /\ IsFiniteSet(R)
  <2> HIDE DEF S
  <2> QED  BY <1>1, <1>2, FS_Subset
<1> QED  BY <1>3 DEF IsSeries, Restrict

\* A save leaves the end of the history at the first request.
LEMMA SaveIsTail ==
  ASSUME DownloadInv, SaveWrites
  PROVE  /\ files'[fetch.epic] = EndOf(fetch.epic, fetch.asOf, fetch.total)
         /\ FilesOK(files', market)
<1> DEFINE e == fetch.epic
           total == fetch.total
           D == DOMAIN fetch.got
           S == Shown(market, e, fetch.asOf)
<1>1. /\ fetch.pc = "write"
      /\ files' = [files EXCEPT ![e] = Restrict(fetch.got, Newest(D, total))]
  BY DEF SaveWrites
<1>2. /\ IsMarket(market) /\ IsFetch(fetch, market) /\ Complete(fetch, market)
      /\ e \in DOMAIN files /\ FilesOK(files, market)
  BY <1>1 DEF DownloadInv, FetchOK, IsFetch, FilesOK
<1>3. /\ EndIn(D, S) /\ fetch.got = Restrict(HistoryOf(market, e, fetch.asOf), D)
      /\ Cardinality(D) <= Carried(total)
      /\ D = S \/ Cardinality(D) = Carried(total)
  BY <1>2 DEF Complete, HoldsEnd
<1>4. e \in DOMAIN market /\ total \in Nat \ {0}
  BY <1>2 DEF IsFetch
<1>5. Carried(total) \in Nat /\ Carried(total) <= total
  <2>1. Chunk * MaxRequests \in Nat
    BY DownloadAssumption, Requests
  <2> HIDE DEF total
  <2> QED  BY <2>1, <1>4, EndsOfTwo DEF Carried
<1>6. S \subseteq Int /\ IsFiniteSet(S)
  BY <1>2, <1>4, ShownFacts
<1>7. Newest(S, Carried(total)) = D
  <2> HIDE DEF S, D, total
  <2> QED  BY <1>3, <1>5, <1>6, EndIsNewest
<1>8. Newest(D, total) = D
  <2> HIDE DEF S, D, total
  <2>1. D \subseteq Int /\ IsFiniteSet(D) /\ EndIn(D, D) /\ Cardinality(D) \in Nat
    BY <1>3, <1>6, FS_Subset, FS_CardinalityType DEF EndIn
  <2>2. total \in Nat /\ Cardinality(D) <= total
    BY <1>3, <1>4, <1>5, <2>1
  <2> QED  BY <2>1, <2>2, EndIsNewest
<1>9. Restrict(fetch.got, D) = Restrict(HistoryOf(market, e, fetch.asOf), D)
  BY <1>3 DEF Restrict
<1>10. EndOf(e, fetch.asOf, total) = Restrict(HistoryOf(market, e, fetch.asOf), D)
  <2>1. Newest(DOMAIN History(e, fetch.asOf), Carried(total)) = D
    BY <1>7, HistoryIsOfMarket
  <2> HIDE DEF D, total, e
  <2> QED  BY <2>1, HistoryIsOfMarket DEF EndOf, Carried
<1>11. FilesOK(files', market)
  <2>1. Newest(D, total) \subseteq D
    BY DEF Newest
  <2>2. IsSeries(Restrict(fetch.got, Newest(D, total)))
    BY <1>1, <2>1, GotIsSeries
  <2> QED  BY <1>1, <1>2, <2>2 DEF FilesOK
<1> QED
  <2> HIDE DEF D, total, e
  <2> QED  BY <1>1, <1>2, <1>8, <1>9, <1>10, <1>11 DEF e, total

LEMMA FetchStarts ==
  ASSUME NEW m, IsMarket(m), NEW e \in DOMAIN m, NEW total \in Totals, NEW time
  PROVE  FetchOK(Paging(e, total), m, time)
<1>1. total \in Nat \ {0}
  BY DownloadAssumption
<1> QED  BY <1>1 DEF Paging, FetchOK, IsFetch, Begins

LEMMA DownloadInitInv == DownloadInit => DownloadInv
<1> SUFFICES ASSUME DownloadInit
             PROVE  DownloadInv
  OBVIOUS
<1>1. market \in Markets /\ now \in Int /\ fetch.pc = "idle"
  BY DownloadAssumption DEF DownloadInit
<1>2. IsMarket(market)
  BY <1>1, DownloadAssumption DEF IsMarket, IsSeries
<1>3. IsSeries(NoBars)
  BY FS_EmptySet DEF IsSeries, NoBars
<1>4. FilesOK(files, market)
  BY <1>3 DEF DownloadInit, FilesOK
<1> QED  BY <1>1, <1>2, <1>4 DEF DownloadInv

LEMMA DownloadNextInv ==
  ASSUME DownloadInv, [DownloadNext]_downloadVars
  PROVE  DownloadInv'
<1>0. /\ now \in Int /\ IsMarket(market) /\ FilesOK(files, market)
  BY DEF DownloadInv
<1>1. CASE DownloadStarts
  <2>1. PICK total \in Totals : fetch' = Paging(1, total)
    BY <1>1 DEF DownloadStarts
  <2>2. 1 \in DOMAIN market
    BY <1>0 DEF IsMarket
  <2>3. FetchOK(fetch', market, now)
    BY <1>0, <2>1, <2>2, FetchStarts
  <2> QED  BY <1>0, <1>1, <2>3 DEF DownloadStarts, DownloadInv
<1>2. CASE Page
  <2>1. FetchOK(fetch', market, now)
    BY <1>2, PageKeeps
  <2> QED  BY <1>0, <1>2, <2>1 DEF Page, DownloadInv
<1>3. CASE DownloadFails
  BY <1>0, <1>3 DEF DownloadFails, DownloadInv
<1>4. CASE SaveOpens
  <2>1. FetchOK(fetch, market, now) /\ fetch.pc = "save"
    BY <1>4 DEF SaveOpens, DownloadInv
  <2>2. fetch' = [fetch EXCEPT !.pc = "write"]
    BY <1>4 DEF SaveOpens
  <2>3. fetch' = [pc |-> "write", epic |-> fetch.epic, total |-> fetch.total,
                  got |-> fetch.got, cursor |-> fetch.cursor, left |-> fetch.left,
                  asOf |-> fetch.asOf]
    BY <2>1, <2>2 DEF FetchOK, IsFetch
  <2>4. FetchOK(fetch', market, now)
    BY <2>1, <2>3 DEF FetchOK, IsFetch, Complete, HoldsEnd
  <2>5. IsSeries(NoBars)
    BY FS_EmptySet DEF IsSeries, NoBars
  <2>6. FilesOK(files', market)
    BY <1>0, <1>4, <2>5 DEF SaveOpens, FilesOK
  <2> QED  BY <1>0, <1>4, <2>4, <2>6 DEF SaveOpens, DownloadInv
<1>5. CASE SaveWrites
  <2>1. IsFetch(fetch, market) /\ fetch.pc = "write"
    BY <1>5 DEF SaveWrites, DownloadInv, FetchOK
  <2>2. fetch'.pc \in {"idle", "failed"} \/ FetchOK(fetch', market, now)
    <3>1. CASE fetch.epic = Len(market)
      BY <1>5, <3>1 DEF SaveWrites
    <3>2. CASE fetch.epic # Len(market)
      <4>1. fetch.epic + 1 \in DOMAIN market
        BY <1>0, <2>1, <3>2 DEF IsMarket, IsFetch
      <4>2. fetch' = Paging(fetch.epic + 1, fetch.total)
        BY <1>5, <3>2 DEF SaveWrites
      <4>3. FetchOK(Paging(fetch.epic + 1, fetch.total), market, now)
        BY <1>0, <2>1, <4>1 DEF Paging, FetchOK, IsFetch, Begins
      <4> QED  BY <4>2, <4>3
    <3> QED  BY <3>1, <3>2
  <2> QED  BY <1>0, <1>5, <2>2, SaveIsTail DEF SaveWrites, DownloadInv
<1>6. CASE SaveTorn
  <2>1. fetch.pc = "write" /\ fetch'.pc = "failed" /\ UNCHANGED <<market, now>>
    BY <1>6 DEF SaveTorn
  <2>2. FilesOK(files', market)
    <3>1. CASE \E n \in 0..Cardinality(DOMAIN fetch.got) :
                 LET rows == DOMAIN fetch.got \ Newest(DOMAIN fetch.got, n)
                 IN files' = [files EXCEPT ![fetch.epic] = Restrict(fetch.got, rows)]
      <4>1. PICK rows \in SUBSET DOMAIN fetch.got :
                   files' = [files EXCEPT ![fetch.epic] = Restrict(fetch.got, rows)]
        BY <3>1
      <4>2. IsSeries(Restrict(fetch.got, rows))
        BY <2>1, GotIsSeries
      <4> QED  BY <1>0, <4>1, <4>2 DEF FilesOK
    <3>2. CASE files' = [files EXCEPT ![fetch.epic] = Unreadable]
      BY <1>0, <3>2 DEF FilesOK
    <3> QED  BY <1>6, <3>1, <3>2 DEF SaveTorn
  <2> QED  BY <1>0, <2>1, <2>2 DEF DownloadInv
<1>7. CASE Tick
  <2>1. now' = now + 1 /\ fetch' = fetch /\ UNCHANGED <<market, files>>
    BY <1>7 DEF Tick
  <2>2. ASSUME FetchOK(fetch, market, now)
        PROVE  FetchOK(fetch, market, now + 1)
    <3>1. Pages(fetch, market, now) => Pages(fetch, market, now + 1)
      BY <1>0 DEF Pages
    <3> QED  BY <2>2, <3>1 DEF FetchOK
  <2> QED  BY <1>0, <2>1, <2>2 DEF DownloadInv
<1>8. CASE UNCHANGED downloadVars
  BY <1>8 DEF downloadVars, DownloadInv
<1> QED
  BY <1>1, <1>2, <1>3, <1>4, <1>5, <1>6, <1>7, <1>8 DEF DownloadNext

(***************************************************************************)
(* A saved file is the end of the history the broker showed at the first   *)
(* request, with no bar left out between two pages, for any markets, sizes *)
(* of pages and numbers of bars asked for (rest_client.py:197-233).        *)
(***************************************************************************)
THEOREM SavesAreTails == DownloadSpec => SavedIsTail
<1>1. DownloadSpec => []DownloadInv
  BY DownloadInitInv, DownloadNextInv, PTL DEF DownloadSpec
<1>2. DownloadInv /\ [DownloadNext]_downloadVars =>
        [fetch.pc = "write" /\ fetch'.pc \in {"page", "idle"} =>
           files'[fetch.epic] = EndOf(fetch.epic, fetch.asOf, fetch.total)]_downloadVars
  <2> SUFFICES ASSUME DownloadInv, DownloadNext, fetch.pc = "write",
                      fetch'.pc \in {"page", "idle"}
               PROVE  files'[fetch.epic] = EndOf(fetch.epic, fetch.asOf, fetch.total)
    OBVIOUS
  <2>1. SaveWrites \/ Tick
    BY DEF DownloadNext, DownloadStarts, Page, DownloadFails, SaveOpens, SaveTorn
  <2>2. ~Tick
    BY DEF Tick
  <2> QED  BY <2>1, <2>2, SaveIsTail
<1> QED  BY <1>1, <1>2, PTL DEF DownloadSpec, SavedIsTail

-----------------------------------------------------------------------------
(* The timeline. *)

\* The element with i others below it is there, and only the older have a
\* smaller number.
LEMMA NthFacts ==
  ASSUME NEW S, S \subseteq Int, IsFiniteSet(S), NEW i \in 0..(Cardinality(S) - 1)
  PROVE  /\ Nth(S, i) \in S
         /\ Cardinality({u \in S : u < Nth(S, i)}) = i
<1> DEFINE below(t) == {u \in S : u < t}
           above(t) == {u \in S : u > t}
           n == Cardinality(S)
           N == Newest(S, n - i)
           M == Newest(S, n - i - 1)
<1>1. n \in Nat /\ i \in Nat /\ n - i \in Nat /\ n - i - 1 \in Nat
  <2>1. Cardinality(S) \in Nat
    BY FS_CardinalityType
  <2> QED  BY <2>1
<1>2. N \subseteq S /\ Cardinality(N) = n - i
  <2>1. /\ N \subseteq S
        /\ Cardinality(N) \in 0..(n - i)
        /\ Cardinality(N) < n - i => N = S
    <3> HIDE DEF n
    <3> QED  BY <1>1, NewestFacts
  <2> HIDE DEF N
  <2> QED  BY <1>1, <2>1
<1>3. M \subseteq S /\ IsFiniteSet(M) /\ Cardinality(M) \in 0..(n - i - 1)
  <2> DEFINE m == n - i - 1
  <2>1. m \in Nat
    BY <1>1
  <2> HIDE DEF n, m
  <2>2. LET X == Newest(S, m)
        IN  X \subseteq S /\ IsFiniteSet(X) /\ Cardinality(X) \in 0..m
    BY <2>1, NewestFacts
  <2> QED  BY <2>2 DEF m
<1>4. PICK t \in N : t \notin M
  <2>1. SUFFICES ASSUME N \subseteq M PROVE FALSE
    OBVIOUS
  <2>2. Cardinality(N) <= Cardinality(M)
    <3> HIDE DEF N, M
    <3> QED  BY <1>3, <2>1, FS_Subset
  <2> HIDE DEF N, M, n
  <2> QED  BY <1>1, <1>2, <1>3, <2>2
<1>5. t \in S /\ t \in Int
  BY <1>2, <1>4
<1>6. Cardinality(above(t)) < n - i /\ ~(Cardinality(above(t)) < n - i - 1)
  BY <1>4, <1>5 DEF Newest
<1>7. /\ IsFiniteSet(above(t)) /\ Cardinality(above(t)) \in Nat
      /\ IsFiniteSet(below(t)) /\ Cardinality(below(t)) \in Nat
  <2>1. above(t) \in SUBSET S /\ below(t) \in SUBSET S
    OBVIOUS
  <2> HIDE DEF above, below
  <2> QED  BY <2>1, FS_Subset, FS_CardinalityType
<1>8. Cardinality(S) = Cardinality(below(t)) + 1 + Cardinality(above(t))
  <2>0. \A u \in S : /\ u < t \/ u = t \/ u > t
                     /\ ~(u < t /\ u > t) /\ ~(t < t) /\ ~(t > t)
    BY <1>5
  <2>1. S = (below(t) \cup {t}) \cup above(t)
    BY <1>5, <2>0
  <2>2. t \notin below(t) /\ (below(t) \cup {t}) \cap above(t) = {}
    BY <2>0
  <2> HIDE DEF above, below
  <2>3. /\ IsFiniteSet(below(t) \cup {t})
        /\ Cardinality(below(t) \cup {t}) = Cardinality(below(t)) + 1
    BY <1>7, <2>2, FS_AddElement
  <2>4. Cardinality((below(t) \cup {t}) \cup above(t))
          = Cardinality(below(t) \cup {t}) + Cardinality(above(t))
              - Cardinality((below(t) \cup {t}) \cap above(t))
    BY <1>7, <2>3, FS_Union
  <2>5. Cardinality((below(t) \cup {t}) \cap above(t)) = 0
    BY <2>2, FS_EmptySet
  <2> QED  BY <1>7, <2>1, <2>3, <2>4, <2>5
<1>9. Cardinality(below(t)) = i
  <2> HIDE DEF above, below, N, M
  <2> QED  BY <1>1, <1>6, <1>7, <1>8 DEF n
<1>10. \E x \in S : Cardinality({u \in S : u < x}) = i
  BY <1>5, <1>9
<1> QED
  <2> HIDE DEF above, below, N, M, n
  <2> QED  BY <1>10 DEF Nth

LEMMA NthGrows ==
  ASSUME NEW S, S \subseteq Int, IsFiniteSet(S),
         NEW i \in 0..(Cardinality(S) - 1), NEW j \in 0..(Cardinality(S) - 1), i < j
  PROVE  Nth(S, i) < Nth(S, j)
<1> DEFINE x == Nth(S, i)
           y == Nth(S, j)
<1>1. /\ x \in S /\ y \in S
      /\ Cardinality({u \in S : u < x}) = i /\ Cardinality({u \in S : u < y}) = j
  BY NthFacts
<1> HIDE DEF x, y
<1>2. x \in Int /\ y \in Int
  BY <1>1
<1>3. ASSUME y <= x
      PROVE  FALSE
  <2> DEFINE A == {u \in S : u < y}
             B == {u \in S : u < x}
  <2>1. A \subseteq B /\ B \subseteq S
    <3>1. \A u \in S : u < y => u < x
      BY <1>2, <1>3
    <3> QED  BY <3>1
  <2>2. Cardinality(A) = j /\ Cardinality(B) = i
    BY <1>1
  <2> HIDE DEF A, B
  <2>3. IsFiniteSet(B) /\ Cardinality(A) <= Cardinality(B)
    BY <2>1, FS_Subset
  <2>4. i \in Int /\ j \in Int
    BY FS_CardinalityType
  <2> QED  BY <2>2, <2>3, <2>4
<1>4. x < y
  BY <1>2, <1>3
<1> QED  BY <1>4 DEF x, y

\* A list comprehension keeps some of the elements, those that pass the test.
LEMMA CountedFacts ==
  ASSUME NEW trades, NEW n \in Nat, DOMAIN trades = 1..n, NEW start
  PROVE  LET c == Counted(trades, start)
         IN  /\ c \in Seq({trades[i] : i \in 1..n})
             /\ \A k \in DOMAIN c : \E i \in 1..n :
                  c[k] = trades[i] /\ trades[i].entry >= start
<1> DEFINE kept == {i \in 1..n : trades[i].entry >= start}
           c == [k \in 1..Cardinality(kept) |-> trades[Nth(kept, k - 1)]]
<1>1. Counted(trades, start) = c
  BY DEF Counted, Picked
<1>2. kept \subseteq Int /\ IsFiniteSet(kept)
  <2>1. IsFiniteSet(1..n) /\ kept \in SUBSET (1..n)
    BY FS_Interval
  <2> HIDE DEF kept
  <2>2. IsFiniteSet(kept)
    BY <2>1, FS_Subset
  <2>3. kept \subseteq Int
    BY <2>1
  <2> QED  BY <2>2, <2>3
<1>3. Cardinality(kept) \in Nat
  <2> HIDE DEF kept
  <2> QED  BY <1>2, FS_CardinalityType
<1>4. ASSUME NEW k \in 1..Cardinality(kept)
      PROVE  \E i \in kept : c[k] = trades[i]
  <2>1. k - 1 \in 0..(Cardinality(kept) - 1)
    <3> HIDE DEF kept
    <3> QED  BY <1>3
  <2>2. Nth(kept, k - 1) \in kept
    <3> HIDE DEF kept
    <3> QED  BY <1>2, <2>1, NthFacts
  <2>3. c[k] = trades[Nth(kept, k - 1)]
    OBVIOUS
  <2> HIDE DEF kept, c
  <2> QED  BY <2>2, <2>3
<1>5. DOMAIN c = 1..Cardinality(kept)
  OBVIOUS
<1>6. c \in Seq({trades[i] : i \in 1..n})
  <2> DEFINE T == {trades[i] : i \in 1..n}
  <2>1. ASSUME NEW k \in 1..Cardinality(kept)
        PROVE  c[k] \in T
    <3>1. PICK i \in kept : c[k] = trades[i]
      <4> HIDE DEF c, kept
      <4> QED  BY <1>4
    <3> HIDE DEF c
    <3> QED  BY <3>1
  <2>2. c \in [1..Cardinality(kept) -> T]
    <3> HIDE DEF T, kept
    <3> QED  BY <2>1
  <2>3. c \in Seq(T)
    <3> HIDE DEF T, kept, c
    <3> QED  BY <1>3, <2>2
  <2> QED  BY <2>3
<1>7. ASSUME NEW k \in DOMAIN c
      PROVE  \E i \in 1..n : c[k] = trades[i] /\ trades[i].entry >= start
  <2>1. PICK i \in kept : c[k] = trades[i]
    <3> HIDE DEF c, kept
    <3> QED  BY <1>4, <1>5, <1>7
  <2> HIDE DEF c
  <2> QED  BY <2>1
<1> QED
  <2> HIDE DEF c, kept
  <2> QED  BY <1>1, <1>6, <1>7

-----------------------------------------------------------------------------
(* What is tested, and how often. *)

\* The candles a study is given.
IsData(d) == IsFiniteSet(DOMAIN d) /\ \A e \in DOMAIN d : IsSeries(d[e])

(***************************************************************************)
(* What a Backtester gives back: a list of trades, each opened at the time *)
(* of a candle of the slice it was given (backtest/engine.py:259) and with *)
(* a profit or a loss, a number (backtest/portfolio.py:78).                *)
(***************************************************************************)
TradesOfSlice ==
  \A slice, params :
    IsData(slice) =>
      LET trades == Backtest(slice, params).trades
      IN  \E n \in Nat :
            /\ DOMAIN trades = 1..n
            /\ \A i \in 1..n : trades[i].entry \in Times(slice) /\ trades[i].pnl \in Int

LEMMA TimesAreFinite ==
  ASSUME NEW d, IsData(d)
  PROVE  Times(d) \subseteq Int /\ IsFiniteSet(Times(d)) /\ Bars(d) \in Nat
<1> DEFINE T == {DOMAIN d[e] : e \in DOMAIN d}
           f == [e \in DOMAIN d |-> DOMAIN d[e]]
<1>1. f \in Surjection(DOMAIN d, T)
  BY DEF Surjection
<1>2. IsFiniteSet(T)
  <2> HIDE DEF f, T
  <2> QED  BY <1>1, FS_Surjection DEF IsData
<1>3. \A S \in T : IsFiniteSet(S) /\ S \subseteq Int
  BY DEF IsData, IsSeries
<1>4. Times(d) = UNION T
  BY DEF Times
<1> HIDE DEF T
<1>5. IsFiniteSet(UNION T) /\ UNION T \subseteq Int
  BY <1>2, <1>3, FS_UNION
<1> QED  BY <1>4, <1>5, FS_CardinalityType DEF Bars

LEMMA SliceFacts ==
  ASSUME NEW d, IsData(d), NEW start, NEW end
  PROVE  /\ IsData(SliceTo(d, start, end))
         /\ \A t \in Times(SliceTo(d, start, end)) : start <= t /\ t <= end
<1> DEFINE within(e) == {t \in DOMAIN d[e] : start <= t /\ t <= end}
           E == {e \in DOMAIN d : within(e) # {}}
           s == [e \in E |-> Restrict(d[e], within(e))]
<1>1. SliceTo(d, start, end) = s
  BY DEF SliceTo
<1>2. DOMAIN s = E /\ \A e \in E : DOMAIN s[e] = within(e)
  BY DEF Restrict
<1>3. IsFiniteSet(E)
  <2>1. E \in SUBSET DOMAIN d
    OBVIOUS
  <2> HIDE DEF E
  <2> QED  BY <2>1, FS_Subset DEF IsData
<1>4. ASSUME NEW e \in E
      PROVE  IsFiniteSet(within(e)) /\ within(e) \subseteq Int
  <2>1. within(e) \in SUBSET DOMAIN d[e] /\ IsSeries(d[e])
    BY DEF IsData
  <2> HIDE DEF within
  <2> QED  BY <2>1, FS_Subset DEF IsSeries
<1>5. IsData(s)
  <2> HIDE DEF s, E, within
  <2> QED  BY <1>2, <1>3, <1>4 DEF IsData, IsSeries
<1>6. ASSUME NEW t \in Times(s)
      PROVE  start <= t /\ t <= end
  <2>1. PICK e \in E : t \in within(e)
    <3> HIDE DEF s, E, within
    <3> QED  BY <1>2, <1>6 DEF Times
  <2> QED  BY <2>1
<1> QED
  <2> HIDE DEF s
  <2> QED  BY <1>1, <1>5, <1>6

LEMMA KeepFacts ==
  ASSUME NEW d, IsData(d), NEW epics
  PROVE  IsData(Keep(d, epics)) /\ Times(Keep(d, epics)) \subseteq Times(d)
<1> DEFINE E == DOMAIN d \cap epics
<1>1. DOMAIN Keep(d, epics) = E /\ \A e \in E : Keep(d, epics)[e] = d[e]
  BY DEF Keep, Restrict
<1>2. IsFiniteSet(E)
  <2>1. E \in SUBSET DOMAIN d
    OBVIOUS
  <2> HIDE DEF E
  <2> QED  BY <2>1, FS_Subset DEF IsData
<1>3. \A e \in E : e \in DOMAIN d
  OBVIOUS
<1> HIDE DEF E
<1> QED  BY <1>1, <1>2, <1>3 DEF IsData, Times

LEMMA OwnRange ==
  ASSUME NEW S, NEW s \in Seq(S)
  PROVE  s \in Seq({s[i] : i \in DOMAIN s})
<1> DEFINE R == {s[i] : i \in DOMAIN s}
<1>1. /\ Len(s) \in Nat /\ DOMAIN s = 1..Len(s)
      /\ s = [i \in 1..Len(s) |-> s[i]]
  OBVIOUS
<1>2. \A i \in 1..Len(s) : s[i] \in R
  BY <1>1
<1>3. s \in [1..Len(s) -> R]
  <2> HIDE DEF R
  <2> QED  BY <1>1, <1>2
<1>4. s \in Seq(R)
  <2> HIDE DEF R
  <2> QED  BY <1>1, <1>3
<1> QED  BY <1>4

\* What counts of a fold was opened in its out-of-sample window.
LEMMA TestedTrades ==
  ASSUME TradesOfSlice, NEW d, IsData(d), NEW k
  PROVE  /\ OosTrades(d, k) \in Seq({OosTrades(d, k)[i] : i \in DOMAIN OosTrades(d, k)})
         /\ \A i \in DOMAIN OosTrades(d, k) :
              /\ OosStart(d, k) <= OosTrades(d, k)[i].entry
              /\ OosTrades(d, k)[i].entry <= OosEnd(d, k)
              /\ OosTrades(d, k)[i].pnl \in Int
<1> DEFINE test == SliceTo(d, WarmStart(d, k), OosEnd(d, k))
           choice == Choice(d, k)
           slice == IF SelectTopN = None \/ choice.epics = {}
                      THEN test ELSE Keep(test, choice.epics)
           trades == RunSlice(slice, choice.params).trades
           c == Counted(trades, OosStart(d, k))
<1>1. OosTrades(d, k) = c
  BY DEF OosTrades
<1>2. IsData(slice) /\ \A t \in Times(slice) : t <= OosEnd(d, k)
  <2>1. IsData(test) /\ \A t \in Times(test) : t <= OosEnd(d, k)
    BY SliceFacts
  <2> HIDE DEF test, choice
  <2>2. IsData(Keep(test, choice.epics)) /\ Times(Keep(test, choice.epics)) \subseteq Times(test)
    BY <2>1, KeepFacts
  <2> QED  BY <2>1, <2>2
<1> HIDE DEF slice, choice
<1>3. PICK n \in Nat : /\ DOMAIN trades = 1..n
                       /\ \A i \in 1..n : /\ trades[i].entry \in Times(slice)
                                           /\ trades[i].pnl \in Int
  <2>1. CASE DOMAIN slice = {}
    <3>1. trades = <<>>
      BY <2>1 DEF RunSlice, NoReport
    <3>2. DOMAIN trades = 1..0 /\ 0 \in Nat
      BY <3>1
    <3> QED  BY <3>2
  <2>2. CASE DOMAIN slice # {}
    <3>1. trades = Backtest(slice, choice.params).trades
      BY <2>2 DEF RunSlice
    <3> HIDE DEF trades
    <3> QED  BY <3>1, <1>2 DEF TradesOfSlice
  <2> QED  BY <2>1, <2>2
<1>4. /\ c \in Seq({trades[i] : i \in 1..n})
      /\ \A j \in DOMAIN c : \E i \in 1..n :
           c[j] = trades[i] /\ trades[i].entry >= OosStart(d, k)
  <2> HIDE DEF trades
  <2> QED  BY <1>3, CountedFacts
<1>5. c \in Seq({c[i] : i \in DOMAIN c})
  <2> DEFINE R == {trades[i] : i \in 1..n}
  <2>1. c \in Seq(R)
    BY <1>4
  <2> HIDE DEF R, c
  <2> QED  BY <2>1, OwnRange
<1>6. ASSUME NEW j \in DOMAIN c
      PROVE  /\ OosStart(d, k) <= c[j].entry /\ c[j].entry <= OosEnd(d, k)
             /\ c[j].pnl \in Int
  <2> HIDE DEF c, trades
  <2> QED  BY <1>2, <1>3, <1>4, <1>6
<1> QED
  <2> HIDE DEF c
  <2> QED  BY <1>1, <1>5, <1>6

\* Two windows share no bar, unless the step is shorter than a window.
LEMMA WindowsApart ==
  ASSUME NEW d, IsData(d), NEW j \in Nat, NEW k \in Nat, j < k, Step >= OosBars,
         k * Step + IsBars + OosBars <= Bars(d)
  PROVE  OosEnd(d, j) < OosStart(d, k)
<1> DEFINE a == j * Step + IsBars + OosBars - 1
           b == k * Step + IsBars
<1>1. Step \in Nat \ {0} /\ IsBars \in Nat \ {0} /\ OosBars \in Nat \ {0}
  BY WalkAssumption DEF Step
<1>2. j * Step \in Nat /\ k * Step \in Nat /\ j * Step + Step <= k * Step
  <2>1. \A s \in Nat : j * s \in Nat /\ k * s \in Nat /\ j * s + s <= k * s
    <3>1. j + 1 <= k
      OBVIOUS
    <3>2. \A s \in Nat : j * s \in Nat /\ k * s \in Nat /\ (j + 1) * s <= k * s
      BY <3>1
    <3>3. \A s \in Nat : (j + 1) * s = j * s + s
      OBVIOUS
    <3> QED  BY <3>2, <3>3
  <2> QED  BY <1>1, <2>1
<1>3. /\ Times(d) \subseteq Int /\ IsFiniteSet(Times(d))
      /\ Bars(d) = Cardinality(Times(d)) /\ Bars(d) \in Nat
  BY TimesAreFinite DEF Bars
<1>4. a \in 0..(Bars(d) - 1) /\ b \in 0..(Bars(d) - 1) /\ a < b
  BY <1>1, <1>2, <1>3
<1> HIDE DEF a, b
<1>5. Nth(Times(d), a) < Nth(Times(d), b)
  BY <1>3, <1>4, NthGrows
<1> QED  BY <1>5 DEF a, b, OosEnd, OosStart, TimeAt

AnyTrade(d) ==
  UNION {{OosTrades(d, k)[i] : i \in DOMAIN OosTrades(d, k)} : k \in Nat}

TestedInv ==
  /\ data = None => folds = <<>> /\ pool = <<>>
  /\ data # None => IsData(data)
  /\ pool \in Seq(AnyTrade(data))
  /\ \A k \in DOMAIN folds : (k - 1) * Step + IsBars + OosBars <= Bars(data)
  /\ \A i \in DOMAIN pool : \E k \in DOMAIN folds :
       OosStart(data, k - 1) <= pool[i].entry /\ pool[i].entry <= OosEnd(data, k - 1)

LEMMA StudyInitTested == StudyInit => TestedInv
<1> SUFFICES ASSUME StudyInit
             PROVE  TestedInv
  OBVIOUS
<1>1. data \in DataSets /\ folds = <<>> /\ pool = <<>>
  BY DEF StudyInit
<1>2. IsData(data)
  BY <1>1, WalkAssumption DEF IsData, IsSeries
<1>3. <<>> \in Seq(AnyTrade(data)) /\ DOMAIN folds = {} /\ DOMAIN pool = {}
  BY <1>1
<1> QED  BY <1>1, <1>2, <1>3 DEF TestedInv

LEMMA StudyNextTested ==
  ASSUME TradesOfSlice, StudyInv, TestedInv, [StudyNext]_studyVars
  PROVE  TestedInv'
<1>1. CASE RunFold
  <2> DEFINE n == Len(folds)
             tested == OosTrades(data, n)
             T == AnyTrade(data)
             In(t, k) == OosStart(data, k - 1) <= t.entry /\ t.entry <= OosEnd(data, k - 1)
  <2>1. /\ data # None /\ data' = data /\ MoreFolds
        /\ folds' = Append(folds, Fold(data, n))
        /\ pool' = pool \o tested
    BY <1>1 DEF RunFold
  <2>2. n \in Nat /\ DOMAIN folds = 1..n /\ DOMAIN folds' = 1..(n + 1)
    <3> DEFINE Folds == {Fold(data, k) : k \in Nat}
    <3>1. folds \in Seq(Folds)
      BY DEF StudyInv
    <3>2. Len(folds) \in Nat
      BY <3>1
    <3>3. Fold(data, Len(folds)) \in Folds
      BY <3>2
    <3> HIDE DEF Folds
    <3> QED  BY <2>1, <3>1, <3>2, <3>3
  <2>3. IsData(data) /\ pool \in Seq(T)
    BY <2>1 DEF TestedInv
  <2>4. /\ tested \in Seq({tested[i] : i \in DOMAIN tested})
        /\ \A i \in DOMAIN tested :
             OosStart(data, n) <= tested[i].entry /\ tested[i].entry <= OosEnd(data, n)
    BY <2>3, TestedTrades
  <2>5. {tested[i] : i \in DOMAIN tested} \subseteq T
    BY <2>2 DEF AnyTrade
  <2>6. tested \in Seq(T)
    <3> DEFINE R == {tested[i] : i \in DOMAIN tested}
    <3>1. R \subseteq T /\ tested \in Seq(R)
      BY <2>4, <2>5
    <3> HIDE DEF R, T, tested
    <3> QED  BY <3>1
  <2>7. /\ pool' \in Seq(T)
        /\ \A i \in DOMAIN pool' :
             \/ i \in DOMAIN pool /\ pool'[i] = pool[i]
             \/ \E j \in DOMAIN tested : pool'[i] = tested[j]
    <3> HIDE DEF T, tested
    <3>1. /\ Len(pool) \in Nat /\ Len(tested) \in Nat
          /\ DOMAIN pool = 1..Len(pool) /\ DOMAIN tested = 1..Len(tested)
          /\ DOMAIN pool' = 1..(Len(pool) + Len(tested))
          /\ pool' \in Seq(T)
      BY <2>1, <2>3, <2>6
    <3>2. \A i \in 1..(Len(pool) + Len(tested)) :
            pool'[i] = IF i <= Len(pool) THEN pool[i] ELSE tested[i - Len(pool)]
      BY <2>1, <2>3, <2>6
    <3>3. \A i \in 1..(Len(pool) + Len(tested)) :
            i \in 1..Len(pool) \/ (~(i <= Len(pool)) /\ i - Len(pool) \in 1..Len(tested))
      BY <3>1
    <3> QED  BY <3>1, <3>2, <3>3
  <2>8. n * Step + IsBars + OosBars <= Bars(data)
    BY <2>1 DEF MoreFolds
  <2>9. ASSUME NEW k \in DOMAIN folds'
        PROVE  (k - 1) * Step + IsBars + OosBars <= Bars(data)
    <3>1. k \in DOMAIN folds \/ k - 1 = n
      BY <2>2
    <3> QED  BY <3>1, <2>8 DEF TestedInv
  <2>10. ASSUME NEW i \in DOMAIN pool'
         PROVE  \E k \in DOMAIN folds' : In(pool'[i], k)
    <3>1. CASE i \in DOMAIN pool /\ pool'[i] = pool[i]
      <4>1. PICK k \in DOMAIN folds : In(pool[i], k)
        BY <3>1 DEF TestedInv
      <4>2. k \in DOMAIN folds'
        BY <2>2
      <4> QED  BY <3>1, <4>1, <4>2
    <3>2. ASSUME NEW j \in DOMAIN tested, pool'[i] = tested[j]
          PROVE  In(pool'[i], n + 1) /\ n + 1 \in DOMAIN folds'
      <4>1. (n + 1) - 1 = n /\ n + 1 \in DOMAIN folds'
        BY <2>2
      <4>2. OosStart(data, n) <= tested[j].entry /\ tested[j].entry <= OosEnd(data, n)
        BY <2>4
      <4> HIDE DEF n, tested
      <4> QED  BY <3>2, <4>1, <4>2
    <3> HIDE DEF In, tested, n
    <3> QED  BY <2>7, <3>1, <3>2
  <2> HIDE DEF n, tested
  <2> QED  BY <2>1, <2>3, <2>7, <2>9, <2>10 DEF TestedInv
<1>2. CASE Summarize
  BY <1>2 DEF Summarize, TestedInv
<1>3. CASE HoldoutTest
  BY <1>3 DEF HoldoutTest, TestedInv
<1>4. CASE StudyEnds
  <2>1. data' = None /\ folds' = <<>> /\ pool' = <<>>
    BY <1>4 DEF StudyEnds
  <2>2. \A S : <<>> \in Seq(S)
    OBVIOUS
  <2>3. DOMAIN folds' = {} /\ DOMAIN pool' = {} /\ pool' \in Seq(AnyTrade(data'))
    BY <2>1, <2>2
  <2> QED  BY <2>1, <2>3 DEF TestedInv
<1>5. CASE UNCHANGED studyVars
  BY <1>5 DEF studyVars, TestedInv
<1> QED  BY <1>1, <1>2, <1>3, <1>4, <1>5 DEF StudyNext

LEMMA InvTestedOnce == StudyInv /\ TestedInv => TestedOnce
<1> SUFFICES ASSUME StudyInv, TestedInv
             PROVE  TestedOnce
  OBVIOUS
<1>1. \A k \in DOMAIN folds : /\ folds[k].oos_start = OosStart(data, k - 1)
                              /\ folds[k].oos_end = OosEnd(data, k - 1)
  BY DEF StudyInv, Fold
<1>2. \A i \in DOMAIN pool : \E k \in DOMAIN folds :
        folds[k].oos_start <= pool[i].entry /\ pool[i].entry <= folds[k].oos_end
  BY <1>1 DEF TestedInv
<1>3. ASSUME Step >= OosBars, NEW j \in DOMAIN folds, NEW k \in DOMAIN folds, j < k
      PROVE  folds[j].oos_end < folds[k].oos_start
  <2>1. folds # <<>> /\ DOMAIN folds = 1..Len(folds) /\ Len(folds) \in Nat
    <3> DEFINE Folds == {Fold(data, i) : i \in Nat}
    <3>1. folds \in Seq(Folds)
      BY DEF StudyInv
    <3> HIDE DEF Folds
    <3> QED  BY <3>1, <1>3
  <2>2. j - 1 \in Nat /\ k - 1 \in Nat /\ j - 1 < k - 1
    BY <2>1, <1>3
  <2>3. IsData(data) /\ (k - 1) * Step + IsBars + OosBars <= Bars(data)
    BY <2>1 DEF TestedInv
  <2>4. OosEnd(data, j - 1) < OosStart(data, k - 1)
    BY <2>2, <2>3, <1>3, WindowsApart
  <2> QED  BY <1>1, <2>4
<1> QED  BY <1>2, <1>3 DEF TestedOnce

(***************************************************************************)
(* Every trade of a study's pool was opened in the out-of-sample window of *)
(* a fold, and no two windows share a bar, for any data, parameters, sizes *)
(* of windows and any backtest that trades on the candles it is given      *)
(* (research/walkforward.py:425-470).                                      *)
(***************************************************************************)
THEOREM NothingCountsTwice ==
  ASSUME TradesOfSlice
  PROVE  StudySpec => []TestedOnce
<1>1. StudySpec => [](StudyInv /\ TestedInv)
  <2>1. StudyInit => StudyInv /\ TestedInv
    BY StudyInitInv, StudyInitTested
  <2>2. (StudyInv /\ TestedInv) /\ [StudyNext]_studyVars => (StudyInv /\ TestedInv)'
    BY StudyNextInv, StudyNextTested
  <2> QED  BY <2>1, <2>2, PTL DEF StudySpec
<1> QED  BY <1>1, InvTestedOnce, PTL

-----------------------------------------------------------------------------
(* What a study's trades pay. *)

Paid(trades) == [i \in DOMAIN trades |-> trades[i].pnl]
IsTrades(trades) ==
  \E n \in Nat : DOMAIN trades = 1..n /\ \A i \in 1..n : trades[i].pnl \in Int

LEMMA TradesPay ==
  ASSUME NEW trades, IsTrades(trades)
  PROVE  /\ IsFiniteSet(DOMAIN trades) /\ DOMAIN trades \subseteq Int
         /\ \A i \in DOMAIN trades : Paid(trades)[i] = trades[i].pnl /\ trades[i].pnl \in Int
         /\ Pnl(trades) = SumFunctionOnSet(Paid(trades), DOMAIN trades)
         /\ Pnl(trades) \in Int
<1>1. PICK n \in Nat : DOMAIN trades = 1..n /\ \A i \in 1..n : trades[i].pnl \in Int
  BY DEF IsTrades
<1>2. IsFiniteSet(1..n)
  BY FS_Interval
<1>3. /\ DOMAIN Paid(trades) = DOMAIN trades
      /\ \A i \in DOMAIN trades : Paid(trades)[i] = trades[i].pnl
  BY DEF Paid
<1>4. Pnl(trades) = SumFunction(Paid(trades))
  BY DEF Pnl, Paid
<1>5. SumFunction(Paid(trades)) = SumFunctionOnSet(Paid(trades), DOMAIN trades)
  BY <1>3, SumOfFunction
<1>6. SumFunctionOnSet(Paid(trades), DOMAIN trades) \in Int
  BY <1>1, <1>2, <1>3, SumType
<1> QED  BY <1>1, <1>2, <1>3, <1>4, <1>5, <1>6

\* What some of the trades pay is what they pay as a list of their own.
LEMMA ListedPay ==
  ASSUME NEW trades, IsTrades(trades), NEW kept \in SUBSET DOMAIN trades
  PROVE  LET list == [k \in 1..Cardinality(kept) |-> trades[Nth(kept, k - 1)]]
         IN  Pnl(list) = SumFunctionOnSet(Paid(trades), kept)
<1> DEFINE m == Cardinality(kept)
           list == [k \in 1..m |-> trades[Nth(kept, k - 1)]]
           s == [k \in 1..m |-> Nth(kept, k - 1)]
<1>1. /\ IsFiniteSet(DOMAIN trades) /\ DOMAIN trades \subseteq Int
      /\ \A i \in DOMAIN trades : Paid(trades)[i] = trades[i].pnl /\ trades[i].pnl \in Int
  BY TradesPay
<1>2. IsFiniteSet(kept) /\ kept \subseteq Int /\ m \in Nat
  BY <1>1, FS_Subset, FS_CardinalityType
<1>3. /\ IsFiniteSet(1..m) /\ Cardinality(1..m) = m
      /\ \A k \in 1..m : k - 1 \in 0..(m - 1)
  <2> HIDE DEF m
  <2> QED  BY <1>2, FS_Interval
<1>4. \A k \in 1..m : s[k] = Nth(kept, k - 1) /\ s[k] \in kept
  BY <1>2, <1>3, NthFacts
<1>5. \A j, k \in 1..m : j < k => s[j] < s[k]
  <2> TAKE j, k \in 1..m
  <2>1. j < k => j - 1 < k - 1
    BY <1>2
  <2> QED  BY <1>2, <1>3, <2>1, NthGrows
<1>6. \A j, k \in 1..m : s[j] = s[k] => j = k
  <2>1. \A k \in 1..m : s[k] \in Int /\ k \in Int
    BY <1>2, <1>4
  <2> HIDE DEF s
  <2> QED  BY <1>5, <2>1
<1>7. s \in Injection(1..m, kept)
  <2>1. s \in [1..m -> kept]
    <3>1. s = [k \in 1..m |-> s[k]]
      OBVIOUS
    <3> HIDE DEF s
    <3> QED  BY <1>4, <3>1
  <2> HIDE DEF s
  <2> QED  BY <1>6, <2>1 DEF Injection, IsInjective
<1>8. {s[k] : k \in 1..m} = kept
  <2>1. s \in Surjection(1..m, kept)
    <3> HIDE DEF s
    <3> QED  BY <1>2, <1>3, <1>7, FS_Injection
  <2> HIDE DEF s
  <2> QED  BY <2>1 DEF Surjection
<1>9. /\ DOMAIN list = 1..m
      /\ \A k \in 1..m : list[k] = trades[s[k]] /\ s[k] \in DOMAIN trades
  <2>1. \A k \in 1..m : list[k] = trades[s[k]]
    OBVIOUS
  <2> HIDE DEF s
  <2> QED  BY <1>4, <2>1
<1> HIDE DEF s, list
<1>10. IsTrades(list)
  <2>1. \A k \in 1..m : list[k].pnl \in Int
    BY <1>1, <1>9
  <2> QED  BY <1>2, <1>9, <2>1 DEF IsTrades
<1>11. Pnl(list) = SumFunctionOnSet(Paid(list), 1..m)
  BY <1>9, <1>10, TradesPay
<1>12. \A k \in 1..m : /\ Paid(list)[k] = Paid(trades)[s[k]]
                       /\ Paid(trades)[s[k]] \in Int
  <2>1. \A k \in DOMAIN list : Paid(list)[k] = list[k].pnl
    BY <1>10, TradesPay
  <2> HIDE DEF m
  <2> QED  BY <1>1, <1>9, <2>1
<1>13. SumFunctionOnSet(Paid(list), 1..m) = SumFunctionOnSet(Paid(trades), {s[k] : k \in 1..m})
  <2> DEFINE f == Paid(trades)
             g == Paid(list)
             S == 1..m
  <2>1. /\ IsFiniteSet(S) /\ \A x, y \in S : s[x] = s[y] => x = y
        /\ \A x \in S : g[x] = f[s[x]] /\ f[s[x]] \in Int
    BY <1>3, <1>6, <1>12
  <2> HIDE DEF f, g, S
  <2>2. SumFunctionOnSet(g, S) = SumFunctionOnSet(f, {s[x] : x \in S})
    BY <2>1, SumMoves
  <2> QED  BY <2>2 DEF f, g, S
<1> QED  BY <1>8, <1>11, <1>13 DEF list

\* What is won less what is lost.
LEMMA WinsAndLosses ==
  ASSUME NEW trades, IsTrades(trades)
  PROVE  /\ Wins(trades) \in Int /\ Losses(trades) \in Nat
         /\ Pnl(trades) = Wins(trades) - Losses(trades)
<1> DEFINE D == DOMAIN trades
           total(S) == SumFunctionOnSet(Paid(trades), S)
           won == {i \in D : trades[i].pnl > 0}
           lost == {i \in D : trades[i].pnl < 0}
           even == {i \in D : trades[i].pnl = 0}
<1>1. /\ IsFiniteSet(D)
      /\ \A i \in D : Paid(trades)[i] = trades[i].pnl /\ trades[i].pnl \in Int
      /\ Pnl(trades) = total(D)
  BY TradesPay
<1>2. \A S \in SUBSET D : IsFiniteSet(S) /\ \A i \in S : Paid(trades)[i] \in Int
  <2> HIDE DEF D
  <2> QED  BY <1>1, FS_Subset
<1>3. won \in SUBSET D /\ lost \in SUBSET D /\ even \in SUBSET D
  OBVIOUS
<1>4. Wins(trades) = total(won)
  BY <1>3, ListedPay DEF Wins, Picked
<1>5. Losses(trades) = -total(lost)
  BY <1>3, ListedPay DEF Losses, Picked
<1>6. /\ won \cap lost = {} /\ (won \cup lost) \cap even = {}
      /\ (won \cup lost) \cup even = D
  <2> HIDE DEF D
  <2> QED  BY <1>1
<1>7. \A i \in lost : Paid(trades)[i] \in Int /\ Paid(trades)[i] <= 0
  BY <1>1
<1>8. \A i \in even : Paid(trades)[i] \in Int /\ Paid(trades)[i] <= 0 /\ Paid(trades)[i] \in Nat
  BY <1>1
<1> DEFINE paying == won \cup lost
<1>9. paying \in SUBSET D
  BY <1>3
<1> HIDE DEF won, lost, even, D
<1>10. total(paying) = total(won) + total(lost)
  <2>1. IsFiniteSet(won) /\ IsFiniteSet(lost) /\ \A x \in won \cup lost : Paid(trades)[x] \in Int
    BY <1>2, <1>3
  <2> QED  BY <1>6, <2>1, SumOfUnion
<1> HIDE DEF paying
<1>11. total(D) = total(paying) + total(even)
  <2>1. IsFiniteSet(paying) /\ IsFiniteSet(even) /\ \A x \in paying \cup even : Paid(trades)[x] \in Int
    BY <1>2, <1>3, <1>9
  <2>2. paying \cap even = {} /\ paying \cup even = D
    BY <1>6 DEF paying
  <2> QED  BY <2>1, <2>2, SumOfUnion
<1>12. total(lost) \in Int /\ total(lost) <= 0
  BY <1>2, <1>3, <1>7, SumNegative
<1>13. total(even) = 0
  <2>1. total(even) \in Int /\ total(even) <= 0
    BY <1>2, <1>3, <1>8, SumNegative
  <2>2. total(even) \in Nat
    BY <1>2, <1>3, <1>8, SumSign
  <2> QED  BY <2>1, <2>2
<1>14. total(won) \in Int
  BY <1>2, <1>3, SumType
<1> HIDE DEF total
<1> QED  BY <1>1, <1>4, <1>5, <1>10, <1>11, <1>12, <1>13, <1>14

LEMMA RatioAboveOne ==
  ASSUME NEW w \in Int, NEW l \in Nat, l # 0, RoundDown(100 * w, l) > 100
  PROVE  w > l
<1> DEFINE q == (100 * w) \div l
<1>1. q \in Int /\ q * l <= 100 * w /\ q > 100
  BY DEF RoundDown
<1>2. \A a, b \in Int : a > 100 /\ b > 0 => 100 * b < a * b
  OBVIOUS
<1> HIDE DEF q
<1>3. 100 * l < q * l
  BY <1>1, <1>2
<1>4. q * l \in Int
  BY <1>1
<1> QED  BY <1>1, <1>3, <1>4

(***************************************************************************)
(* The least profit factor asked of a row is more than one (1.1 without a  *)
(* "report:" block, verdicts.py:26).                                       *)
(***************************************************************************)
PayingThreshold == Thresholds.min_profit_factor \in Int /\ Thresholds.min_profit_factor > 100

LEMMA FactorMeansProfit ==
  ASSUME NEW trades, IsTrades(trades), PayingThreshold,
         ~(ProfitFactor(trades) < Thresholds.min_profit_factor)
  PROVE  Pnl(trades) > 0
<1>1. /\ Wins(trades) \in Int /\ Losses(trades) \in Nat
      /\ Pnl(trades) = Wins(trades) - Losses(trades)
  BY WinsAndLosses
<1>2. CASE Losses(trades) = 0
  <2>1. Wins(trades) > 0
    BY <1>2 DEF ProfitFactor, PayingThreshold
  <2> QED  BY <1>1, <1>2, <2>1
<1>3. CASE Losses(trades) # 0
  <2>1. ProfitFactor(trades) = RoundDown(100 * Wins(trades), Losses(trades))
    BY <1>3 DEF ProfitFactor
  <2>2. ProfitFactor(trades) \in Int
    BY <1>1, <1>3, <2>1 DEF RoundDown
  <2>3. RoundDown(100 * Wins(trades), Losses(trades)) > 100
    BY <2>1, <2>2 DEF PayingThreshold
  <2>4. Wins(trades) > Losses(trades)
    BY <1>1, <1>3, <2>3, RatioAboveOne
  <2> QED  BY <1>1, <2>4
<1> QED  BY <1>2, <1>3

LEMMA TwoListsPay ==
  ASSUME NEW T, NEW a \in Seq(T), NEW b \in Seq(T), IsTrades(a), IsTrades(b)
  PROVE  IsTrades(a \o b) /\ Pnl(a \o b) = Pnl(a) + Pnl(b)
<1> DEFINE c == a \o b
           m == Len(a)
           n == Len(b)
<1>1. /\ m \in Nat /\ n \in Nat /\ DOMAIN a = 1..m /\ DOMAIN b = 1..n
      /\ DOMAIN c = 1..(m + n)
  OBVIOUS
<1>2. /\ \A i \in 1..m : c[i] = a[i]
      /\ \A i \in 1..n : c[m + i] = b[i]
  <2>1. \A i \in 1..(m + n) : c[i] = IF i <= m THEN a[i] ELSE b[i - m]
    OBVIOUS
  <2> HIDE DEF c, m, n
  <2>2. \A i \in 1..m : i \in 1..(m + n) /\ i <= m
    BY <1>1
  <2>3. \A i \in 1..n : m + i \in 1..(m + n) /\ ~(m + i <= m) /\ (m + i) - m = i
    BY <1>1
  <2> QED  BY <2>1, <2>2, <2>3
<1> HIDE DEF c, m, n
<1>3. /\ \A i \in 1..m : Paid(a)[i] = a[i].pnl /\ a[i].pnl \in Int
      /\ \A i \in 1..n : Paid(b)[i] = b[i].pnl /\ b[i].pnl \in Int
      /\ Pnl(a) = SumFunctionOnSet(Paid(a), 1..m)
      /\ Pnl(b) = SumFunctionOnSet(Paid(b), 1..n)
  BY <1>1, TradesPay
<1>4. \A i \in 1..(m + n) : i \in 1..m \/ (i - m \in 1..n /\ m + (i - m) = i)
  BY <1>1
<1>5. IsTrades(c)
  <2>1. \A i \in 1..(m + n) : c[i].pnl \in Int
    BY <1>2, <1>3, <1>4
  <2>2. m + n \in Nat
    BY <1>1
  <2> QED  BY <1>1, <2>1, <2>2 DEF IsTrades
<1>6. /\ \A i \in 1..(m + n) : Paid(c)[i] = c[i].pnl
      /\ Pnl(c) = SumFunctionOnSet(Paid(c), 1..(m + n))
  BY <1>1, <1>5, TradesPay
<1>7. /\ \A i \in 1..m : i \in 1..(m + n)
      /\ \A i \in 1..n : m + i \in 1..(m + n)
  BY <1>1
<1>8. /\ \A i \in 1..m : Paid(c)[i] = Paid(a)[i] /\ Paid(a)[i] \in Int
      /\ \A i \in 1..n : Paid(c)[m + i] = Paid(b)[i] /\ Paid(b)[i] \in Int
  BY <1>2, <1>3, <1>6, <1>7
<1>9. SumFunctionOnSet(Paid(c), 1..(m + n))
        = SumFunctionOnSet(Paid(a), 1..m) + SumFunctionOnSet(Paid(b), 1..n)
  <2> DEFINE f == Paid(c)
             g == Paid(a)
             h == Paid(b)
  <2>1. /\ m \in Nat /\ n \in Nat
        /\ \A i \in 1..m : f[i] = g[i] /\ g[i] \in Int
        /\ \A i \in 1..n : f[m + i] = h[i] /\ h[i] \in Int
    BY <1>1, <1>8
  <2> HIDE DEF f, g, h
  <2>2. IsJoined(f, g, m, h, n)
    BY <2>1 DEF IsJoined
  <2>3. SumFunctionOnSet(f, 1..(m + n)) = SumFunctionOnSet(g, 1..m) + SumFunctionOnSet(h, 1..n)
    BY <1>1, <2>2, SumOfTwo
  <2> QED  BY <2>3 DEF f, g, h
<1> QED  BY <1>3, <1>5, <1>6, <1>9 DEF c

\* Whatever the trades are sorted by, the sorts make up the whole.
LEMMA BreakdownPays ==
  ASSUME NEW trades, IsTrades(trades), NEW key
  PROVE  LET h == Breakdown(trades, key)
         IN  /\ IsFiniteSet(DOMAIN h) /\ \A x \in DOMAIN h : h[x] \in Int
             /\ SumFunction(h) = Pnl(trades)
<1> DEFINE h == Breakdown(trades, key)
           D == DOMAIN trades
           X == {key[i] : i \in D}
           at(x) == {i \in D : key[i] = x}
           part(x) == [i \in at(x) |-> trades[i].pnl]
<1>1. /\ IsFiniteSet(D)
      /\ \A i \in D : Paid(trades)[i] = trades[i].pnl /\ Paid(trades)[i] \in Int
      /\ Pnl(trades) = SumFunctionOnSet(Paid(trades), D)
  BY TradesPay
<1>2. DOMAIN h = X /\ \A x \in X : h[x] = SumFunction(part(x))
  BY DEF Breakdown
<1> HIDE DEF h
<1>3. ASSUME NEW x \in X
      PROVE  SumFunction(part(x)) = SumFunctionOnSet(Paid(trades), at(x))
  <2>1. DOMAIN part(x) = at(x) /\ \A i \in at(x) : part(x)[i] = Paid(trades)[i]
    BY <1>1
  <2>2. IsFiniteSet(at(x))
    <3>1. at(x) \in SUBSET D
      OBVIOUS
    <3> HIDE DEF at, D
    <3> QED  BY <1>1, <3>1, FS_Subset
  <2> HIDE DEF part, at
  <2> QED  BY <2>1, <2>2, SumOfSame, SumOfFunction
<1>4. \A x \in X : h[x] = SumFunctionOnSet(Paid(trades), at(x))
  <2> HIDE DEF part, at, X
  <2> QED  BY <1>2, <1>3
<1>5. /\ SumFunctionOnSet(h, X) = SumFunctionOnSet(Paid(trades), D)
      /\ IsFiniteSet(X) /\ \A x \in X : h[x] \in Int
  <2> DEFINE f == Paid(trades)
  <2> HIDE DEF f, D
  <2> QED  BY <1>1, <1>4, SumByKey DEF f
<1> HIDE DEF X
<1> QED  BY <1>1, <1>2, <1>5, SumOfFunction DEF h

RankedReturns(f) == LET ranked == Ranked(f) IN [i \in DOMAIN ranked |-> f[ranked[i]]]

LEMMA RankedPays ==
  ASSUME NEW f, IsFiniteSet(DOMAIN f), \A x \in DOMAIN f : f[x] \in Int
  PROVE  SumFunction(RankedReturns(f)) = SumFunction(f)
<1> DEFINE D == DOMAIN f
           m == Cardinality(D)
           s == Ranked(f)
           g == [i \in DOMAIN s |-> f[s[i]]]
           Sorted(q) == \A i, j \in DOMAIN q : i < j => q[i] # q[j] /\ f[q[i]] >= f[q[j]]
<1>1. \E q \in [1..m -> D] : Sorted(q)
  <2>1. PICK q : IsRanking(f, D, q)
    BY HasRanking
  <2>2. q \in [1..m -> D] /\ DOMAIN q = 1..m
    BY <2>1 DEF IsRanking
  <2>3. Sorted(q)
    BY <2>1, <2>2 DEF IsRanking
  <2> QED  BY <2>2, <2>3
<1>2. s \in [1..m -> D] /\ Sorted(s)
  <2>1. s = CHOOSE q \in [1..m -> D] : Sorted(q)
    BY DEF Ranked
  <2> HIDE DEF s, Sorted
  <2> QED  BY <1>1, <2>1
<1>3. g = RankedReturns(f)
  BY DEF RankedReturns
<1> HIDE DEF s
<1>4. m \in Nat /\ IsFiniteSet(1..m) /\ Cardinality(1..m) = m
  <2>1. m \in Nat
    BY FS_CardinalityType
  <2> HIDE DEF m
  <2> QED  BY <2>1, FS_Interval
<1>5. DOMAIN s = 1..m /\ \A i \in 1..m : s[i] \in D
  BY <1>2
<1>6. \A i, j \in 1..m : s[i] = s[j] => i = j
  <2>1. \A i, j \in 1..m : i < j => s[i] # s[j]
    BY <1>2, <1>5
  <2>2. \A i, j \in 1..m : i < j \/ j < i \/ i = j
    BY <1>4
  <2> HIDE DEF m
  <2> QED  BY <2>1, <2>2
<1>7. {s[i] : i \in 1..m} = D
  <2> HIDE DEF m, D
  <2>1. s \in Injection(1..m, D)
    BY <1>2, <1>6 DEF Injection, IsInjective
  <2>2. s \in Surjection(1..m, D)
    BY <1>4, <2>1, FS_Injection DEF m, D
  <2> QED  BY <1>5, <2>2 DEF Surjection
<1>8. \A i \in 1..m : g[i] = f[s[i]] /\ f[s[i]] \in Int
  BY <1>5
<1>9. DOMAIN g = 1..m
  BY <1>5
<1> HIDE DEF g
<1>10. SumFunctionOnSet(g, 1..m) = SumFunctionOnSet(f, {s[i] : i \in 1..m})
  <2> DEFINE S == 1..m
  <2>1. /\ IsFiniteSet(S) /\ \A x, y \in S : s[x] = s[y] => x = y
        /\ \A x \in S : g[x] = f[s[x]] /\ f[s[x]] \in Int
    BY <1>4, <1>6, <1>8
  <2> HIDE DEF S
  <2>2. SumFunctionOnSet(g, S) = SumFunctionOnSet(f, {s[x] : x \in S})
    BY <2>1, SumMoves
  <2> QED  BY <2>2 DEF S
<1> QED  BY <1>3, <1>7, <1>9, <1>10, SumOfFunction

-----------------------------------------------------------------------------
(* What a row says. *)

PayInv ==
  /\ IsTrades(pool)
  /\ \A k \in DOMAIN folds : folds[k].oos_return_pct \in Int
  /\ SumFunction(Returns) = Pnl(pool)
  /\ row # None => /\ row.profit_factor = ProfitFactor(pool)
                   /\ row.instrument_returns = RankedReturns(ByInstrument)

LEMMA NothingPays ==
  /\ IsTrades(<<>>) /\ Pnl(<<>>) = 0
  /\ \A f : DOMAIN f = {} => SumFunction(f) = 0
<1>1. DOMAIN <<>> = 1..0 /\ 1..0 = {} /\ 0 \in Nat
  OBVIOUS
<1>2. IsTrades(<<>>) /\ DOMAIN <<>> = {}
  BY <1>1 DEF IsTrades
<1>3. \A f : SumFunctionOnSet(f, {}) = 0
  <2>1. IsFiniteSet({})
    BY FS_EmptySet
  <2> QED  BY <2>1, SumUnfolds
<1>4. Pnl(<<>>) = 0
  BY <1>2, <1>3, TradesPay
<1> QED  BY <1>2, <1>3, <1>4, SumOfFunction

LEMMA StudyInitPays == folds = <<>> /\ pool = <<>> /\ row = None => PayInv
<1> SUFFICES ASSUME folds = <<>>, pool = <<>>, row = None
             PROVE  PayInv
  OBVIOUS
<1>1. DOMAIN folds = {} /\ DOMAIN Returns = {}
  BY DEF Returns
<1> QED  BY <1>1, NothingPays DEF PayInv

LEMMA StudyNextPays ==
  ASSUME TradesOfSlice, StudyInv, TestedInv, PayInv, [StudyNext]_studyVars
  PROVE  PayInv'
<1>1. CASE RunFold
  <2> DEFINE n == Len(folds)
             tested == OosTrades(data, n)
             R == {tested[i] : i \in DOMAIN tested}
             T == AnyTrade(data) \cup R
             last == Fold(data, n)
  <2>1. /\ data # None /\ row' = None
        /\ folds' = Append(folds, last)
        /\ pool' = pool \o tested
    BY <1>1 DEF RunFold
  <2>2. /\ n \in Nat /\ DOMAIN folds = 1..n /\ DOMAIN folds' = 1..(n + 1)
        /\ \A k \in 1..n : folds'[k] = folds[k]
        /\ folds'[n + 1] = last
    <3> DEFINE Folds == {Fold(data, k) : k \in Nat} \cup {last}
    <3>1. folds \in Seq({Fold(data, k) : k \in Nat})
      BY DEF StudyInv
    <3>2. folds \in Seq(Folds) /\ last \in Folds
      <4> DEFINE A == {Fold(data, k) : k \in Nat}
      <4>1. folds \in Seq(A)
        BY <3>1
      <4> HIDE DEF A, last
      <4> QED  BY <4>1 DEF A
    <3> HIDE DEF Folds, last
    <3> QED  BY <2>1, <3>2
  <2>3. IsData(data) /\ pool \in Seq(AnyTrade(data))
    BY <2>1 DEF TestedInv
  <2>4. /\ tested \in Seq(R)
        /\ \A i \in DOMAIN tested : tested[i].pnl \in Int
    BY <2>3, TestedTrades
  <2>5. IsTrades(tested)
    <3> HIDE DEF R, tested
    <3>1. Len(tested) \in Nat /\ DOMAIN tested = 1..Len(tested)
      BY <2>4
    <3> QED  BY <2>4, <3>1 DEF IsTrades
  <2>6. pool \in Seq(T) /\ tested \in Seq(T)
    <3> DEFINE A == AnyTrade(data)
    <3>1. pool \in Seq(A) /\ tested \in Seq(R) /\ A \subseteq T /\ R \subseteq T
      BY <2>3, <2>4
    <3> HIDE DEF A, R, T, tested
    <3> QED  BY <3>1
  <2>7. IsTrades(pool') /\ Pnl(pool') = Pnl(pool) + Pnl(tested)
    <3> HIDE DEF T, tested
    <3> QED  BY <2>1, <2>5, <2>6, TwoListsPay DEF PayInv
  <2>8. last.oos_return_pct = Pnl(tested) /\ Pnl(tested) \in Int
    <3>1. last.oos_return_pct = Pnl(tested)
      BY DEF Fold
    <3> HIDE DEF last, tested
    <3> QED  BY <2>5, <3>1, TradesPay
  <2> HIDE DEF last, tested, n
  <2>9. /\ DOMAIN Returns = 1..n /\ DOMAIN Returns' = 1..(n + 1)
        /\ \A k \in 1..n : Returns[k] = folds[k].oos_return_pct /\ Returns'[k] = Returns[k]
        /\ Returns'[n + 1] = Pnl(tested)
        /\ n + 1 \in 1..(n + 1) /\ \A k \in 1..n : k \in 1..(n + 1)
    BY <2>2, <2>8 DEF Returns
  <2>10. \A k \in DOMAIN folds' : /\ folds'[k].oos_return_pct \in Int
                                  /\ Returns'[k] \in Int
    <3>1. \A k \in 1..(n + 1) : k \in 1..n \/ k = n + 1
      BY <2>2
    <3> QED  BY <2>2, <2>8, <2>9, <3>1 DEF PayInv
  <2>11. SumFunction(Returns') = Pnl(pool')
    <3> DEFINE f == Returns'
               g == Returns
    <3> HIDE DEF f, g
    <3>1. IsFiniteSet(1..(n + 1)) /\ IsFiniteSet(1..n)
      <4>1. n \in Int /\ n + 1 \in Int /\ 1 \in Int
        BY <2>2
      <4> QED  BY <4>1, FS_Interval
    <3>2. SumFunctionOnSet(f, 1..(n + 1)) = f[n + 1] + SumFunctionOnSet(f, 1..n)
      <4>1. (1..(n + 1)) \ {n + 1} = 1..n
        BY <2>2
      <4>2. \A k \in 1..(n + 1) : f[k] \in Int
        BY <2>2, <2>10 DEF f
      <4>3. n + 1 \in 1..(n + 1)
        BY <2>9
      <4>4. SumFunctionOnSet(f, 1..(n + 1)) = f[n + 1] + SumFunctionOnSet(f, (1..(n + 1)) \ {n + 1})
        BY <3>1, <4>2, <4>3, SumTakesOut
      <4> QED  BY <4>1, <4>4
    <3>3. SumFunctionOnSet(f, 1..n) = SumFunctionOnSet(g, 1..n)
      BY <3>1, <2>9, SumOfSame DEF f, g
    <3>4. /\ SumFunction(f) = SumFunctionOnSet(f, 1..(n + 1))
          /\ SumFunction(g) = SumFunctionOnSet(g, 1..n)
      BY <2>9, SumOfFunction DEF f, g
    <3>5. SumFunction(g) = Pnl(pool) /\ Pnl(pool) \in Int
      BY TradesPay DEF PayInv, g
    <3>6. f[n + 1] = Pnl(tested)
      BY <2>9 DEF f
    <3>7. SumFunction(f) = Pnl(pool')
      <4>1. SumFunction(f) = Pnl(tested) + Pnl(pool)
        BY <3>2, <3>3, <3>4, <3>5, <3>6
      <4>2. Pnl(pool') = Pnl(pool) + Pnl(tested) /\ Pnl(pool) \in Int /\ Pnl(tested) \in Int
        BY <2>7, <2>8, <3>5
      <4> QED  BY <4>1, <4>2
    <3> QED  BY <3>7 DEF f
  <2> QED  BY <2>1, <2>7, <2>10, <2>11 DEF PayInv
<1>2. CASE Summarize
  <2>1. row' = BuildRow /\ UNCHANGED <<folds, pool>>
    BY <1>2 DEF Summarize
  <2>2. /\ BuildRow.profit_factor = ProfitFactor(pool)
        /\ BuildRow.instrument_returns = RankedReturns(ByInstrument)
    BY DEF BuildRow, RankedReturns
  <2>3. Returns' = Returns /\ ByInstrument' = ByInstrument
    BY <2>1 DEF Returns, ByInstrument
  <2> QED  BY <2>1, <2>2, <2>3 DEF PayInv
<1>3. CASE UNCHANGED <<folds, pool, row>>
  <2>1. Returns' = Returns /\ ByInstrument' = ByInstrument
    BY <1>3 DEF Returns, ByInstrument
  <2> QED  BY <1>3, <2>1 DEF PayInv
<1>4. CASE HoldoutTest
  BY <1>3, <1>4 DEF HoldoutTest
<1>5. CASE StudyEnds
  <2>1. folds' = <<>> /\ pool' = <<>> /\ row' = None
    BY <1>5 DEF StudyEnds
  <2>2. DOMAIN folds' = {} /\ DOMAIN Returns' = {}
    BY <2>1 DEF Returns
  <2> QED  BY <2>1, <2>2, NothingPays DEF PayInv
<1>6. CASE UNCHANGED studyVars
  BY <1>3, <1>6 DEF studyVars
<1> QED  BY <1>1, <1>2, <1>4, <1>5, <1>6 DEF StudyNext

LEMMA InvPays ==
  ASSUME PayInv, PayingThreshold
  PROVE  PassedMeansProfit
<1>1. IsTrades(pool) /\ SumFunction(Returns) = Pnl(pool)
  BY DEF PayInv
<1>2. /\ IsFiniteSet(DOMAIN ByInstrument) /\ \A e \in DOMAIN ByInstrument : ByInstrument[e] \in Int
      /\ SumFunction(ByInstrument) = Pnl(pool)
  BY <1>1, BreakdownPays DEF ByInstrument
<1>3. SumFunction(ByPeriod) = Pnl(pool)
  BY <1>1, BreakdownPays DEF ByPeriod
<1>4. ASSUME row # None
      PROVE  SumFunction(row.instrument_returns) = Pnl(pool)
  <2>1. row.instrument_returns = RankedReturns(ByInstrument)
    BY <1>4 DEF PayInv
  <2> QED  BY <1>2, <2>1, RankedPays
<1>5. ASSUME row # None, Passed(row)
      PROVE  Pnl(pool) > 0
  <2>1. row.profit_factor = ProfitFactor(pool)
    BY <1>5 DEF PayInv
  <2>2. ~(row.profit_factor < Thresholds.min_profit_factor)
    <3>1. /\ "profit_factor" \in DOMAIN Broken(row)
          /\ Broken(row)["profit_factor"] = (row.profit_factor < Thresholds.min_profit_factor)
      BY DEF Broken
    <3> QED  BY <1>5, <3>1 DEF Passed, FailedRules
  <2> QED  BY <1>1, <2>1, <2>2, FactorMeansProfit
<1> QED  BY <1>1, <1>3, <1>4, <1>5 DEF PassedMeansProfit

(***************************************************************************)
(* The trades of a row that passes the screen have a profit in sum, each   *)
(* as Trade.pnl records it, without the commission of its entry            *)
(* (backtest/portfolio.py:56, 73-74), and its instruments, months and      *)
(* folds account for the same trades: for any data, grid, windows and      *)
(* backtest, and any thresholds that ask for a profit factor above one     *)
(* (research/walkforward.py:553-574, research/verdicts.py:109).            *)
(***************************************************************************)
THEOREM PassingPays ==
  ASSUME TradesOfSlice, PayingThreshold
  PROVE  StudySpec => []PassedMeansProfit
<1> DEFINE I == StudyInv /\ TestedInv /\ PayInv
<1>1. StudyInit => I
  <2>1. StudyInit => PayInv
    BY StudyInitPays DEF StudyInit
  <2> QED  BY <2>1, StudyInitInv, StudyInitTested
<1>2. I /\ [StudyNext]_studyVars => I'
  BY StudyNextInv, StudyNextTested, StudyNextPays
<1>3. I => PassedMeansProfit
  BY InvPays
<1> QED  BY <1>1, <1>2, <1>3, PTL DEF StudySpec

-----------------------------------------------------------------------------
(* The composition. *)

ResearchInv ==
  /\ Over \/ (DownloadInv /\ NoStudy)
  /\ StudyInv /\ TestedInv /\ PayInv

LEMMA NothingStudied ==
  ASSUME folds = <<>>, pool = <<>>, held = None, data # None => IsData(data)
  PROVE  StudyInv /\ TestedInv
<1>1. \A S : <<>> \in Seq(S)
  OBVIOUS
<1>2. /\ folds \in Seq({Fold(data, k) : k \in Nat}) /\ pool \in Seq(AnyTrade(data))
      /\ DOMAIN folds = {} /\ DOMAIN pool = {}
  BY <1>1
<1> QED  BY <1>2 DEF StudyInv, TestedInv

LEMMA ResearchInitInv == ResearchInit => ResearchInv
<1> SUFFICES ASSUME ResearchInit
             PROVE  ResearchInv
  OBVIOUS
<1>1. DownloadInv
  BY DownloadInitInv DEF ResearchInit
<1>2. NoStudy
  BY DEF ResearchInit
<1>3. StudyInv /\ TestedInv /\ PayInv
  BY <1>2, NothingStudied, StudyInitPays DEF NoStudy
<1> QED  BY <1>1, <1>2, <1>3 DEF ResearchInv

\* What is stored and complete enough to be loaded is data for a study.
LEMMA StoredIsData ==
  ASSUME DownloadInv, AllStored
  PROVE  IsData(files)
<1>1. \A e \in DOMAIN files : IsSeries(files[e])
  BY DEF DownloadInv, FilesOK, AllStored
<1>2. DOMAIN files = 1..Len(market) /\ Len(market) \in Int
  BY DEF DownloadInv, FilesOK, IsMarket
<1>3. IsFiniteSet(1..Len(market))
  BY <1>2, FS_Interval
<1> QED  BY <1>1, <1>2, <1>3 DEF IsData

LEMMA ResearchNextInv ==
  ASSUME TradesOfSlice, ResearchInv, [ResearchNext]_<<vars, studyVars, downloadVars>>
  PROVE  ResearchInv'
<1>1. ASSUME UNCHANGED studyVars
      PROVE  /\ StudyInv' /\ TestedInv' /\ PayInv'
             /\ NoStudy => NoStudy'
  <2>1. StudyInv /\ TestedInv /\ PayInv
    BY DEF ResearchInv
  <2>2. StudyInv'
    BY <1>1, <2>1, StudyNextInv
  <2>3. TestedInv'
    BY <1>1, <2>1, StudyNextTested
  <2>4. PayInv'
    BY <1>1, <2>1, StudyNextPays
  <2> QED  BY <1>1, <2>2, <2>3, <2>4 DEF studyVars, NoStudy
<1>2. CASE ~Over /\ DownloadNext /\ UNCHANGED <<vars, studyVars>>
  <2>1. DownloadInv' /\ NoStudy'
    BY <1>1, <1>2, DownloadNextInv DEF ResearchInv
  <2> QED  BY <1>1, <1>2, <2>1 DEF ResearchInv
<1>3. CASE StudyLoads
  <2>1. Over'
    BY <1>3 DEF StudyLoads, Over
  <2>2. DownloadInv /\ NoStudy /\ AllStored
    BY <1>3 DEF StudyLoads, ResearchInv
  <2>3. folds' = <<>> /\ pool' = <<>> /\ held' = None /\ data' = files
    BY <1>3, <2>2 DEF StudyLoads, NoStudy
  <2>4. IsData(data')
    BY <2>2, <2>3, StoredIsData
  <2>5. \A S : <<>> \in Seq(S)
    OBVIOUS
  <2>6. /\ folds' \in Seq({Fold(data', k) : k \in Nat}) /\ pool' \in Seq(AnyTrade(data'))
        /\ DOMAIN folds' = {} /\ DOMAIN pool' = {}
    BY <2>3, <2>5
  <2>7. StudyInv' /\ TestedInv'
    BY <2>3, <2>4, <2>6 DEF StudyInv, TestedInv
  <2>8. PayInv'
    <3>1. UNCHANGED <<folds, pool, row>> /\ PayInv
      BY <1>3, <2>2 DEF StudyLoads, ResearchInv
    <3>2. Returns' = Returns /\ ByInstrument' = ByInstrument
      BY <3>1 DEF Returns, ByInstrument
    <3> QED  BY <3>1, <3>2 DEF PayInv
  <2> QED  BY <2>1, <2>7, <2>8 DEF ResearchInv
<1>4. CASE StudyNext /\ UNCHANGED <<vars, downloadVars>>
  <2>1. data # None
    BY <1>4 DEF StudyNext, RunFold, Summarize, HoldoutTest, StudyEnds
  <2>2. Over /\ fetch' = fetch
    BY <1>4, <2>1 DEF ResearchInv, NoStudy, downloadVars
  <2>3. StudyInv' /\ TestedInv' /\ PayInv'
    BY <1>4, StudyNextInv, StudyNextTested, StudyNextPays DEF ResearchInv
  <2> QED  BY <2>2, <2>3 DEF ResearchInv, Over
<1>5. CASE Over /\ data = None /\ Next /\ UNCHANGED <<studyVars, downloadVars>>
  <2>1. Over'
    BY <1>5 DEF Over, downloadVars
  <2> QED  BY <1>1, <1>5, <2>1 DEF ResearchInv
<1>6. CASE UNCHANGED <<vars, studyVars, downloadVars>>
  <2>1. Over => Over'
    BY <1>6 DEF Over, downloadVars
  <2>2. DownloadInv => DownloadInv'
    BY <1>6, DownloadNextInv
  <2> QED  BY <1>1, <1>6, <2>1, <2>2 DEF ResearchInv
<1> QED
  BY <1>2, <1>3, <1>4, <1>5, <1>6 DEF ResearchNext

(***************************************************************************)
(* The composition of download, study and registry keeps what each of them *)
(* promises: its commands are those of the registry, what it saves are the *)
(* ends of histories, and no study of what it stored, whole files or the   *)
(* first rows of torn ones, looks ahead, counts a bar twice or passes on   *)
(* trades whose recorded results add up to a loss.                         *)
(***************************************************************************)
THEOREM ResearchIsAll ==
  ASSUME TradesOfSlice, PayingThreshold
  PROVE  ResearchSpec =>
           Spec /\ SavedIsTail /\ [](NoLookAhead /\ TestedOnce /\ PassedMeansProfit)
<1>1. ResearchSpec => []ResearchInv
  BY ResearchInitInv, ResearchNextInv, PTL DEF ResearchSpec
<1>2. ResearchInv => NoLookAhead /\ TestedOnce /\ PassedMeansProfit
  BY InvBlind, InvTestedOnce, InvPays DEF ResearchInv
<1>3. ResearchInit => Init
  BY DEF ResearchInit
<1>4. [ResearchNext]_<<vars, studyVars, downloadVars>> => [Next]_vars
  BY DEF ResearchNext, StudyLoads
<1>5. ResearchInv /\ [ResearchNext]_<<vars, studyVars, downloadVars>> =>
        [fetch.pc = "write" /\ fetch'.pc \in {"page", "idle"} =>
           files'[fetch.epic] = EndOf(fetch.epic, fetch.asOf, fetch.total)]_downloadVars
  <2> SUFFICES ASSUME ResearchInv, ResearchNext, fetch.pc = "write",
                      fetch'.pc \in {"page", "idle"}, ~(UNCHANGED downloadVars)
               PROVE  files'[fetch.epic] = EndOf(fetch.epic, fetch.asOf, fetch.total)
    BY DEF downloadVars
  <2>1. ~StudyLoads
    BY DEF StudyLoads
  <2>2. ~Over /\ DownloadNext /\ DownloadInv
    BY <2>1 DEF ResearchNext, ResearchInv
  <2>3. SaveWrites \/ Tick
    BY <2>2 DEF DownloadNext, DownloadStarts, Page, DownloadFails, SaveOpens, SaveTorn
  <2>4. ~Tick
    BY DEF Tick
  <2> QED  BY <2>2, <2>3, <2>4, SaveIsTail
<1> QED
  BY <1>1, <1>2, <1>3, <1>4, <1>5, PTL DEF ResearchSpec, Spec, SavedIsTail

=============================================================================
