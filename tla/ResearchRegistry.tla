-------------------------- MODULE ResearchRegistry --------------------------
(***************************************************************************)
(* The research registry (forex_bot/research/registry.py), the commands    *)
(* that record into it (report, holdout and registry of forex_bot/cli.py)  *)
(* and the launch gate of cmd_run.  Each command loads the whole ledger,   *)
(* changes it in memory and writes the whole file back: report loads it    *)
(* before its walk-forward runs, holdout after its test.  The file is      *)
(* truncated first and written then; nothing keeps commands apart.         *)
(*                                                                         *)
(* An idea is a strategy at a setup, the key of an entry; notes and dates  *)
(* are left out.                                                           *)
(***************************************************************************)
EXTENDS Verdicts

CONSTANTS
  Ideas,            \* the keys, _entry_id(strategy, setup); None is no entry
  Procs,            \* the operator's terminals
  NoFile, EmptyFile, Garbled, \* the file is missing, truncated, half written
  ScreenRows,       \* the walk-forward rows a screen may end in
  HoldoutMeasures,  \* the results a holdout may end in
  OneAtATime        \* recording commands do not overlap

ASSUME RegistryAssumption ==
  /\ None \notin {"candidate", "screen-fail", "holdout-fail", "holdout-pass",
                  "forward-test", "live", "retired"}
  /\ NoFile # EmptyFile /\ NoFile # Garbled /\ EmptyFile # Garbled
  /\ OneAtATime \in BOOLEAN

VARIABLES
  file,     \* the contents of registry.json
  pc,       \* what each terminal runs
  job,      \* what its command records for, the ideas, a holdout's verdict
  mem,      \* its ResearchRegistry object
  base,     \* auxiliary: the file as it was before the last truncation
  running   \* how an engine on each idea was started, if one runs

vars == <<file, pc, job, mem, base, running>>

STATUSES == {"candidate", "screen-fail", "holdout-fail", "holdout-pass",
             "forward-test", "live", "retired"}
FROZEN_STATUSES == {"holdout-fail", "retired"}
ALLOWED_LAUNCH_STATUSES == {"candidate", "holdout-pass", "forward-test", "live"}

Ledgers == [Ideas -> STATUSES \cup {None}]
NoEntries == [i \in Ideas |-> None]
Files == Ledgers \cup {NoFile, EmptyFile, Garbled}

ASSUME FileAssumption == {NoFile, EmptyFile, Garbled} \cap Ledgers = {}

\* load raises on a half-written file; a missing or empty one has no entries.
Loadable(f) == f # Garbled
Load(f) == IF f \in {NoFile, EmptyFile} THEN NoEntries ELSE f

NoJob == [by |-> "none", ideas |-> {}, status |-> None]

TypeOK ==
  /\ file \in Files
  /\ pc \in [Procs -> {"idle", "report", "holdout", "save", "write"}]
  /\ job \in [Procs -> [by : {"none", "screen", "holdout", "operator"},
                       ideas : SUBSET Ideas, status : STATUSES \cup {None}]]
  /\ mem \in [Procs -> Ledgers]
  /\ base \in Files
  /\ running \in [Ideas -> {"no", "gated", "forced"}]

Init ==
  /\ file = NoFile
  /\ pc = [p \in Procs |-> "idle"]
  /\ job = [p \in Procs |-> NoJob]
  /\ mem = [p \in Procs |-> NoEntries]
  /\ base = NoFile
  /\ running = [i \in Ideas |-> "no"]

GoTo(p, label) == pc' = [pc EXCEPT ![p] = label]

MayStart(p) ==
  /\ pc[p] = "idle"
  /\ OneAtATime => \A q \in Procs : pc[q] = "idle"

\* The command ends; its objects are gone.
End(p) ==
  /\ GoTo(p, "idle")
  /\ job' = [job EXCEPT ![p] = NoJob]
  /\ mem' = [mem EXCEPT ![p] = NoEntries]

\* Mutant: the screen overwrites like everybody else.
SetStatusAlways(old, status, allow_overwrite_frozen) == status

SetStatus(old, status, allow_overwrite_frozen) ==
  IF old \in FROZEN_STATUSES /\ ~allow_overwrite_frozen THEN old ELSE status

----------------------------------------------------------------------------
\* report

\* cmd_report loads the ledger and chooses its strategies.
ReportStarts(p, names, skip_frozen) ==
  /\ MayStart(p)
  /\ Loadable(file)
  /\ LET loaded == Load(file)
         kept == {i \in names : ~(skip_frozen /\ loaded[i] \in FROZEN_STATUSES)}
     IN /\ mem' = [mem EXCEPT ![p] = loaded]
        /\ job' = [job EXCEPT ![p] = [by |-> "screen", ideas |-> kept, status |-> None]]
  /\ GoTo(p, "report")
  /\ UNCHANGED <<file, base, running>>

\* Strategies without a grid or enough data are skipped; no row, or no
\* --record, and nothing is recorded.
ReportEnds(p) ==
  /\ pc[p] = "report"
  /\ End(p)
  /\ UNCHANGED <<file, base, running>>

ReportRecords(p, evaluated, row) ==
  /\ pc[p] = "report"
  /\ evaluated # {} /\ evaluated \subseteq job[p].ideas
  /\ mem' = [mem EXCEPT ![p] =
       [i \in Ideas |->
          IF i \in evaluated
            THEN SetStatus(mem[p][i],
                           IF Passed(row[i]) THEN "candidate" ELSE "screen-fail",
                           FALSE)
            ELSE mem[p][i]]]
  /\ GoTo(p, "save")
  /\ UNCHANGED <<file, job, base, running>>

----------------------------------------------------------------------------
\* holdout and registry

\* cmd_holdout tests first; no guard asks whether the idea is frozen.
HoldoutTests(p, i, measure) ==
  /\ MayStart(p)
  /\ job' = [job EXCEPT ![p] = [by |-> "holdout", ideas |-> {i},
                                status |-> ClassifyHoldout(measure)]]
  /\ GoTo(p, "holdout")
  /\ UNCHANGED <<file, mem, base, running>>

HoldoutRecords(p) ==
  /\ pc[p] = "holdout"
  /\ Loadable(file)
  /\ mem' = [mem EXCEPT ![p] =
       [i \in Ideas |-> IF i \in job[p].ideas
                          THEN SetStatus(Load(file)[i], job[p].status, TRUE)
                          ELSE Load(file)[i]]]
  /\ GoTo(p, "save")
  /\ UNCHANGED <<file, job, base, running>>

\* load raises, or the command was given no --record.
HoldoutEnds(p) ==
  /\ pc[p] = "holdout"
  /\ End(p)
  /\ UNCHANGED <<file, base, running>>

\* cmd_registry --status
OperatorSets(p, i, status) ==
  /\ MayStart(p)
  /\ Loadable(file)
  /\ job' = [job EXCEPT ![p] = [by |-> "operator", ideas |-> {i}, status |-> status]]
  /\ mem' = [mem EXCEPT ![p] =
       [Load(file) EXCEPT ![i] = SetStatus(Load(file)[i], status, TRUE)]]
  /\ GoTo(p, "save")
  /\ UNCHANGED <<file, base, running>>

----------------------------------------------------------------------------
\* save: write_text opens for writing, which truncates, and writes.

Truncate(p) ==
  /\ pc[p] = "save"
  /\ base' = IF file = EmptyFile /\ \E q \in Procs : pc[q] = "write"
               THEN base ELSE file
  /\ file' = EmptyFile
  /\ GoTo(p, "write")
  /\ UNCHANGED <<job, mem, running>>

\* Over what another command wrote in between, a shorter text leaves a tail.
Write(p) ==
  /\ pc[p] = "write"
  /\ file' \in IF file = EmptyFile THEN {mem[p]} ELSE {mem[p], Garbled}
  /\ End(p)
  /\ UNCHANGED <<base, running>>

Crash(p) ==
  /\ pc[p] # "idle"
  /\ End(p)
  /\ file' \in IF pc[p] = "write" THEN {file, Garbled} ELSE {file}
  /\ UNCHANGED <<base, running>>

----------------------------------------------------------------------------
\* the launch gate

\* _frozen_setup_check: a registry that cannot be read is skipped, an idea
\* without an entry is allowed.
GateOpen(i) ==
  Loadable(file) => Load(file)[i] \in ALLOWED_LAUNCH_STATUSES \cup {None}

\* A launch between truncation and write is kept apart like a command.
Launch(i) ==
  /\ OneAtATime => \A q \in Procs : pc[q] # "write"
  /\ running[i] = "no"
  /\ GateOpen(i)
  /\ running' = [running EXCEPT ![i] = "gated"]
  /\ UNCHANGED <<file, pc, job, mem, base>>

\* --force overrides a closed gate.
ForceLaunch(i) ==
  /\ running[i] = "no"
  /\ ~GateOpen(i)
  /\ running' = [running EXCEPT ![i] = "forced"]
  /\ UNCHANGED <<file, pc, job, mem, base>>

EngineExits(i) ==
  /\ running[i] # "no"
  /\ running' = [running EXCEPT ![i] = "no"]
  /\ UNCHANGED <<file, pc, job, mem, base>>

----------------------------------------------------------------------------

Next ==
  \/ \E p \in Procs :
       \/ \E names \in SUBSET Ideas, skip_frozen \in BOOLEAN :
            ReportStarts(p, names, skip_frozen)
       \/ ReportEnds(p)
       \/ \E evaluated \in SUBSET Ideas, row \in [Ideas -> ScreenRows] :
            ReportRecords(p, evaluated, row)
       \/ \E i \in Ideas, measure \in HoldoutMeasures : HoldoutTests(p, i, measure)
       \/ HoldoutRecords(p) \/ HoldoutEnds(p)
       \/ \E i \in Ideas, status \in STATUSES : OperatorSets(p, i, status)
       \/ Truncate(p) \/ Write(p) \/ Crash(p)
  \/ \E i \in Ideas : Launch(i) \/ ForceLaunch(i) \/ EngineExits(i)

Spec == Init /\ [][Next]_vars

----------------------------------------------------------------------------

\* The ledger the file stands for; during a save, the one before it.
Recorded ==
  IF \E p \in Procs : pc[p] = "write" THEN Load(base)
  ELSE IF Loadable(file) THEN Load(file) ELSE Garbled

Ledger == INSTANCE ResearchLedger
            WITH ledger <- Recorded,
                 task <- [p \in Procs |-> job[p].by],
                 saving <- {p \in Procs : pc[p] = "write"},
                 Unreadable <- Garbled

(***************************************************************************)
(* With recording commands one at a time, the registry is the atomic       *)
(* ledger: a recorded status changes only by the one write of a command,   *)
(* and is lost only where a save is cut short; a screen reopens no frozen  *)
(* idea, only a holdout of it or the operator does; and no engine passes   *)
(* the gate on an idea that a ledger it can read rejects.                  *)
(***************************************************************************)
LedgerRefined == Ledger!Spec

(***************************************************************************)
(* registry.py:151-152, "a screen pass cannot silently re-open a           *)
(* holdout-fail": no save of a report changes an entry that was frozen in  *)
(* the file it replaces.  Commands that overlap break it.                  *)
(***************************************************************************)
ScreenKeepsFrozen ==
  [][\A p \in Procs :
       (Write(p) /\ job[p].by = "screen" /\ Loadable(base)) =>
         \A i \in Ideas : Load(base)[i] \in FROZEN_STATUSES
                            => mem[p][i] = Load(base)[i]]_vars

(***************************************************************************)
(* registry.py:21-22, frozen setups "stop you from accidentally re-opening *)
(* a spent idea": no recorded holdout makes a frozen idea launchable.      *)
(***************************************************************************)
HoldoutKeepsFrozen ==
  [][\A p \in Procs, i \in Ideas :
       (HoldoutRecords(p) /\ i \in job[p].ideas
          /\ Load(file)[i] \in FROZEN_STATUSES)
         => mem'[p][i] \notin ALLOWED_LAUNCH_STATUSES]_vars

(***************************************************************************)
(* registry.py, "committed ... shared and durable": a launch through the   *)
(* gate is of an idea that the last complete ledger does not reject.       *)
(***************************************************************************)
GateSeesTheLedger ==
  [][\A i \in Ideas :
       (Launch(i) /\ Loadable(base)) =>
         \/ Loadable(file) /\ file \notin {NoFile, EmptyFile}
         \/ Load(base)[i] \in ALLOWED_LAUNCH_STATUSES \cup {None}]_vars
=============================================================================
