--------------------------- MODULE ResearchLedger ---------------------------
(***************************************************************************)
(* What the research registry promises, as an atomic ledger.  A command    *)
(* records for a screen, for a holdout or for the operator, and changes    *)
(* the ledger once, at the end of its save.  A screen never reopens a      *)
(* frozen idea; a holdout sets one idea to one of its verdicts, the        *)
(* operator one idea to any status.  An engine starts without --force only *)
(* on an idea that is launchable or was never recorded.  An idea is a      *)
(* strategy at a market setup.                                             *)
(*                                                                         *)
(* The one weakness the code accepts is explicit: a save that is cut short *)
(* loses the ledger, and a ledger that cannot be read gates nothing.       *)
(* Nothing else loses a status.                                            *)
(***************************************************************************)
CONSTANTS Ideas, Procs, None, Unreadable

VARIABLES
  ledger,   \* the status of every idea, or Unreadable
  task,     \* what each terminal records for, or "none"
  saving,   \* the terminals in the midst of a save
  running   \* how an engine on each idea was started, if one runs

vars == <<ledger, task, saving, running>>

Statuses == {"candidate", "screen-fail", "holdout-fail", "holdout-pass",
             "forward-test", "live", "retired"}
Frozen == {"holdout-fail", "retired"}
Launchable == {"candidate", "holdout-pass", "forward-test", "live"}
ScreenVerdicts == {"candidate", "screen-fail"}
HoldoutVerdicts == {"holdout-pass", "holdout-fail", "candidate"}

NoEntries == [i \in Ideas |-> None]

Init ==
  /\ ledger = NoEntries
  /\ task = [p \in Procs |-> "none"]
  /\ saving = {}
  /\ running = [i \in Ideas |-> "no"]

----------------------------------------------------------------------------

Start(p, kind) ==
  /\ task[p] = "none"
  /\ task' = [task EXCEPT ![p] = kind]
  /\ UNCHANGED <<ledger, saving, running>>

BeginSave(p) ==
  /\ task[p] # "none" /\ p \notin saving
  /\ saving' = saving \cup {p}
  /\ UNCHANGED <<ledger, task, running>>

\* A command that is not saving ends without a trace, or is killed.
GiveUp(p) ==
  /\ p \notin saving
  /\ task' = [task EXCEPT ![p] = "none"]
  /\ UNCHANGED <<ledger, saving, running>>

EndSave(p) ==
  /\ p \in saving
  /\ saving' = saving \ {p}
  /\ task' = [task EXCEPT ![p] = "none"]
  /\ UNCHANGED running

RecordScreen(p) ==
  /\ task[p] = "screen" /\ ledger # Unreadable
  /\ ledger' \in [Ideas -> Statuses \cup {None}]
  /\ \A i \in Ideas :
       \/ ledger'[i] = ledger[i]
       \/ ledger[i] \notin Frozen /\ ledger'[i] \in ScreenVerdicts
  /\ EndSave(p)

Record(p, i, status) ==
  /\ \/ task[p] = "holdout" /\ status \in HoldoutVerdicts
     \/ task[p] = "operator" /\ status \in Statuses
  /\ ledger # Unreadable
  /\ ledger' = [ledger EXCEPT ![i] = status]
  /\ EndSave(p)

\* The save is cut short.
Lose(p) ==
  /\ ledger' \in {NoEntries, Unreadable}
  /\ EndSave(p)

----------------------------------------------------------------------------

Launch(i) ==
  /\ ledger # Unreadable => ledger[i] \in Launchable \cup {None}
  /\ running' = [running EXCEPT ![i] = "gated"]
  /\ UNCHANGED <<ledger, task, saving>>

ForceLaunch(i) ==
  /\ running' = [running EXCEPT ![i] = "forced"]
  /\ UNCHANGED <<ledger, task, saving>>

Exit(i) ==
  /\ running' = [running EXCEPT ![i] = "no"]
  /\ UNCHANGED <<ledger, task, saving>>

Next ==
  \/ \E p \in Procs :
       \/ \E kind \in {"screen", "holdout", "operator"} : Start(p, kind)
       \/ BeginSave(p) \/ GiveUp(p) \/ RecordScreen(p) \/ Lose(p)
       \/ \E i \in Ideas, status \in Statuses : Record(p, i, status)
  \/ \E i \in Ideas : Launch(i) \/ ForceLaunch(i) \/ Exit(i)

Spec == Init /\ [][Next]_vars
=============================================================================
