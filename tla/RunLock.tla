------------------------------ MODULE RunLock ------------------------------
(***************************************************************************)
(* The PID lockfile of forex_bot/runlock.py, taken by cmd_run before an    *)
(* engine starts.  Several processes run acquire and release on one path;  *)
(* every file operation is a step, since nothing makes two of them atomic. *)
(* A process that never acquired releases nothing (_acquired is false), so *)
(* that flag is the control state "held".                                  *)
(*                                                                         *)
(* write_text and fdopen write through a descriptor: a process that has    *)
(* the file open when it is unlinked writes where nobody will read.        *)
(***************************************************************************)
EXTENDS Naturals

CONSTANTS
  Pids,          \* the process ids an engine may get
  NoFile, Empty, \* the path does not exist; it holds no number
  NoPid,         \* _read_pid returned 0
  SerialStarts,  \* no engine is launched while another one is acquiring
  PidReuse       \* another program may get the id of an engine that ended

ASSUME LockAssumption ==
  /\ NoFile \notin Pids /\ Empty \notin Pids /\ NoFile # Empty
  /\ NoPid \notin Pids
  /\ SerialStarts \in BOOLEAN /\ PidReuse \in BOOLEAN

VARIABLES
  pc,        \* what each process does
  seen,      \* the pid it read from the file
  file,      \* the contents of the path
  detached,  \* processes whose open descriptor is of an unlinked file
  foreign    \* ids in use by other programs

vars == <<pc, seen, file, detached, foreign>>

Acquiring == {"start", "read", "check", "take", "write"}
Holding == {"held", "unlink"}

TypeOK ==
  /\ pc \in [Pids -> Acquiring \cup Holding \cup {"off"}]
  /\ seen \in [Pids -> Pids \cup {NoPid}]
  /\ file \in Pids \cup {NoFile, Empty}
  /\ detached \subseteq Pids
  /\ foreign \subseteq Pids

Init ==
  /\ pc = [p \in Pids |-> "off"]
  /\ seen = [p \in Pids |-> NoPid]
  /\ file = NoFile
  /\ detached = {}
  /\ foreign = {}

GoTo(p, label) == pc' = [pc EXCEPT ![p] = label]

\* _pid_alive
Alive(p) == pc[p] # "off" \/ p \in foreign

\* The end of a process closes its descriptors.
End(p) ==
  /\ GoTo(p, "off")
  /\ seen' = [seen EXCEPT ![p] = NoPid]
  /\ detached' = detached \ {p}

----------------------------------------------------------------------------

Launch(p) ==
  /\ ~Alive(p)
  /\ SerialStarts => \A q \in Pids : pc[q] \notin Acquiring
  /\ GoTo(p, "start")
  /\ UNCHANGED <<seen, file, detached, foreign>>

\* Mutant: without O_EXCL.
CreateShared(p) ==
  /\ pc[p] = "start"
  /\ GoTo(p, "write")
  /\ file' = Empty
  /\ UNCHANGED <<seen, detached, foreign>>

\* os.open(O_CREAT | O_EXCL)
Create(p) ==
  /\ pc[p] = "start"
  /\ IF file = NoFile THEN GoTo(p, "write") /\ file' = Empty
                      ELSE GoTo(p, "read") /\ UNCHANGED file
  /\ UNCHANGED <<seen, detached, foreign>>

\* _read_pid in acquire; a missing or empty file reads as no pid.
Read(p) ==
  /\ pc[p] = "read"
  /\ seen' = [seen EXCEPT ![p] = IF file \in Pids THEN file ELSE NoPid]
  /\ GoTo(p, "check")
  /\ UNCHANGED <<file, detached, foreign>>

\* Mutant: any other pid counts as running.
BusyByFile(p) == seen[p] \notin {NoPid, p}

Busy(p) == seen[p] \notin {NoPid, p} /\ Alive(seen[p])

\* AlreadyRunningError: cmd_run returns 2.
Refuse(p) ==
  /\ pc[p] = "check"
  /\ Busy(p)
  /\ End(p)
  /\ UNCHANGED <<file, foreign>>

FindStale(p) ==
  /\ pc[p] = "check"
  /\ ~Busy(p)
  /\ GoTo(p, "take")
  /\ UNCHANGED <<seen, file, detached, foreign>>

\* write_text opens for writing: the file is created or truncated ...
Truncate(p) ==
  /\ pc[p] = "take"
  /\ file' = Empty
  /\ GoTo(p, "write")
  /\ UNCHANGED <<seen, detached, foreign>>

\* ... and written.
Write(p) ==
  /\ pc[p] = "write"
  /\ file' = IF p \in detached THEN file ELSE p
  /\ detached' = detached \ {p}
  /\ GoTo(p, "held")
  /\ UNCHANGED <<seen, foreign>>

\* release compares before it deletes, in two steps.
Release(p) ==
  /\ pc[p] = "held"
  /\ IF file = p THEN GoTo(p, "unlink") /\ UNCHANGED <<seen, detached>>
                 ELSE End(p)
  /\ UNCHANGED <<file, foreign>>

Unlink(p) ==
  /\ pc[p] = "unlink"
  /\ file' = NoFile
  /\ GoTo(p, "off")
  /\ seen' = [seen EXCEPT ![p] = NoPid]
  /\ detached' = IF file = NoFile THEN detached
                 ELSE detached \cup {q \in Pids : pc[q] = "write"}
  /\ UNCHANGED foreign

Crash(p) ==
  /\ pc[p] # "off"
  /\ End(p)
  /\ UNCHANGED <<file, foreign>>

\* The operating system gives the id of a dead engine to another program.
Reuse(p) ==
  /\ PidReuse
  /\ ~Alive(p)
  /\ foreign' = foreign \cup {p}
  /\ UNCHANGED <<pc, seen, file, detached>>

ForeignEnds(p) ==
  /\ p \in foreign
  /\ foreign' = foreign \ {p}
  /\ UNCHANGED <<pc, seen, file, detached>>

Next ==
  \E p \in Pids :
    \/ Launch(p) \/ Create(p) \/ Read(p) \/ Refuse(p) \/ FindStale(p)
    \/ Truncate(p) \/ Write(p) \/ Release(p) \/ Unlink(p)
    \/ Crash(p) \/ Reuse(p) \/ ForeignEnds(p)

Spec == Init /\ [][Next]_vars

----------------------------------------------------------------------------

(***************************************************************************)
(* "One engine per account": two processes never hold the lock together.   *)
(***************************************************************************)
MutualExclusion ==
  \A p, q \in Pids : pc[p] \in Holding /\ pc[q] \in Holding => p = q

(***************************************************************************)
(* "never delete someone else's lock": the pid that release compared is    *)
(* still the one in the file when it unlinks.                              *)
(***************************************************************************)
DeletesOwnLock ==
  [][\A p \in Pids : (pc[p] = "unlink" /\ file # NoFile /\ file' = NoFile)
                        => file = p]_vars

(***************************************************************************)
(* A stale lock is taken over: unless the pid in the file now belongs to   *)
(* another program, a launch is refused only while another engine holds    *)
(* the lock, however the engines before it ended.                          *)
(***************************************************************************)
OtherHolds(p) == \E q \in Pids \ {p} : pc[q] \in Holding

StaleTakenOver ==
  [][\A p \in Pids : (Refuse(p) /\ seen[p] \notin foreign) => OtherHolds(p)]_vars

(***************************************************************************)
(* Claimed by runlock.py:7-9, "a crash never requires manual cleanup": the *)
(* same whatever runs under the pid of the engine that crashed.            *)
(***************************************************************************)
NoManualCleanup == [][\A p \in Pids : Refuse(p) => OtherHolds(p)]_vars

=============================================================================
