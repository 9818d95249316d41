---------------------------- MODULE SafeAccount ----------------------------
(***************************************************************************)
(* What the engine promises of the account it trades: a deal is opened     *)
(* only while nothing bars it, below the limit on open deals, and on an    *)
(* instrument without one.  Deals end by themselves at any time.  Only     *)
(* what barred the account is ever noted as a kill; a permanent kill stays *)
(* noted and bars the account from then on.                                *)
(***************************************************************************)
EXTENDS Integers, FiniteSets

CONSTANTS
  Deals,     \* records with an epic
  MaxOpen,
  Permanent  \* whether a kill is for ever

VARIABLES
  open,    \* the deals open at the broker
  barred,  \* whether opening one is forbidden
  killed   \* the kill on record

vars == <<open, barred, killed>>

Init == open = {} /\ barred = FALSE /\ killed = FALSE

Open(d) ==
  /\ ~barred
  /\ Cardinality(open) < MaxOpen
  /\ \A o \in open : o.epic # d.epic
  /\ open' = open \cup {d}
  /\ barred' \in BOOLEAN
  /\ UNCHANGED killed

Close(d) ==
  /\ open' = open \ {d}
  /\ UNCHANGED <<barred, killed>>

\* Limits are breached and recover, days begin, the process dies and restarts.
Judge ==
  /\ barred' \in BOOLEAN /\ killed' \in BOOLEAN
  /\ killed' => killed \/ barred
  /\ Permanent => (killed => killed') /\ (killed' => barred')
  /\ UNCHANGED open

Next ==
  \/ \E d \in Deals : Open(d)
  \/ \E d \in open : Close(d)
  \/ Judge

Spec == Init /\ [][Next]_vars
=============================================================================
