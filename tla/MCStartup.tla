----------------------------- MODULE MCStartup -----------------------------
(***************************************************************************)
(* A deployment: the preflight, which "doubles as a deploy gate"           *)
(* (README.md:118-119), and behind one that passed the launches of         *)
(* engines on one lock file.                                               *)
(***************************************************************************)
EXTENDS RunLock, Preflight

DeployInit == Init /\ PreflightInit

Preflighted == step = "done" /\ AllPassed
GivenUp == step = "done" /\ ~AllPassed /\ UNCHANGED <<vars, preflightVars>>

DeployNext ==
  \/ PreflightNext /\ UNCHANGED vars
  \/ Preflighted /\ Next /\ UNCHANGED preflightVars
  \/ GivenUp

DeploySpec == DeployInit /\ [][DeployNext]_<<vars, preflightVars>>
=============================================================================
