----------------------------- MODULE Preflight -----------------------------
(***************************************************************************)
(* The preflight command (preflight.py): read-only checks of the broker's  *)
(* API, each reported, and on a demo account, when asked for, a test order *)
(* that is opened, confirmed, found among the positions and closed again   *)
(* (rest_client.py resolve_position_deal_id).                              *)
(*                                                                         *)
(* It takes no run lock: deals of others, the engine's among them, may be  *)
(* in the book.  Any request may raise; a deal shows in /positions some    *)
(* time after it was opened, or never.                                     *)
(***************************************************************************)
EXTENDS Integers, Sequences, FiniteSets

CONSTANTS
  Counts,    \* how many instruments may be configured, the epics from 1 on
  Others,    \* epics with a deal of somebody else
  Retries,   \* of resolve_position_deal_id: 4
  MaxSent,   \* bound: how often a create may be sent, more than once after a 503
  NoRef, NoDeal

First == 1

ASSUME PreflightAssumption ==
  /\ Retries \in Nat \ {0} /\ MaxSent \in Nat \ {0} /\ NoRef \notin Nat
  /\ NoDeal \notin [of : {"other", "test"}, epic : Others \cup {First},
                    ref : 0..MaxSent, shown : BOOLEAN]

VARIABLES
  count, live, wanted,   \* len(config.instruments), creds.is_live and --test-order
  step,
  results,               \* the CheckResults: [name, ok]
  at,                    \* instruments checked, then lookups made
  ref, deal,             \* of the test order
  book                   \* the broker's deals: [of, epic, ref, shown]

preflightVars == <<count, live, wanted, step, results, at, ref, deal, book>>
asked == <<count, live, wanted>>
order == <<ref, deal>>

OthersDeal(e) == [of |-> "other", epic |-> e, ref |-> 0, shown |-> TRUE]

PreflightInit ==
  /\ count \in Counts /\ live \in BOOLEAN /\ wanted \in BOOLEAN
  /\ step = "login" /\ results = <<>> /\ at = 0
  /\ ref = NoRef /\ deal = NoDeal
  /\ book = {OthersDeal(e) : e \in Others}

Reported(name, ok) == Append(results, [name |-> name, ok |-> ok])

\* A check that reports and goes on.
Probe(here, name, next) ==
  /\ step = here
  /\ \E ok \in BOOLEAN : results' = Reported(name, ok)
  /\ step' = next
  /\ UNCHANGED <<asked, at, order, book>>

----------------------------------------------------------------------------
\* the read-only checks

\* Nothing else can run without a session.
Login ==
  /\ step = "login"
  /\ \E ok \in BOOLEAN :
       /\ results' = Reported("login", ok)
       /\ step' = IF ok THEN "accounts" ELSE "done"
  /\ UNCHANGED <<asked, at, order, book>>

\* The balance parses or not.
Accounts ==
  \/ count # 0 /\ Probe("accounts", "account/equity", "details")
  \/ /\ count = 0 /\ step = "accounts"
     /\ \E ok \in BOOLEAN :
          results' = Reported("account/equity", ok)
                       \o <<[name |-> "instruments", ok |-> FALSE]>>
     /\ step' = "done"
     /\ UNCHANGED <<asked, at, order, book>>

MarketDetails == Probe("details", "market details", "history")

\* One instrument: without candles it fails, too.
Histories ==
  /\ step = "history"
  /\ \E ok \in BOOLEAN : results' = Reported("history", ok)
  /\ at' = at + 1
  /\ step' = IF at' = count THEN "positions" ELSE "history"
  /\ UNCHANGED <<asked, order, book>>

Positions == Probe("positions", "positions", IF wanted THEN "rules" ELSE "done")

----------------------------------------------------------------------------
\* _test_order

Fails ==
  /\ results' = Reported("test order", FALSE)
  /\ step' = "done"

\* On a live account it is refused; else the dealing rules are read.
DealingRules ==
  /\ step = "rules"
  /\ \/ Fails
     \/ ~live /\ step' = "create" /\ UNCHANGED results
  /\ at' = 0
  /\ UNCHANGED <<asked, order, book>>

Opened(n) == [of |-> "test", epic |-> First, ref |-> n, shown |-> FALSE]

\* What the book may be after a create was sent: _raw_request sends it again
\* after a 503, which may have opened a deal.
Sent == {book \cup {Opened(i) : i \in 1..n} : n \in 1..MaxSent}

\* create_position is answered with a reference: the order was accepted or, as
\* only the confirmation says, rejected.  An answer may lack the reference.
CreateOrder ==
  /\ step = "create"
  /\ \/ /\ book' \in Sent
        /\ ref' \in {Cardinality(book' \ book), NoRef}
     \/ book' = book /\ ref' = 1
  /\ step' = "confirm"
  /\ UNCHANGED <<asked, results, at, deal>>

\* It raises, with or without a deal.
OrderRaises ==
  /\ step = "create"
  /\ book' \in Sent \cup {book}
  /\ Fails
  /\ UNCHANGED <<asked, at, ref, deal>>

\* confirm_deal: whatever status it has is printed, and no more.
Confirm ==
  /\ step = "confirm"
  /\ \/ /\ results' = Reported("test order open", ref # NoRef)
        /\ step' = "resolve"
     \/ ref # NoRef /\ Fails
  /\ UNCHANGED <<asked, at, order, book>>

Shown == {d \in book : d.shown}

\* Mutant of Resolved: without the reference, any position will do.
ResolvedToAny ==
  LET exact == {d \in Shown : d.ref = ref}
  IN IF exact # {} THEN exact ELSE Shown

\* What one lookup may answer: by reference, else by epic.
Resolved ==
  LET exact == {d \in Shown : d.ref = ref}
  IN IF exact # {} THEN exact ELSE {d \in Shown : d.epic = First}

\* Mutant of Unresolved: nothing is said of it.
UnresolvedUnsaid == results

Unresolved == Reported("test order close", FALSE)

\* A lookup of resolve_position_deal_id: it finds a deal, comes up empty and
\* is repeated or given up, or raises.
Resolve ==
  /\ step = "resolve"
  /\ \/ /\ deal' \in Resolved
        /\ step' = "close" /\ UNCHANGED <<results, at>>
     \/ /\ Resolved = {} /\ at + 1 < Retries
        /\ at' = at + 1 /\ UNCHANGED <<step, results, deal>>
     \/ /\ Resolved = {} /\ at + 1 = Retries
        /\ results' = Unresolved /\ step' = "done" /\ UNCHANGED <<at, deal>>
     \/ Fails /\ UNCHANGED <<at, deal>>
  /\ UNCHANGED <<asked, ref, book>>

Close ==
  /\ step = "close"
  /\ book' = book \ {deal}
  /\ results' = Reported("test order close", TRUE)
  /\ step' = "done"
  /\ UNCHANGED <<asked, at, order>>

CloseRaises ==
  /\ step = "close"
  /\ book' \in {book, book \ {deal}}
  /\ Fails
  /\ UNCHANGED <<asked, at, order>>

----------------------------------------------------------------------------

\* /positions catches up.
Shows ==
  /\ \E d \in book \ Shown : book' = (book \ {d}) \cup {[d EXCEPT !.shown = TRUE]}
  /\ UNCHANGED <<asked, step, results, at, order>>

ReadOnly == Login \/ Accounts \/ MarketDetails \/ Histories \/ Positions
TestOrder ==
  \/ DealingRules \/ CreateOrder \/ OrderRaises \/ Confirm
  \/ Resolve \/ Close \/ CloseRaises
PreflightNext == ReadOnly \/ TestOrder \/ Shows

PreflightSpec == PreflightInit /\ [][PreflightNext]_preflightVars

----------------------------------------------------------------------------

\* all_passed
AllPassed == results # <<>> /\ \A i \in DOMAIN results : results[i].ok

Own == {d \in book : d.of = "test"}

(***************************************************************************)
(* README.md:116, "opens + closes one minimal demo position": a preflight  *)
(* that passes leaves no deal of its own behind, and with --test-order one *)
(* was opened, on a demo account.  One that fails may leave a deal, and    *)
(* says so by a check that failed.  (Violated where the broker rejects the *)
(* order while somebody else holds a deal of the epic, and where a 503     *)
(* doubles the order.)                                                     *)
(***************************************************************************)
PassMeansRoundTrip ==
  step = "done" /\ AllPassed =>
    /\ Own = {}
    /\ wanted => ~live /\ deal # NoDeal /\ deal.of = "test"

(***************************************************************************)
(* No deal of somebody else is closed (violated with a deal of the tested  *)
(* epic in the book: the lookup falls back to the epic).                   *)
(***************************************************************************)
OthersUntouched ==
  [][\A d \in book : d.of = "other" => d \in book']_preflightVars
=============================================================================
