---------------------------- MODULE RestSession ----------------------------
(***************************************************************************)
(* The session of CapitalRestClient (api/rest_client.py) with its token    *)
(* cache, its retries and its rate limiter (api/rate_limiter.py): one      *)
(* client per process (an engine, CLI commands), all of one account on one *)
(* cache file.  A client makes one call at a time.                         *)
(*                                                                         *)
(* Time is counted in ticks.  A process is not held up between two steps   *)
(* for as long as a tick: ticks pass while it sleeps, waits for an answer  *)
(* or makes no call.  The broker is external: it forgets a session unused  *)
(* for Life ticks, may revoke one, and may refuse any request for load.    *)
(***************************************************************************)
EXTENDS Naturals, FiniteSets

CONSTANTS
  Procs, Sessions, None,
  NoCache, Torn,     \* the cache file is missing; truncated or half written
  Interval,          \* the limiter's _min_interval
  Timeout,           \* of a request
  MaxRetries,        \* max_retries
  Backoff,           \* the first backoff
  Ttl,               \* SESSION_TTL_SECONDS
  Life               \* idle ticks after which the broker drops a session

\* The longest from the broker's answer to a login to the last send of the
\* call behind it.
LongestRetry ==
  Interval + (MaxRetries + 1) * Timeout + (2^MaxRetries - 1) * Backoff

ASSUME SessionAssumption ==
  /\ Interval \in Nat \ {0} /\ Timeout \in Nat /\ MaxRetries \in Nat
  /\ Backoff \in Nat /\ Interval <= Backoff
  /\ Ttl \in Nat /\ Life \in Nat
  /\ Ttl + Timeout < Life
  /\ LongestRetry < Life
  /\ None \notin Sessions /\ NoCache # Torn
  /\ Sessions \cap {"none", "ok", "busy", "401", "error"} = {}
  /\ IsFiniteSet(Procs) /\ IsFiniteSet(Sessions)
  /\ Cardinality(Sessions) > Cardinality(Procs)

VARIABLES
  stage,
  tok,       \* _cst and _security_token, as one session
  cache,     \* the cache file: a session and the age of its "ts"
  request,   \* what is being sent: the login or the call
  attempt,   \* of _raw_request
  retried,   \* _retry is False
  status,    \* the answer on its way; to a login, the new session
  wait,      \* what is left of a backoff or of a request's timeout
  slot,      \* _next_allowed, from now
  idle,      \* broker: how long each session has been unused
  since      \* auxiliary: ticks since the client's last send

sessionVars == <<stage, tok, cache, request, attempt, retried, status, wait, slot, idle, since>>
client == <<request, attempt, retried, status, wait>>

Revoked == Life + 1
Live(s) == idle[s] < Life

Caches == {NoCache, Torn} \cup [session : Sessions, age : 0..Ttl + 1]

SessionTypeOK ==
  /\ stage \in [Procs -> {"idle", "ensure", "acquire", "sent", "backoff", "save", "write"}]
  /\ tok \in [Procs -> Sessions \cup {None}]
  /\ cache \in Caches
  /\ request \in [Procs -> {"login", "call"}]
  /\ attempt \in [Procs -> 0..MaxRetries]
  /\ retried \in [Procs -> BOOLEAN]
  /\ status \in [Procs -> {"none", "ok", "busy", "401", "error"} \cup Sessions]
  /\ wait \in [Procs -> Nat]
  /\ slot \in [Procs -> 0..Interval]
  /\ idle \in [Sessions -> 0..Revoked]
  /\ since \in [Procs -> 0..Interval]

SessionInit ==
  /\ stage = [p \in Procs |-> "idle"]
  /\ tok = [p \in Procs |-> None]
  /\ cache = NoCache
  /\ request = [p \in Procs |-> "call"]
  /\ attempt = [p \in Procs |-> 0]
  /\ retried = [p \in Procs |-> FALSE]
  /\ status = [p \in Procs |-> "none"]
  /\ wait = [p \in Procs |-> 0]
  /\ slot = [p \in Procs |-> 0]
  /\ idle = [s \in Sessions |-> Life]
  /\ since = [p \in Procs |-> Interval]

GoTo(p, label) == stage' = [stage EXCEPT ![p] = label]

\* The call returns or raises.
End(p) ==
  /\ GoTo(p, "idle")
  /\ request' = [request EXCEPT ![p] = "call"]
  /\ attempt' = [attempt EXCEPT ![p] = 0]
  /\ retried' = [retried EXCEPT ![p] = FALSE]
  /\ status' = [status EXCEPT ![p] = "none"]
  /\ wait' = [wait EXCEPT ![p] = 0]

\* _raw_request starts.
RawRequest(p, what) ==
  /\ GoTo(p, "acquire")
  /\ request' = [request EXCEPT ![p] = what]
  /\ attempt' = [attempt EXCEPT ![p] = 0]
  /\ status' = [status EXCEPT ![p] = "none"]
  /\ wait' = [wait EXCEPT ![p] = 0]

----------------------------------------------------------------------------
\* a process and its calls

Call(p) ==
  /\ stage[p] = "idle"
  /\ GoTo(p, "ensure")
  /\ UNCHANGED <<client, tok, cache, slot, idle, since>>

\* The process ends or is killed; another may start in its place.
Exit(p) ==
  /\ End(p)
  /\ tok' = [tok EXCEPT ![p] = None]
  /\ slot' = [slot EXCEPT ![p] = 0]
  /\ since' = [since EXCEPT ![p] = Interval]
  /\ UNCHANGED <<cache, idle>>

\* Mutant: _load_session does not look at the age.
FreshAlways == cache \notin {NoCache, Torn}

\* _load_session
Fresh == cache \notin {NoCache, Torn} /\ cache.age <= Ttl

Load(p) ==
  /\ stage[p] = "ensure" /\ tok[p] = None /\ Fresh
  /\ tok' = [tok EXCEPT ![p] = cache.session]
  /\ RawRequest(p, "call")
  /\ UNCHANGED <<cache, retried, slot, idle, since>>

\* ensure_session: a token in memory is taken as it is.
Ensure(p) ==
  /\ stage[p] = "ensure"
  /\ \/ tok[p] # None /\ RawRequest(p, "call")
     \/ tok[p] = None /\ ~Fresh /\ RawRequest(p, "login")
  /\ UNCHANGED <<tok, cache, retried, slot, idle, since>>

----------------------------------------------------------------------------
\* _raw_request

\* Mutant: the limiter does not sleep.
AcquireAtOnce(p) == slot' = [slot EXCEPT ![p] = Interval]

\* RateLimiter.acquire
Acquire(p) ==
  /\ slot[p] = 0
  /\ slot' = [slot EXCEPT ![p] = Interval]

Unused == {s \in Sessions : /\ \A p \in Procs : s # tok[p] /\ s # status[p]
                            /\ cache \notin {NoCache, Torn} => s # cache.session}

\* The broker takes the request; its answer is on its way.
SendLogin(p) ==
  /\ stage[p] = "acquire" /\ request[p] = "login"
  /\ Acquire(p)
  /\ \/ LET s == CHOOSE s \in Unused : TRUE
        IN /\ idle' = [idle EXCEPT ![s] = 0]
           /\ status' = [status EXCEPT ![p] = s]
     \/ /\ status' \in {[status EXCEPT ![p] = a] : a \in {"busy", "error"}}
        /\ UNCHANGED idle
  /\ GoTo(p, "sent")
  /\ wait' = [wait EXCEPT ![p] = Timeout]
  /\ since' = [since EXCEPT ![p] = 0]
  /\ UNCHANGED <<tok, cache, request, attempt, retried>>

SendCall(p) ==
  /\ stage[p] = "acquire" /\ request[p] = "call"
  /\ Acquire(p)
  /\ \/ /\ Live(tok[p])
        /\ idle' = [idle EXCEPT ![tok[p]] = 0]
        /\ status' \in {[status EXCEPT ![p] = a] : a \in {"ok", "error"}}
     \/ /\ ~Live(tok[p])
        /\ status' = [status EXCEPT ![p] = "401"]
        /\ UNCHANGED idle
     \/ /\ status' = [status EXCEPT ![p] = "busy"]
        /\ UNCHANGED idle
  /\ GoTo(p, "sent")
  /\ wait' = [wait EXCEPT ![p] = Timeout]
  /\ since' = [since EXCEPT ![p] = 0]
  /\ UNCHANGED <<tok, cache, request, attempt, retried>>

\* Mutant: one retry too many.
BackOffOnceMore(p) ==
  /\ stage[p] = "sent" /\ status[p] = "busy" /\ attempt[p] <= MaxRetries
  /\ GoTo(p, "backoff")
  /\ wait' = [wait EXCEPT ![p] = 2^attempt[p] * Backoff]
  /\ attempt' = [attempt EXCEPT ![p] = @ + 1]
  /\ status' = [status EXCEPT ![p] = "none"]
  /\ UNCHANGED <<tok, cache, request, retried, slot, idle, since>>

\* 429 or 503: back off and try again.
BackOff(p) ==
  /\ stage[p] = "sent" /\ status[p] = "busy" /\ attempt[p] < MaxRetries
  /\ GoTo(p, "backoff")
  /\ wait' = [wait EXCEPT ![p] = 2^attempt[p] * Backoff]
  /\ attempt' = [attempt EXCEPT ![p] = @ + 1]
  /\ status' = [status EXCEPT ![p] = "none"]
  /\ UNCHANGED <<tok, cache, request, retried, slot, idle, since>>

Again(p) ==
  /\ stage[p] = "backoff" /\ wait[p] = 0
  /\ GoTo(p, "acquire")
  /\ UNCHANGED <<client, tok, cache, slot, idle, since>>

\* The connection fails or the answer takes too long, and requests raises.
Fail(p) ==
  /\ stage[p] = "sent"
  /\ End(p)
  /\ UNCHANGED <<tok, cache, slot, idle, since>>

----------------------------------------------------------------------------
\* what the callers of _raw_request make of the answer

LoggedIn(p) ==
  /\ stage[p] = "sent" /\ status[p] \in Sessions
  /\ tok' = [tok EXCEPT ![p] = status[p]]
  /\ GoTo(p, "save")
  /\ status' = [status EXCEPT ![p] = "none"]
  /\ wait' = [wait EXCEPT ![p] = 0]
  /\ UNCHANGED <<cache, request, attempt, retried, slot, idle, since>>

\* _save_session: write_text truncates and writes; a failure is ignored.
SaveTruncates(p) ==
  /\ stage[p] = "save"
  /\ cache' = Torn
  /\ GoTo(p, "write")
  /\ UNCHANGED <<client, tok, slot, idle, since>>

SaveWrites(p) ==
  /\ stage[p] = "write"
  /\ cache' = [session |-> tok[p], age |-> 0]
  /\ GoTo(p, "ensure")
  /\ UNCHANGED <<client, tok, slot, idle, since>>

SaveFails(p) ==
  /\ stage[p] \in {"save", "write"}
  /\ GoTo(p, "ensure")
  /\ UNCHANGED <<client, tok, cache, slot, idle, since>>

\* Mutant: a 401 logs in only where there is no token.
ReloginByEnsure(p) ==
  /\ stage[p] = "sent" /\ status[p] = "401" /\ ~retried[p]
  /\ GoTo(p, "ensure")
  /\ retried' = [retried EXCEPT ![p] = TRUE]
  /\ UNCHANGED <<tok, cache, request, attempt, status, wait, slot, idle, since>>

\* _request on the first 401: forget the tokens, drop the cache, log in.
Relogin(p) ==
  /\ stage[p] = "sent" /\ status[p] = "401" /\ ~retried[p]
  /\ tok' = [tok EXCEPT ![p] = None]
  /\ cache' = NoCache
  /\ retried' = [retried EXCEPT ![p] = TRUE]
  /\ RawRequest(p, "login")
  /\ UNCHANGED <<slot, idle, since>>

\* The answer, or the CapitalApiError it is turned into.
Return(p) ==
  /\ stage[p] = "sent"
  /\ \/ status[p] \in {"ok", "error"}
     \/ status[p] = "busy" /\ attempt[p] = MaxRetries
     \/ status[p] = "401" /\ retried[p]
  /\ End(p)
  /\ UNCHANGED <<tok, cache, slot, idle, since>>

----------------------------------------------------------------------------
\* time and the broker

Sleeping(p) ==
  \/ stage[p] = "idle"
  \/ stage[p] = "acquire" /\ slot[p] > 0
  \/ stage[p] \in {"sent", "backoff"} /\ wait[p] > 0

Less(n) == IF n > 0 THEN n - 1 ELSE 0
More(n, limit) == IF n < limit THEN n + 1 ELSE n

TimePasses ==
  /\ \A p \in Procs : Sleeping(p)
  /\ wait' = [p \in Procs |-> Less(wait[p])]
  /\ slot' = [p \in Procs |-> Less(slot[p])]
  /\ since' = [p \in Procs |-> More(since[p], Interval)]
  /\ idle' = [s \in Sessions |-> IF s \in Unused THEN Life
                                 ELSE IF Live(s) THEN idle[s] + 1 ELSE idle[s]]
  /\ cache' = IF cache \in {NoCache, Torn} THEN cache
              ELSE [cache EXCEPT !.age = More(@, Ttl + 1)]
  /\ UNCHANGED <<stage, tok, request, attempt, retried, status>>

Revoke(s) ==
  /\ s \notin Unused /\ Live(s)
  /\ idle' = [idle EXCEPT ![s] = Revoked]
  /\ UNCHANGED <<stage, client, tok, cache, slot, since>>

Work(p) ==
  \/ Load(p) \/ Ensure(p) \/ SendLogin(p) \/ SendCall(p)
  \/ BackOff(p) \/ Again(p) \/ LoggedIn(p)
  \/ SaveTruncates(p) \/ SaveWrites(p) \/ SaveFails(p)
  \/ Relogin(p) \/ Return(p) \/ Fail(p)

SessionNext ==
  \/ TimePasses
  \/ \E s \in Sessions : Revoke(s)
  \/ \E p \in Procs : Call(p) \/ Exit(p) \/ Work(p)

\* A process that can run does, sleeps end, and every request is answered or
\* given up at its timeout.
Fairness == WF_sessionVars(TimePasses) /\ \A p \in Procs : WF_sessionVars(Work(p))
SessionSpec == SessionInit /\ [][SessionNext]_sessionVars /\ Fairness

----------------------------------------------------------------------------

(***************************************************************************)
(* A call that fails for its session has had it revoked by the broker: an  *)
(* expired token, in memory or in the cache, costs a login and no call.    *)
(***************************************************************************)
ReloginHelps ==
  [][\A p \in Procs :
       (Return(p) /\ status[p] = "401") => idle[tok[p]] = Revoked]_sessionVars

(***************************************************************************)
(* The cache spares logins: a token a process takes from it is one the     *)
(* broker still accepts, unless it was revoked.  (rest_client.py:28-32)    *)
(***************************************************************************)
LoadedTokenLives ==
  [][\A p \in Procs : Load(p) => idle[cache.session] # Life]_sessionVars

(***************************************************************************)
(* Two requests of one client are Interval apart, retries and logins       *)
(* included (rate_limiter.py:3-5).                                         *)
(***************************************************************************)
Spaced ==
  [][\A p \in Procs : SendLogin(p) \/ SendCall(p) => since[p] = Interval]_sessionVars

\* Every call returns or raises.
CallEnds == \A p \in Procs : stage[p] # "idle" ~> stage[p] = "idle"

(***************************************************************************)
(* rate_limiter.py:3-5, "around 10 requests/second per session ... stay    *)
(* under a configured requests-per-second ceiling": two requests of one    *)
(* session are Interval apart.  The cache shares the session, the limiter  *)
(* is each client's own.                                                   *)
(***************************************************************************)
SessionSpaced ==
  [][\A p \in Procs :
       SendCall(p) => \A q \in Procs \ {p} :
                        (tok[q] = tok[p] /\ request[q] = "call")
                          => since[q] = Interval]_sessionVars
=============================================================================
