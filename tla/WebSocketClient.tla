-------------------------- MODULE WebSocketClient --------------------------
(***************************************************************************)
(* CapitalWebSocketClient.run_forever (api/websocket_client.py) with the   *)
(* session tokens it shares with the REST client.  One thread runs the     *)
(* loop and the callbacks; stop() comes from a signal handler, between any *)
(* two steps.  The library's WebSocketApp is external: close() makes its   *)
(* run_forever return if that has been entered, and is forgotten if not.   *)
(***************************************************************************)
EXTENDS Naturals

CONSTANTS ReconnectDelay, MaxReconnectDelay

ASSUME DelayAssumption ==
  /\ ReconnectDelay \in Nat \ {0}
  /\ MaxReconnectDelay \in Nat
  /\ ReconnectDelay <= MaxReconnectDelay

VARIABLES
  pc,
  stopped,          \* _stopped
  closing,          \* close() was called on the app now running
  delay,            \* the backoff before the next reconnect
  gotMessage,       \* _got_message
  connectedBefore,  \* _connected_before
  token,            \* the session tokens of the REST client
  sync,             \* history: what the engine did about the last lost stream
  slept             \* history: the last backoff, 0 if a frame came after it

vars == <<pc, stopped, closing, delay, gotMessage, connectedBefore, token, sync, slept>>

Tokens == {"none", "valid", "expired"}

(***************************************************************************)
(* "lost": a stream ended and nothing was done about it since; "told": the *)
(* engine was, but its reconciliation failed; "current": reconciled.       *)
(***************************************************************************)
Syncs == {"current", "lost", "told"}

\* Inside WebSocketApp.run_forever.
Running == {"dial", "open", "reconcile", "streaming"}

TypeOK ==
  /\ pc \in Running \cup {"begin", "check", "session", "build", "after",
                          "sleep", "done"}
  /\ stopped \in BOOLEAN /\ closing \in BOOLEAN /\ gotMessage \in BOOLEAN
  /\ delay \in ReconnectDelay..MaxReconnectDelay
  /\ connectedBefore \in BOOLEAN
  /\ token \in Tokens
  /\ sync \in Syncs /\ slept \in 0..MaxReconnectDelay

\* The engine has called the REST API before it streams.
Init ==
  /\ pc = "begin"
  /\ stopped = FALSE /\ closing = FALSE /\ gotMessage = FALSE
  /\ delay = ReconnectDelay
  /\ connectedBefore = FALSE
  /\ token = "valid"
  /\ sync = "current" /\ slept = 0

----------------------------------------------------------------------------

Begin ==
  /\ pc = "begin"
  /\ stopped' = FALSE
  /\ delay' = ReconnectDelay
  /\ slept' = 0
  /\ pc' = "check"
  /\ UNCHANGED <<closing, gotMessage, connectedBefore, token, sync>>

\* Mutant: while True.
CheckNothing ==
  /\ pc = "check"
  /\ pc' = "session"
  /\ gotMessage' = FALSE
  /\ UNCHANGED <<stopped, closing, delay, connectedBefore, token, sync, slept>>

\* while not self._stopped
Check ==
  /\ pc = "check"
  /\ IF stopped THEN pc' = "done" /\ UNCHANGED gotMessage
                ELSE pc' = "session" /\ gotMessage' = FALSE
  /\ UNCHANGED <<stopped, closing, delay, connectedBefore, token, sync, slept>>

\* ensure_session logs in when there are no tokens; a failure is logged.
Session ==
  /\ pc = "session"
  /\ IF token = "none" THEN token' \in {"none", "valid"} ELSE UNCHANGED token
  /\ pc' = "build"
  /\ UNCHANGED <<stopped, closing, delay, gotMessage, connectedBefore, sync, slept>>

\* A new WebSocketApp enters its run_forever.
Dial ==
  /\ pc = "build"
  /\ closing' = FALSE
  /\ pc' = "dial"
  /\ UNCHANGED <<stopped, delay, gotMessage, connectedBefore, token, sync, slept>>

Open ==
  /\ pc = "dial"
  /\ ~closing
  /\ pc' = "open"
  /\ UNCHANGED <<stopped, closing, delay, gotMessage, connectedBefore, token, sync, slept>>

\* Mutant: a re-open is treated like the first.
SubscribeOnly ==
  /\ pc = "open"
  /\ pc' = "streaming"
  /\ connectedBefore' = TRUE
  /\ UNCHANGED <<stopped, closing, delay, gotMessage, token, sync, slept>>

\* on_open: subscribe, and on a re-open let the engine reconcile.
Subscribe ==
  /\ pc = "open"
  /\ IF connectedBefore THEN pc' = "reconcile" ELSE pc' = "streaming"
  /\ connectedBefore' = TRUE
  /\ UNCHANGED <<stopped, closing, delay, gotMessage, token, sync, slept>>

\* send() raises: the socket is gone before it was subscribed.
SubscribeFails ==
  /\ pc = "open"
  /\ pc' = "after"
  /\ UNCHANGED <<stopped, closing, delay, gotMessage, connectedBefore, token, sync, slept>>

\* A REST call: a 401 drops the tokens and logs in again.
CallBroker ==
  \/ UNCHANGED token
  \/ token # "valid" /\ token' \in {"none", "valid"}

\* on_reconnect: whatever the engine's reconciliation raises is logged.
Reconcile ==
  /\ pc = "reconcile"
  /\ CallBroker
  /\ sync' \in {"current", "told"}
  /\ sync' = "current" => token' = "valid"
  /\ pc' = "streaming"
  /\ UNCHANGED <<stopped, closing, delay, gotMessage, connectedBefore, slept>>

\* A frame arrives; a quote may close a candle, whose handler calls the broker.
Message ==
  /\ pc = "streaming"
  /\ ~closing
  /\ gotMessage' = TRUE
  /\ slept' = 0
  /\ CallBroker
  /\ UNCHANGED <<pc, stopped, closing, delay, connectedBefore, sync>>

\* The socket drops, or could not be opened, or was closed.
Leave ==
  /\ pc' = "after"
  /\ sync' = IF pc = "dial" THEN sync ELSE "lost"
  /\ UNCHANGED <<stopped, closing, delay, gotMessage, connectedBefore, token, slept>>

Drop == pc \in {"dial", "streaming"} /\ ~closing /\ Leave
Closed == pc \in {"dial", "streaming"} /\ closing /\ Leave

After ==
  /\ pc = "after"
  /\ IF stopped THEN pc' = "done" /\ UNCHANGED delay
     ELSE /\ pc' = "sleep"
          /\ delay' = IF gotMessage THEN ReconnectDelay ELSE delay
  /\ UNCHANGED <<stopped, closing, gotMessage, connectedBefore, token, sync, slept>>

Doubled(d) == IF 2 * d <= MaxReconnectDelay THEN 2 * d ELSE MaxReconnectDelay

\* Mutant: the doubled delay is not kept.
SleepConstant ==
  /\ pc = "sleep"
  /\ slept' = delay
  /\ pc' = "check"
  /\ UNCHANGED <<stopped, closing, delay, gotMessage, connectedBefore, token, sync>>

Sleep ==
  /\ pc = "sleep"
  /\ slept' = delay
  /\ delay' = Doubled(delay)
  /\ pc' = "check"
  /\ UNCHANGED <<stopped, closing, gotMessage, connectedBefore, token, sync>>

\* stop(), at any time.
Stop ==
  /\ pc # "done"
  /\ ~stopped
  /\ stopped' = TRUE
  /\ closing' = (pc \in Running)
  /\ UNCHANGED <<pc, delay, gotMessage, connectedBefore, token, sync, slept>>

\* Pings keep the session of an open socket alive; in an outage it runs out.
Expire ==
  /\ pc \in {"dial", "after", "sleep"}
  /\ token = "valid"
  /\ token' = "expired"
  /\ UNCHANGED <<pc, stopped, closing, delay, gotMessage, connectedBefore, sync, slept>>

Done == pc = "done" /\ UNCHANGED vars

LoopStep ==
  \/ Begin \/ Check \/ Session \/ Dial \/ Subscribe \/ Reconcile
  \/ Closed \/ After \/ Sleep

Next == LoopStep \/ Open \/ SubscribeFails \/ Message \/ Drop \/ Stop \/ Expire \/ Done

Spec == Init /\ [][Next]_vars

(***************************************************************************)
(* The loop and its callbacks run; nothing makes the network open a socket,*)
(* deliver, or drop.                                                       *)
(***************************************************************************)
FairSpec == Spec /\ WF_vars(LoopStep)

----------------------------------------------------------------------------

(***************************************************************************)
(* No quote is handled behind an outage before on_reconnect has run: the   *)
(* engine has asked the broker what it missed, or has tried and logged     *)
(* that it could not.                                                      *)
(***************************************************************************)
QuotesAfterReconcile == [][sync = "lost" => ~Message]_vars

(***************************************************************************)
(* While connections stay dead each backoff is twice the one before it, up *)
(* to its cap; only behind a connection that received data, or in a new    *)
(* process, does it start again.                                           *)
(***************************************************************************)
BackoffDoubles ==
  pc = "sleep" => delay = IF slept = 0 THEN ReconnectDelay ELSE Doubled(slept)

(***************************************************************************)
(* A stop() that meets a running socket, a sleep or the end of a           *)
(* connection ends the loop.                                               *)
(***************************************************************************)
StopEnds ==
  (stopped /\ (closing \/ pc \in {"after", "sleep"})) ~> pc = "done"

----------------------------------------------------------------------------
(* What comments claim, and the code does not do. *)

(***************************************************************************)
(* live_engine.py:102-103 "an outage can hide fills/stop-outs, so re-sync  *)
(* local state rather than trust stale memory": quotes are handled on      *)
(* positions that were reconciled after the last outage.                   *)
(***************************************************************************)
QuotesOnReconciled == [][sync # "current" => ~Message]_vars

(***************************************************************************)
(* websocket_client.py:73 "auto-reconnecting on drops until stop()": after *)
(* a stop() no socket is dialled.                                          *)
(***************************************************************************)
NoDialAfterStop == [][Dial => ~stopped]_vars

(***************************************************************************)
(* websocket_client.py:87-88 "Refresh REST session tokens before each      *)
(* (re)connect; a long outage can outlive the ~10-minute session": unless  *)
(* there were none and the login failed, a socket is dialled with tokens   *)
(* that are valid.                                                         *)
(***************************************************************************)
RefreshedBeforeDial == [][Session => (token' = "valid" \/ token = "none")]_vars

=============================================================================
