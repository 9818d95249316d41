------------------------------ MODULE MCStream ------------------------------
(***************************************************************************)
(* The websocket loop with what it feeds: a subscription with tokens the   *)
(* broker accepts lets the quotes flow, a dropped socket loses those on    *)
(* their way, and a process warms up, runs the loop and ends, orderly or   *)
(* not, to be launched again.                                              *)
(***************************************************************************)
EXTENDS WebSocketClient, CandleFeed

StreamInit == Init /\ FeedInit

\* LiveTradingEngine.start in a new process, up to run_forever.
Launch ==
  /\ Warmup
  /\ pc' = "begin"
  /\ UNCHANGED <<stopped, closing, delay, gotMessage, connectedBefore, token,
                 sync, slept>>

\* The loop is over, or the process is killed in it; the next one has a new
\* client (Init).
ProcessEnds ==
  /\ Restart
  /\ pc' = "done"
  /\ stopped' = FALSE /\ closing' = FALSE /\ gotMessage' = FALSE
  /\ delay' = ReconnectDelay
  /\ connectedBefore' = FALSE
  /\ token' = "valid"
  /\ sync' = "current" /\ slept' = 0

Opens ==
  /\ Subscribe
  /\ IF token = "valid" THEN Connect ELSE UNCHANGED feedVars

\* A quote, or a frame that is none.
Frame == Message /\ (UNCHANGED feedVars \/ \E i \in DOMAIN net : OnPrice(i))

Lost(Ends) == Ends /\ IF phase = "stream" THEN Disconnect ELSE UNCHANGED feedVars

FedLoop ==
  /\ phase # "down"
  /\ \/ /\ Begin \/ Check \/ Session \/ Dial \/ Reconcile \/ After \/ Sleep
        /\ UNCHANGED feedVars
     \/ Opens \/ Lost(Closed)

Market == Tick \/ \E price \in Prices, stamp \in Stamps : Trade(price, stamp)

StreamNext ==
  \/ FedLoop \/ Frame \/ Lost(Drop)
  \/ phase # "down" /\ (Open \/ SubscribeFails \/ Stop \/ Expire) /\ UNCHANGED feedVars
  \/ Market /\ UNCHANGED vars
  \/ Launch \/ ProcessEnds

StreamSpec ==
  /\ StreamInit /\ [][StreamNext]_<<vars, feedVars>>
  /\ WF_<<vars, feedVars>>(FedLoop)

(***************************************************************************)
(* websocket_client.py:87-88, "the ws auth reuses them": an open stream is *)
(* one that quotes come on.  (Violated: a socket that re-opens with tokens *)
(* that ran out in the outage stays silent until it drops.)                *)
(***************************************************************************)
StreamingFeeds == pc = "streaming" => phase = "stream"
=============================================================================
