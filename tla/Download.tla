------------------------------ MODULE Download ------------------------------
(***************************************************************************)
(* The download command: a paged fetch of each instrument's history        *)
(* (rest_client.py) written to one CSV file per instrument                 *)
(* (data/storage.py), from which every research command reads its candles. *)
(*                                                                         *)
(* A bar is the number of its timeframe bucket; the broker shows the bars  *)
(* up to `now', the newest of which is still forming.  A history and a     *)
(* file map the times of their bars to candles; a missing file and one     *)
(* without a row both load as no candles.                                  *)
(***************************************************************************)
EXTENDS Integers, Sequences, FiniteSetsExt, Functions

CONSTANTS
  Markets,     \* what the broker may have: a sequence, by instrument
  Starts,      \* times a download may find
  Horizon,     \* bound: no bar opens after it
  Forming(_),  \* a candle, while its bar is the newest
  Totals,      \* --max-bars
  Chunk, MaxRequests,
  Unreadable,  \* a file that load raises on
  NoCursor

ASSUME DownloadAssumption ==
  /\ Totals \subseteq Nat \ {0}
  /\ Chunk \in Nat \ {0} /\ MaxRequests \in Nat \ {0}
  /\ NoCursor \notin Int
  /\ Starts \subseteq Int /\ Horizon \in Int
  /\ \A m \in Markets :
       /\ Len(m) \in Nat \ {0} /\ DOMAIN m = 1..Len(m)
       /\ \A e \in DOMAIN m : IsFiniteSet(DOMAIN m[e]) /\ DOMAIN m[e] \subseteq Int

VARIABLES
  market, now,  \* the broker's
  files,        \* CandleStore.root, by instrument
  fetch         \* the command: where it is (pc) and the locals of its call;
                \* asOf is the time of the instrument's first request

downloadVars == <<market, now, files, fetch>>

NoBars == [t \in {} |-> t]
Newest(times, n) == {t \in times : Cardinality({u \in times : u > t}) < n}

\* The history of an instrument at a time, as the broker shows it.
History(e, time) ==
  [t \in {t \in DOMAIN market[e] : t <= time} |->
     IF t = time THEN Forming(market[e][t]) ELSE market[e][t]]

\* get_historical_prices: the newest `need' bars up to the cursor.
HistoricalPrices(e, need, cursor) ==
  Newest({t \in DOMAIN History(e, now) : cursor = NoCursor \/ t <= cursor}, need)

\* Mutant of CursorBefore: the bar is asked for again.
CursorAt(batch) == Min(batch)

\* A second before the earliest bar of the batch: that is in the bar before it.
CursorBefore(batch) == Min(batch) - 1

----------------------------------------------------------------------------

DownloadInit ==
  /\ market \in Markets /\ now \in Starts
  /\ files = [e \in DOMAIN market |-> NoBars]
  /\ fetch = [pc |-> "idle"]

Paging(e, total) ==
  [pc |-> "page", epic |-> e, total |-> total, got |-> NoBars,
   cursor |-> NoCursor, left |-> MaxRequests, asOf |-> now]

DownloadStarts ==
  /\ fetch.pc \in {"idle", "failed"}
  /\ \E total \in Totals : fetch' = Paging(1, total)
  /\ UNCHANGED <<market, now, files>>

\* The body of the loop of get_historical_prices_paged.
Page ==
  /\ fetch.pc = "page"
  /\ LET seen == DOMAIN fetch.got
         need == Min({Chunk, Max({1, fetch.total - Cardinality(seen)})})
         batch == HistoricalPrices(fetch.epic, need, fetch.cursor)
         got == [t \in seen \cup batch |->
                   IF t \in seen THEN fetch.got[t] ELSE History(fetch.epic, now)[t]]
         last == \/ Cardinality(DOMAIN got) >= fetch.total
                 \/ batch \subseteq seen
                 \/ Cardinality(batch) < need
                 \/ fetch.left = 1
     IN fetch' = [fetch EXCEPT
                    !.got = got,
                    !.left = @ - 1,
                    !.asOf = IF fetch.cursor = NoCursor THEN now ELSE @,
                    !.cursor = IF last THEN @ ELSE CursorBefore(batch),
                    !.pc = IF last THEN "save" ELSE "page"]
  /\ UNCHANGED <<market, now, files>>

\* A request raises, or the command is killed: what it saved before stays.
DownloadFails ==
  /\ fetch.pc \in {"page", "save"}
  /\ fetch' = [pc |-> "failed"]
  /\ UNCHANGED <<market, now, files>>

\* CandleStore.save: open for writing empties the file, ...
SaveOpens ==
  /\ fetch.pc = "save"
  /\ files' = [files EXCEPT ![fetch.epic] = NoBars]
  /\ fetch' = [fetch EXCEPT !.pc = "write"]
  /\ UNCHANGED <<market, now>>

\* ... its rows are there when it is closed; the next instrument follows.
SaveWrites ==
  /\ fetch.pc = "write"
  /\ files' = [files EXCEPT ![fetch.epic] =
                 Restrict(fetch.got, Newest(DOMAIN fetch.got, fetch.total))]
  /\ fetch' = IF fetch.epic = Len(market) THEN [pc |-> "idle"]
                                          ELSE Paging(fetch.epic + 1, fetch.total)
  /\ UNCHANGED <<market, now>>

\* Killed in between: the first rows are there, the last of them in part.
SaveTorn ==
  /\ fetch.pc = "write"
  /\ \/ \E n \in 0..Cardinality(DOMAIN fetch.got) :
          LET rows == DOMAIN fetch.got \ Newest(DOMAIN fetch.got, n)
          IN files' = [files EXCEPT ![fetch.epic] = Restrict(fetch.got, rows)]
     \/ files' = [files EXCEPT ![fetch.epic] = Unreadable]
  /\ fetch' = [pc |-> "failed"]
  /\ UNCHANGED <<market, now>>

\* The next bar opens.
Tick ==
  /\ now < Horizon
  /\ now' = now + 1
  /\ UNCHANGED <<market, files, fetch>>

DownloadNext ==
  DownloadStarts \/ Page \/ DownloadFails \/ SaveOpens \/ SaveWrites \/ SaveTorn \/ Tick

DownloadSpec == DownloadInit /\ [][DownloadNext]_downloadVars

\* Every file holds candles: a command that reads them does not stop at once.
AllStored == \A e \in DOMAIN files : files[e] \notin {NoBars, Unreadable}

\* What a finished save leaves: bars of one history up to its end.
EndOf(e, time, total) ==
  LET shown == History(e, time)
  IN Restrict(shown, Newest(DOMAIN shown, Min({total, Chunk * MaxRequests})))

(***************************************************************************)
(* rest_client.py:199-201, "walk backward [...] (most recent total)": a    *)
(* saved file is the end of the history the broker showed at the first     *)
(* request, as many bars as were asked for or the requests can carry, with *)
(* no bar left out between two pages, whatever opened meanwhile.           *)
(***************************************************************************)
SavedIsTail ==
  [][fetch.pc = "write" /\ fetch'.pc \in {"page", "idle"} =>
       files'[fetch.epic] = EndOf(fetch.epic, fetch.asOf, fetch.total)]_downloadVars
=============================================================================
