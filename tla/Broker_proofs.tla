---------------------------- MODULE Broker_proofs ----------------------------
(***************************************************************************)
(* Proofs about the connections to the broker: the session of the REST     *)
(* client, and the websocket loop with the candles it feeds.               *)
(*                                                                         *)
(* The session: for any number of processes and sessions and any durations *)
(* in the order of the code's constants.  The candles and the loop: for    *)
(* any bar length, prices, history length and delays, and for any length   *)
(* of a run; quotes carry the exchange's time and keep their order         *)
(* (OneClock), and FeedGaps shows what happens to the others.              *)
(***************************************************************************)
EXTENDS RestSession, MCStream, SequenceTheorems, FiniteSetTheorems, TLAPS

----------------------------------------------------------------------------
(* The session: the steps of a process. *)

Act(p) == Call(p) \/ Exit(p) \/ Work(p)

\* Where a process has a request of _raw_request under way.
Requesting == {"acquire", "sent", "backoff"}

(***************************************************************************)
(* A login has no token and a call has one; an answer is there only while  *)
(* a request is sent; a call that is over starts afresh.                   *)
(***************************************************************************)
ClientOK(p) ==
  /\ status[p] # "none" => stage[p] = "sent"
  /\ status[p] \in Sessions => request[p] = "login"
  /\ status[p] = "401" => request[p] = "call"
  /\ stage[p] = "idle" => ~retried[p]
  /\ (stage[p] \in Requesting /\ request[p] = "login") => tok[p] = None
  /\ (stage[p] \in Requesting /\ request[p] = "call") => tok[p] # None
  /\ stage[p] \in {"save", "write"} => tok[p] # None

ClientInv == \A p \in Procs : ClientOK(p)

(***************************************************************************)
(* A step of a process is about itself: the other clients stay as they     *)
(* are.                                                                    *)
(***************************************************************************)
LEMMA OthersStay ==
  ASSUME SessionTypeOK, NEW p \in Procs, Act(p), NEW q \in Procs \ {p}
  PROVE  /\ stage'[q] = stage[q] /\ tok'[q] = tok[q] /\ request'[q] = request[q]
         /\ attempt'[q] = attempt[q] /\ retried'[q] = retried[q]
         /\ status'[q] = status[q] /\ wait'[q] = wait[q]
         /\ slot'[q] = slot[q] /\ since'[q] = since[q]
<1>1. CASE Call(p)
  BY <1>1 DEF Call, GoTo, client, SessionTypeOK
<1>2. CASE Exit(p)
  BY <1>2 DEF Exit, End, GoTo, SessionTypeOK
<1>3. CASE Load(p)
  BY <1>3 DEF Load, RawRequest, GoTo, SessionTypeOK
<1>4. CASE Ensure(p)
  BY <1>4 DEF Ensure, RawRequest, GoTo, SessionTypeOK
<1>5. CASE SendLogin(p)
  <2>1. \E x : status' = [status EXCEPT ![p] = x]
    BY <1>5 DEF SendLogin
  <2> QED
    BY <1>5, <2>1 DEF SendLogin, Acquire, GoTo, SessionTypeOK
<1>6. CASE SendCall(p)
  <2>1. \E x : status' = [status EXCEPT ![p] = x]
    BY <1>6 DEF SendCall
  <2> QED
    BY <1>6, <2>1 DEF SendCall, Acquire, GoTo, SessionTypeOK
<1>7. CASE BackOff(p)
  BY <1>7 DEF BackOff, GoTo, SessionTypeOK
<1>8. CASE Again(p)
  BY <1>8 DEF Again, GoTo, client, SessionTypeOK
<1>9. CASE LoggedIn(p)
  BY <1>9 DEF LoggedIn, GoTo, SessionTypeOK
<1>10. CASE SaveTruncates(p)
  BY <1>10 DEF SaveTruncates, GoTo, client, SessionTypeOK
<1>11. CASE SaveWrites(p)
  BY <1>11 DEF SaveWrites, GoTo, client, SessionTypeOK
<1>12. CASE SaveFails(p)
  BY <1>12 DEF SaveFails, GoTo, client, SessionTypeOK
<1>13. CASE Relogin(p)
  BY <1>13 DEF Relogin, RawRequest, GoTo, SessionTypeOK
<1>14. CASE Return(p)
  BY <1>14 DEF Return, End, GoTo, SessionTypeOK
<1>15. CASE Fail(p)
  BY <1>15 DEF Fail, End, GoTo, SessionTypeOK
<1> QED
  BY <1>1, <1>2, <1>3, <1>4, <1>5, <1>6, <1>7, <1>8, <1>9, <1>10, <1>11, <1>12,
     <1>13, <1>14, <1>15 DEF Act, Work

----------------------------------------------------------------------------
(* A login finds a session nobody uses. *)

(***************************************************************************)
(* There are more sessions than processes, and a process uses one at most: *)
(* its token, or the answer to its login.  The one that logs in uses none, *)
(* which leaves room for the session of the cache.                         *)
(***************************************************************************)
LEMMA SomeUnused ==
  ASSUME SessionTypeOK, ClientInv, NEW p \in Procs, stage[p] = "acquire", request[p] = "login"
  PROVE  Unused # {}
<1> DEFINE uses(q) == IF q = p THEN cache.session
                      ELSE IF tok[q] # None THEN tok[q] ELSE status[q]
           user == [s \in Sessions |-> CHOOSE q \in Procs : uses(q) = s]
<1>1. ASSUME NEW q \in Procs
      PROVE  /\ q = p => tok[q] = None /\ status[q] \notin Sessions
             /\ status[q] \in Sessions => tok[q] = None
  <2>1. ClientOK(q) /\ tok[q] \in Sessions \cup {None}
    BY DEF ClientInv, SessionTypeOK
  <2> QED
    BY <2>1, SessionAssumption DEF ClientOK, Requesting
<1>2. ASSUME Unused = {}, NEW s \in Sessions
      PROVE  \E q \in Procs : uses(q) = s
  <2>1. \/ \E q \in Procs : s = tok[q] \/ s = status[q]
        \/ s = cache.session
    BY <1>2 DEF Unused
  <2> QED
    BY <1>1, <2>1, SessionAssumption
<1> HIDE DEF uses
<1>3. CASE Unused = {}
  <2>1. \A s \in Sessions : user[s] \in Procs /\ uses(user[s]) = s
    BY <1>2, <1>3
  <2> HIDE DEF user
  <2>2. user \in [Sessions -> Procs]
    BY <2>1 DEF user
  <2>3. \E x, y \in Sessions : x # y /\ user[x] = user[y]
    BY <2>2, FS_PigeonHole, SessionAssumption
  <2> QED
    BY <2>1, <2>3
<1> QED
  BY <1>3

----------------------------------------------------------------------------
(* Durations. *)

(***************************************************************************)
(* What the backoff is multiplied with doubles and never shrinks: there    *)
(* are 2^n sets of n numbers.                                              *)
(***************************************************************************)
LEMMA PowersOfTwo ==
  /\ 2^0 = 1
  /\ \A n \in Nat : 2^n \in Nat
  /\ \A n \in Nat : 2^(n + 1) = 2^n + 2^n
  /\ \A m, n \in Nat : m <= n => 2^m <= 2^n
<1> DEFINE Subsets(n) == SUBSET (1..n)
<1>1. ASSUME NEW n \in Nat
      PROVE  IsFiniteSet(Subsets(n)) /\ Cardinality(Subsets(n)) = 2^n
  <2>1. IsFiniteSet(1..n) /\ Cardinality(1..n) = n
    BY FS_Interval
  <2>2. IsFiniteSet(SUBSET (1..n)) /\ Cardinality(SUBSET (1..n)) = 2^Cardinality(1..n)
    BY <2>1, FS_SUBSET, Zenon
  <2> QED
    BY <2>1, <2>2, Zenon
<1>2. ASSUME NEW n \in Nat PROVE 2^n \in Nat
  BY <1>1, FS_CardinalityType, Zenon
<1>3. ASSUME NEW m \in Nat, NEW n \in Nat, m <= n PROVE 2^m <= 2^n
  <2>1. Subsets(m) \subseteq Subsets(n)
    BY <1>3
  <2>2. Cardinality(Subsets(m)) <= Cardinality(Subsets(n))
    BY <1>1, <2>1, FS_Subset, Zenon
  <2> QED
    BY <1>1, <2>2, Zenon
<1>4. ASSUME NEW n \in Nat PROVE 2^(n + 1) = 2^n + 2^n
  <2> DEFINE S == Subsets(n)
             T == {x \cup {n + 1} : x \in S}
             with == [x \in S |-> x \cup {n + 1}]
  <2>1. with \in Bijection(S, T)
    <3>1. with \in [S -> T] /\ \A t \in T : \E x \in S : with[x] = t
      OBVIOUS
    <3>2. ASSUME NEW x \in S, NEW y \in S, with[x] = with[y] PROVE x = y
      <4>1. n + 1 \notin x /\ n + 1 \notin y
        OBVIOUS
      <4>2. x \cup {n + 1} = y \cup {n + 1}
        BY <3>2
      <4> QED
        BY <4>1, <4>2
    <3> QED
      BY <3>1, <3>2 DEF Bijection, Injection, Surjection, IsInjective
  <2>2. IsFiniteSet(T) /\ Cardinality(T) = Cardinality(S)
    BY <1>1, <2>1, FS_Bijection DEF ExistsBijection
  <2>3. Subsets(n + 1) = S \cup T
    <3>1. ASSUME NEW x \in Subsets(n + 1) PROVE x \in S \cup T
      <4>1. CASE n + 1 \notin x
        BY <4>1
      <4>2. CASE n + 1 \in x
        <5>1. x \ {n + 1} \in S
          OBVIOUS
        <5>2. x = (x \ {n + 1}) \cup {n + 1}
          BY <4>2
        <5> QED
          BY <5>1, <5>2
      <4> QED
        BY <4>1, <4>2
    <3>2. 1..n \subseteq 1..(n + 1) /\ n + 1 \in 1..(n + 1)
      OBVIOUS
    <3>3. ASSUME NEW x \in S
          PROVE  x \in Subsets(n + 1) /\ x \cup {n + 1} \in Subsets(n + 1)
      BY <3>2
    <3> DEFINE larger == Subsets(n + 1)
    <3> HIDE DEF Subsets, S, larger
    <3>4. larger = S \cup T
      BY <3>1, <3>3 DEF larger
    <3> QED
      BY <3>4 DEF larger
  <2>4. S \cap T = {}
    <3>1. \A x \in S : n + 1 \notin x
      OBVIOUS
    <3> HIDE DEF S
    <3>2. \A t \in T : n + 1 \in t
      OBVIOUS
    <3> HIDE DEF T
    <3> QED
      BY <3>1, <3>2
  <2> HIDE DEF S, T, Subsets
  <2>5. IsFiniteSet(S) /\ Cardinality(S) = 2^n /\ Cardinality(Subsets(n + 1)) = 2^(n + 1)
    BY <1>1 DEF S
  <2>10. Cardinality(S \cup T) = Cardinality(S) + Cardinality(T) - Cardinality(S \cap T)
    BY <2>2, <2>5, FS_Union
  <2>6. Cardinality(S \cup T) = Cardinality(S) + Cardinality(T) - Cardinality({})
    BY <2>4, <2>10, Zenon
  <2> DEFINE a == 2^n
             b == 2^(n + 1)
  <2>7. a \in Nat
    BY <1>2
  <2>8. b = a + a - 0
    BY <2>2, <2>3, <2>5, <2>6, FS_EmptySet, Zenon
  <2> HIDE DEF a, b
  <2>9. b = a + a
    BY <2>7, <2>8
  <2> QED
    BY <2>9 DEF a, b
<1>5. 2^0 = 1
  <2>1. Subsets(0) = {{}}
    OBVIOUS
  <2>2. Cardinality({{}}) = 1
    BY FS_Singleton
  <2> QED
    BY <1>1, <2>1, <2>2
<1> QED
  BY <1>2, <1>3, <1>4, <1>5

\* The longest from the broker's answer to a login to the attempt-th send of
\* the call behind it.
Budget(a) == Interval + (a + 1) * Timeout + (2^a - 1) * Backoff

LEMMA Scaled ==
  ASSUME NEW a \in Nat, NEW b \in Nat, NEW n \in Nat, a <= b
  PROVE  a * n \in Nat /\ a * n <= b * n
  OBVIOUS

LEMMA Budgets ==
  /\ Budget(0) = Interval + Timeout
  /\ \A a \in Nat : /\ Budget(a) \in Nat /\ Budget(0) <= Budget(a)
                    /\ 2^a * Backoff \in Nat /\ Backoff <= 2^a * Backoff
                    /\ Budget(a + 1) = Budget(a) + Timeout + 2^a * Backoff
  /\ \A a \in 0..MaxRetries : Budget(a) < Life
<1> DEFINE power(n) == 2^n
<1>1. /\ power(0) = 1
      /\ \A n \in Nat : power(n) \in Nat
      /\ \A n \in Nat : power(n + 1) = power(n) + power(n)
      /\ \A m, n \in Nat : m <= n => power(m) <= power(n)
  BY PowersOfTwo, Zenon
<1>2. \A a : Budget(a) = Interval + (a + 1) * Timeout + (power(a) - 1) * Backoff
  BY Zenon DEF Budget
<1>3. Budget(MaxRetries) < Life
  BY SessionAssumption, Zenon DEF LongestRetry, Budget
<1>4. /\ Interval \in Nat /\ Timeout \in Nat /\ Backoff \in Nat
      /\ MaxRetries \in Nat /\ Life \in Nat
  BY SessionAssumption
<1> SUFFICES /\ Budget(0) = Interval + Timeout
             /\ \A a \in Nat : /\ Budget(a) \in Nat /\ Budget(0) <= Budget(a)
                               /\ power(a) * Backoff \in Nat
                               /\ Backoff <= power(a) * Backoff
                               /\ Budget(a + 1) = Budget(a) + Timeout + power(a) * Backoff
             /\ \A a \in 0..MaxRetries : Budget(a) < Life
  BY Zenon
<1> HIDE DEF power
<1>5. Budget(0) = Interval + Timeout
  BY <1>1, <1>2, <1>4
<1>6. ASSUME NEW a \in Nat, NEW b \in Nat, a <= b
      PROVE  Budget(a) \in Nat /\ Budget(a) <= Budget(b)
  <2> DEFINE x == power(a)  y == power(b)
  <2>0. 0 <= a /\ 0 \in Nat
    OBVIOUS
  <2>1. x \in Nat /\ y \in Nat /\ 1 <= x /\ x <= y
    BY <1>1, <1>6, <2>0
  <2>2. /\ Budget(a) = Interval + (a + 1) * Timeout + (x - 1) * Backoff
        /\ Budget(b) = Interval + (b + 1) * Timeout + (y - 1) * Backoff
    BY <1>2
  <2> HIDE DEF x, y
  <2>3. (a + 1) * Timeout \in Nat /\ (a + 1) * Timeout <= (b + 1) * Timeout
    BY <1>4, <1>6, Scaled
  <2>4. (x - 1) * Backoff \in Nat /\ (x - 1) * Backoff <= (y - 1) * Backoff
    <3>1. x - 1 \in Nat /\ y - 1 \in Nat /\ x - 1 <= y - 1
      BY <2>1
    <3> QED
      BY <1>4, <3>1, Scaled
  <2>5. (b + 1) * Timeout \in Nat /\ (y - 1) * Backoff \in Nat
    BY <1>4, <2>1
  <2> QED
    BY <1>4, <2>2, <2>3, <2>4, <2>5
<1>7. ASSUME NEW a \in Nat
      PROVE  /\ power(a) * Backoff \in Nat
             /\ Backoff <= power(a) * Backoff
             /\ Budget(a + 1) = Budget(a) + Timeout + power(a) * Backoff
  <2> DEFINE x == power(a)
  <2>0. 0 <= a /\ 0 \in Nat
    OBVIOUS
  <2>1. x \in Nat /\ 1 <= x /\ power(a + 1) = x + x
    BY <1>1, <2>0
  <2>2. /\ Budget(a) = Interval + (a + 1) * Timeout + (x - 1) * Backoff
        /\ Budget(a + 1) = Interval + ((a + 1) + 1) * Timeout + ((x + x) - 1) * Backoff
    BY <1>2, <2>1
  <2> HIDE DEF x
  <2>3. x * Backoff \in Nat /\ Backoff <= x * Backoff
    BY <1>4, <2>1
  <2>4. /\ ((a + 1) + 1) * Timeout = (a + 1) * Timeout + Timeout
        /\ (a + 1) * Timeout \in Nat
    BY <1>4
  <2>6. /\ ((x + x) - 1) * Backoff = (x - 1) * Backoff + x * Backoff
        /\ (x - 1) * Backoff \in Nat
    BY <1>4, <2>1
  <2>5. Budget(a + 1) = Budget(a) + Timeout + x * Backoff
    BY <1>4, <2>2, <2>3, <2>4, <2>6
  <2> QED
    BY <2>3, <2>5 DEF x
<1>8. \A a \in Nat : Budget(a) \in Nat /\ Budget(0) <= Budget(a)
  BY <1>6
<1>9. ASSUME NEW a \in 0..MaxRetries PROVE Budget(a) < Life
  <2>1. Budget(a) <= Budget(MaxRetries)
    BY <1>4, <1>6
  <2> QED
    BY <1>3, <1>4, <1>8, <2>1
<1> QED
  BY <1>5, <1>7, <1>8, <1>9

LEMMA BudgetBounds ==
  \A a \in 0..MaxRetries : /\ a \in Nat
                           /\ Budget(a) \in Nat
                           /\ Interval + Timeout <= Budget(a)
                           /\ Budget(a) < Life
<1>1. ASSUME NEW a \in 0..MaxRetries
      PROVE  /\ a \in Nat
             /\ Budget(a) \in Nat
             /\ Interval + Timeout <= Budget(a)
             /\ Budget(a) < Life
  <2>1. a \in Nat
    BY SessionAssumption
  <2>2. Budget(a) \in Nat /\ Budget(0) <= Budget(a) /\ Budget(0) = Interval + Timeout
        /\ Budget(a) < Life
    BY <2>1, Budgets, Zenon
  <2> QED
    BY <2>1, <2>2
<1> QED
  BY <1>1

----------------------------------------------------------------------------
(* The clients. *)

(***************************************************************************)
(* A login is answered with a session, and nothing else is.                *)
(***************************************************************************)
LEMMA LoginTakesUnused ==
  ASSUME SessionTypeOK, ClientInv, NEW p \in Procs, SendLogin(p)
  PROVE  \/ \E s \in Unused : /\ idle' = [idle EXCEPT ![s] = 0]
                              /\ status' = [status EXCEPT ![p] = s]
         \/ \E a \in {"busy", "error"} : status' = [status EXCEPT ![p] = a] /\ idle' = idle
<1>1. Unused # {}
  BY SomeUnused DEF SendLogin
<1>2. (CHOOSE s \in Unused : TRUE) \in Unused
  BY <1>1
<1> QED
  BY <1>2 DEF SendLogin

LEMMA ActKeepsTypes ==
  ASSUME SessionTypeOK, ClientInv, NEW p \in Procs, Act(p)
  PROVE  SessionTypeOK'
<1>0. /\ Interval \in Nat /\ Timeout \in Nat /\ MaxRetries \in Nat /\ Ttl \in Nat
      /\ Life \in Nat
  BY SessionAssumption
<1>1. CASE Call(p)
  BY <1>1 DEF Call, GoTo, client, SessionTypeOK
<1>2. CASE Exit(p)
  BY <1>0, <1>2 DEF Exit, End, GoTo, SessionTypeOK
<1>3. CASE Load(p)
  <2>1. cache.session \in Sessions
    BY <1>3 DEF Load, Fresh, SessionTypeOK, Caches
  <2> QED
    BY <1>0, <1>3, <2>1 DEF Load, RawRequest, GoTo, SessionTypeOK
<1>4. CASE Ensure(p)
  BY <1>0, <1>4 DEF Ensure, RawRequest, GoTo, SessionTypeOK
<1>5. CASE SendLogin(p)
  <2>1. /\ idle' \in [Sessions -> 0..Revoked]
        /\ status' \in [Procs -> {"none", "ok", "busy", "401", "error"} \cup Sessions]
    BY <1>0, <1>5, LoginTakesUnused DEF Unused, Revoked, SessionTypeOK
  <2> QED
    BY <1>0, <1>5, <2>1 DEF SendLogin, Acquire, GoTo, SessionTypeOK
<1>6. CASE SendCall(p)
  <2>1. /\ idle' \in [Sessions -> 0..Revoked]
        /\ status' \in [Procs -> {"none", "ok", "busy", "401", "error"} \cup Sessions]
    BY <1>0, <1>6 DEF SendCall, Revoked, SessionTypeOK
  <2> QED
    BY <1>0, <1>6, <2>1 DEF SendCall, Acquire, GoTo, SessionTypeOK
<1>7. CASE BackOff(p)
  <2> DEFINE sleep == 2^attempt[p] * Backoff
  <2>1. attempt[p] \in Nat
    BY <1>0 DEF SessionTypeOK
  <2>2. sleep \in Nat
    BY <2>1, Budgets
  <2>3. wait' = [wait EXCEPT ![p] = sleep]
    BY <1>7 DEF BackOff
  <2> HIDE DEF sleep
  <2> QED
    BY <1>0, <1>7, <2>2, <2>3 DEF BackOff, GoTo, SessionTypeOK
<1>8. CASE Again(p)
  BY <1>8 DEF Again, GoTo, client, SessionTypeOK
<1>9. CASE LoggedIn(p)
  BY <1>9 DEF LoggedIn, GoTo, SessionTypeOK
<1>10. CASE SaveTruncates(p)
  BY <1>10 DEF SaveTruncates, GoTo, client, SessionTypeOK, Caches
<1>11. CASE SaveWrites(p)
  <2>1. ClientOK(p)
    BY DEF ClientInv
  <2>2. cache' \in Caches
    BY <1>0, <1>11, <2>1 DEF SaveWrites, ClientOK, SessionTypeOK, Caches
  <2> QED
    BY <1>11, <2>2 DEF SaveWrites, GoTo, client, SessionTypeOK
<1>12. CASE SaveFails(p)
  BY <1>12 DEF SaveFails, GoTo, client, SessionTypeOK
<1>13. CASE Relogin(p)
  BY <1>0, <1>13 DEF Relogin, RawRequest, GoTo, SessionTypeOK, Caches
<1>14. CASE Return(p)
  BY <1>0, <1>14 DEF Return, End, GoTo, SessionTypeOK
<1>15. CASE Fail(p)
  BY <1>0, <1>15 DEF Fail, End, GoTo, SessionTypeOK
<1> QED
  BY <1>1, <1>2, <1>3, <1>4, <1>5, <1>6, <1>7, <1>8, <1>9, <1>10, <1>11, <1>12,
     <1>13, <1>14, <1>15 DEF Act, Work

LEMMA ActKeepsClients ==
  ASSUME SessionTypeOK, ClientInv, NEW p \in Procs, Act(p)
  PROVE  ClientInv'
<1>1. ASSUME NEW q \in Procs \ {p} PROVE ClientOK(q)'
  BY <1>1, OthersStay DEF ClientInv, ClientOK
<1>2. ClientOK(p)
  BY DEF ClientInv
<1>3. /\ None \notin Sessions
      /\ Sessions \cap {"none", "ok", "busy", "401", "error"} = {}
  BY SessionAssumption
<1>4. ClientOK(p)'
  <2>1. CASE Call(p)
    BY <1>2, <2>1 DEF Call, GoTo, client, SessionTypeOK, ClientOK, Requesting
  <2>2. CASE Exit(p)
    BY <1>3, <2>2 DEF Exit, End, GoTo, SessionTypeOK, ClientOK, Requesting
  <2>3. CASE Load(p)
    <3>1. cache.session \in Sessions
      BY <2>3 DEF Load, Fresh, SessionTypeOK, Caches
    <3> QED
      BY <1>2, <1>3, <2>3, <3>1 DEF Load, RawRequest, GoTo, SessionTypeOK, ClientOK, Requesting
  <2>4. CASE Ensure(p)
    BY <1>2, <1>3, <2>4 DEF Ensure, RawRequest, GoTo, SessionTypeOK, ClientOK, Requesting
  <2>5. CASE SendLogin(p)
    BY <1>2, <1>3, <2>5, LoginTakesUnused
       DEF SendLogin, Unused, GoTo, SessionTypeOK, ClientOK, Requesting
  <2>6. CASE SendCall(p)
    BY <1>2, <1>3, <2>6 DEF SendCall, GoTo, SessionTypeOK, ClientOK, Requesting
  <2>7. CASE BackOff(p)
    BY <1>2, <1>3, <2>7 DEF BackOff, GoTo, SessionTypeOK, ClientOK, Requesting
  <2>8. CASE Again(p)
    BY <1>2, <2>8 DEF Again, GoTo, client, SessionTypeOK, ClientOK, Requesting
  <2>9. CASE LoggedIn(p)
    BY <1>2, <1>3, <2>9 DEF LoggedIn, GoTo, SessionTypeOK, ClientOK, Requesting
  <2>10. CASE SaveTruncates(p)
    BY <1>2, <2>10 DEF SaveTruncates, GoTo, client, SessionTypeOK, ClientOK, Requesting
  <2>11. CASE SaveWrites(p)
    BY <1>2, <2>11 DEF SaveWrites, GoTo, client, SessionTypeOK, ClientOK, Requesting
  <2>12. CASE SaveFails(p)
    BY <1>2, <2>12 DEF SaveFails, GoTo, client, SessionTypeOK, ClientOK, Requesting
  <2>13. CASE Relogin(p)
    BY <1>3, <2>13 DEF Relogin, RawRequest, GoTo, SessionTypeOK, ClientOK, Requesting
  <2>14. CASE Return(p)
    BY <1>3, <2>14 DEF Return, End, GoTo, SessionTypeOK, ClientOK, Requesting
  <2>15. CASE Fail(p)
    BY <1>3, <2>15 DEF Fail, End, GoTo, SessionTypeOK, ClientOK, Requesting
  <2> QED
    BY <2>1, <2>2, <2>3, <2>4, <2>5, <2>6, <2>7, <2>8, <2>9, <2>10, <2>11, <2>12,
       <2>13, <2>14, <2>15 DEF Act, Work
<1> QED
  BY <1>1, <1>4 DEF ClientInv

(***************************************************************************)
(* Time and the broker leave the clients' program alone.                   *)
(***************************************************************************)
LEMMA TimeKeepsClients ==
  ASSUME SessionTypeOK, ClientInv, TimePasses \/ (\E s \in Sessions : Revoke(s)) \/ UNCHANGED sessionVars
  PROVE  SessionTypeOK' /\ ClientInv'
<1>0. /\ Interval \in Nat /\ Ttl \in Nat /\ Life \in Nat
  BY SessionAssumption
<1>1. CASE TimePasses
  <2>1. /\ wait' \in [Procs -> Nat] /\ slot' \in [Procs -> 0..Interval]
        /\ since' \in [Procs -> 0..Interval]
    BY <1>0, <1>1 DEF TimePasses, Less, More, SessionTypeOK
  <2>2. idle' \in [Sessions -> 0..Revoked]
    BY <1>0, <1>1 DEF TimePasses, Live, Revoked, SessionTypeOK
  <2>3. cache' \in Caches
    BY <1>0, <1>1 DEF TimePasses, More, Caches, SessionTypeOK
  <2>4. UNCHANGED <<stage, tok, request, attempt, retried, status>>
    BY <1>1 DEF TimePasses
  <2> QED
    BY <2>1, <2>2, <2>3, <2>4 DEF SessionTypeOK, ClientInv, ClientOK
<1>2. ASSUME NEW s \in Sessions, Revoke(s) PROVE SessionTypeOK' /\ ClientInv'
  BY <1>0, <1>2 DEF Revoke, client, Revoked, SessionTypeOK, ClientInv, ClientOK
<1>3. CASE UNCHANGED sessionVars
  BY <1>3 DEF sessionVars, SessionTypeOK, ClientInv, ClientOK
<1> QED
  BY <1>1, <1>2, <1>3

LEMMA ClientsOK == SessionSpec => [](SessionTypeOK /\ ClientInv)
<1>1. SessionInit => SessionTypeOK /\ ClientInv
  BY SessionAssumption DEF SessionInit, SessionTypeOK, Caches, Revoked, ClientInv, ClientOK, Requesting
<1>2. (SessionTypeOK /\ ClientInv) /\ [SessionNext]_sessionVars => (SessionTypeOK /\ ClientInv)'
  BY ActKeepsTypes, ActKeepsClients, TimeKeepsClients DEF SessionNext, Act
<1> QED
  BY <1>1, <1>2, PTL DEF SessionSpec

----------------------------------------------------------------------------
(* The limiter. *)

(***************************************************************************)
(* What is left until the next slot is what is missing from Interval since *)
(* the last request.                                                       *)
(***************************************************************************)
SpaceInv == \A p \in Procs : since[p] + slot[p] >= Interval

LEMMA NextSpace ==
  ASSUME SessionTypeOK, ClientInv, SpaceInv, [SessionNext]_sessionVars
  PROVE  SpaceInv'
<1>0. Interval \in Nat /\ \A p \in Procs : since[p] \in 0..Interval /\ slot[p] \in 0..Interval
  BY SessionAssumption DEF SessionTypeOK
<1>1. ASSUME NEW p \in Procs, Act(p) PROVE SpaceInv'
  <2>1. \A q \in Procs \ {p} : slot'[q] = slot[q] /\ since'[q] = since[q]
    BY <1>1, OthersStay
  <2>2. \/ slot'[p] = slot[p] /\ since'[p] = since[p]
        \/ since'[p] = Interval /\ slot'[p] = 0
        \/ since'[p] = 0 /\ slot'[p] = Interval
    BY <1>1 DEF Act, Work, SessionTypeOK, Call, Exit, Load, Ensure, SendLogin, SendCall, Acquire,
                BackOff, Again, LoggedIn, SaveTruncates, SaveWrites, SaveFails, Relogin,
                Return, Fail
  <2> QED
    BY <1>0, <2>1, <2>2 DEF SpaceInv
<1>2. CASE TimePasses
  BY <1>0, <1>2 DEF TimePasses, Less, More, SpaceInv
<1>3. CASE (\E s \in Sessions : Revoke(s)) \/ UNCHANGED sessionVars
  BY <1>3 DEF Revoke, sessionVars, SpaceInv
<1> QED
  BY <1>1, <1>2, <1>3 DEF SessionNext, Act

(***************************************************************************)
(* RateLimiter.acquire keeps the requests of a client apart, logins,       *)
(* repetitions after a 401 and retries after a backoff included            *)
(* (rate_limiter.py:20-32, rest_client.py:_raw_request).                   *)
(***************************************************************************)
THEOREM RequestsSpaced == SessionSpec => Spaced
<1>1. SessionInit => SpaceInv
  BY SessionAssumption DEF SessionInit, SpaceInv
<1>2. (SessionTypeOK /\ ClientInv) /\ SpaceInv /\ [SessionNext]_sessionVars => SpaceInv'
  BY NextSpace
<1>3. (SessionTypeOK /\ ClientInv) /\ SpaceInv /\ [SessionNext]_sessionVars =>
        [\A p \in Procs : SendLogin(p) \/ SendCall(p) => since[p] = Interval]_sessionVars
  <2> SUFFICES ASSUME SessionTypeOK, SpaceInv, NEW p \in Procs, SendLogin(p) \/ SendCall(p)
               PROVE  since[p] = Interval
    OBVIOUS
  <2>1. slot[p] = 0
    BY DEF SendLogin, SendCall, Acquire
  <2> QED
    BY <2>1, SessionAssumption DEF SpaceInv, SessionTypeOK
<1> QED
  BY <1>1, <1>2, <1>3, ClientsOK, PTL DEF SessionSpec, Spaced

----------------------------------------------------------------------------
(* The age of sessions. *)

\* A session idle for i has been revoked, or is idle for n at most when
\* another w ticks have passed.
Within(i, w, n) == i = Revoked \/ i + w <= n

InUse == Sessions \ Unused

(***************************************************************************)
(* A session somebody uses grows no older but by a tick, and never comes   *)
(* back once it was revoked.                                               *)
(***************************************************************************)
LEMMA ActAges ==
  ASSUME SessionTypeOK, ClientInv, NEW p \in Procs, Act(p), NEW s \in InUse
  PROVE  idle'[s] = idle[s] \/ (idle[s] < Life /\ idle'[s] = 0)
<1>1. CASE SendLogin(p)
  BY <1>1, LoginTakesUnused DEF Unused, InUse, SessionTypeOK
<1>2. CASE SendCall(p)
  BY <1>2 DEF SendCall, Live, InUse, SessionTypeOK
<1>3. CASE ~SendLogin(p) /\ ~SendCall(p)
  <2>1. UNCHANGED idle
    BY <1>3 DEF Act, Work, Call, Exit, Load, Ensure, BackOff, Again, LoggedIn, SaveTruncates,
                SaveWrites, SaveFails, Relogin, Return, Fail
  <2> QED
    BY <2>1
<1> QED
  BY <1>1, <1>2, <1>3

LEMMA StaysWithin ==
  ASSUME SessionTypeOK, ClientInv, NEW s \in InUse,
         \/ \E p \in Procs : Act(p)
         \/ \E r \in Sessions : Revoke(r)
         \/ UNCHANGED sessionVars
  PROVE  /\ idle[s] = Revoked => idle'[s] = Revoked
         /\ \A w, n \in Nat : Within(idle[s], w, n) => Within(idle'[s], w, n)
<1>0. Life \in Nat /\ idle[s] \in 0..Revoked
  BY SessionAssumption DEF SessionTypeOK, InUse
<1>1. \/ idle'[s] = idle[s] \/ idle'[s] = Revoked
      \/ idle[s] < Life /\ idle'[s] = 0
  BY ActAges DEF Revoke, sessionVars, SessionTypeOK, InUse
<1> QED
  BY <1>0, <1>1 DEF Within, Revoked

LEMMA TickAges ==
  ASSUME SessionTypeOK, TimePasses, NEW s \in InUse
  PROVE  /\ idle[s] = Revoked => idle'[s] = Revoked
         /\ \A w, n \in Nat : (w > 0 /\ Within(idle[s], w, n)) => Within(idle'[s], w - 1, n)
         /\ \A w, n \in Nat : Within(idle[s], w, n) => Within(idle'[s], w, n + 1)
<1>0. Life \in Nat /\ idle[s] \in 0..Revoked
  BY SessionAssumption DEF SessionTypeOK, InUse
<1>1. idle'[s] = IF Live(s) THEN idle[s] + 1 ELSE idle[s]
  BY DEF TimePasses, InUse
<1> QED
  BY <1>0, <1>1 DEF Within, Revoked, Live

----------------------------------------------------------------------------
(* The age of the tokens. *)

Cached == cache \notin {NoCache, Torn}

(***************************************************************************)
(* A token is as old as its login, its save and its file at most; the one  *)
(* a 401 made the client fetch is as old as its login and the retries      *)
(* behind it.                                                              *)
(***************************************************************************)
CacheOK == Cached => \/ cache.age > Ttl
                     \/ Within(idle[cache.session], 0, cache.age + Timeout)

LoginOK(p) ==
  /\ stage[p] \in {"save", "write"} => Within(idle[tok[p]], 0, Timeout)
  /\ status[p] \in Sessions => Within(idle[status[p]], wait[p], Timeout)

RetryOK(p) ==
  retried[p] =>
    /\ stage[p] = "ensure" => tok[p] # None /\ Within(idle[tok[p]], 0, Timeout)
    /\ (stage[p] = "acquire" /\ request[p] = "call")
         => Within(idle[tok[p]], slot[p], Budget(attempt[p]))
    /\ (stage[p] = "sent" /\ request[p] = "call")
         => Within(idle[tok[p]], wait[p], Budget(attempt[p]) + Timeout)
    /\ (stage[p] = "backoff" /\ request[p] = "call")
         => Within(idle[tok[p]], wait[p], Budget(attempt[p])) /\ slot[p] <= wait[p]
    /\ status[p] = "401" => idle[tok[p]] = Revoked

AgeInv == CacheOK /\ \A p \in Procs : LoginOK(p) /\ RetryOK(p)

\* What a client holds is taken.
LEMMA HeldIsTaken ==
  ASSUME SessionTypeOK, NEW p \in Procs
  PROVE  /\ tok[p] # None => tok[p] \in InUse
         /\ status[p] \in Sessions => status[p] \in InUse
  BY DEF SessionTypeOK, InUse, Unused

LEMMA CachedIsTaken ==
  ASSUME SessionTypeOK, Cached
  PROVE  /\ cache \in [session : Sessions, age : 0..Ttl + 1]
         /\ cache.session \in InUse /\ cache.age \in Nat
<1>1. cache \in [session : Sessions, age : 0..Ttl + 1]
  BY DEF SessionTypeOK, Caches, Cached
<1> QED
  BY <1>1, SessionAssumption DEF Cached, InUse, Unused

\* Steps of others do not age what a client holds.
LEMMA OthersDoNotAge ==
  ASSUME SessionTypeOK, ClientInv, AgeInv, NEW q \in Procs,
         UNCHANGED <<stage[q], tok[q], request[q], attempt[q], retried[q], status[q],
                     wait[q], slot[q]>>,
         \/ \E p \in Procs : Act(p)
         \/ \E r \in Sessions : Revoke(r)
         \/ UNCHANGED sessionVars
  PROVE  LoginOK(q)' /\ RetryOK(q)'
<1>1. \A s \in InUse : /\ idle[s] = Revoked => idle'[s] = Revoked
                       /\ \A w, n \in Nat : Within(idle[s], w, n) => Within(idle'[s], w, n)
  BY StaysWithin
<1>2. /\ Timeout \in Nat /\ wait[q] \in Nat /\ slot[q] \in Nat
      /\ Budget(attempt[q]) \in Nat /\ Budget(attempt[q]) + Timeout \in Nat
  <2>1. /\ Timeout \in Nat /\ wait[q] \in Nat /\ slot[q] \in 0..Interval
        /\ Interval \in Nat /\ MaxRetries \in Nat /\ attempt[q] \in 0..MaxRetries
    BY SessionAssumption DEF SessionTypeOK
  <2> QED
    BY <2>1, BudgetBounds
<1>3. ClientOK(q) /\ LoginOK(q) /\ RetryOK(q)
  BY DEF ClientInv, AgeInv
<1>4. LoginOK(q)'
  BY <1>1, <1>2, <1>3, HeldIsTaken DEF ClientOK, LoginOK
<1>5. RetryOK(q)'
  BY <1>1, <1>2, <1>3, HeldIsTaken DEF ClientOK, RetryOK, Requesting
<1> QED
  BY <1>4, <1>5

----------------------------------------------------------------------------
(* A process's own step. *)

LEMMA OwnStepAges ==
  ASSUME SessionTypeOK, ClientInv, AgeInv, NEW p \in Procs, Act(p)
  PROVE  LoginOK(p)' /\ RetryOK(p)'
<1>1. /\ Timeout \in Nat /\ Interval \in Nat /\ Backoff \in Nat /\ Life \in Nat
      /\ MaxRetries \in Nat /\ Interval <= Backoff /\ None \notin Sessions
      /\ Sessions \cap {"none", "ok", "busy", "401", "error"} = {}
  BY SessionAssumption
<1>2. ClientOK(p) /\ LoginOK(p) /\ RetryOK(p)
  BY DEF ClientInv, AgeInv
<1>3. /\ wait[p] \in Nat /\ slot[p] \in 0..Interval /\ attempt[p] \in 0..MaxRetries
      /\ attempt[p] \in Nat /\ Budget(attempt[p]) \in Nat
      /\ Budget(attempt[p]) < Life
      /\ Budget(0) = Interval + Timeout
  <2>1. wait[p] \in Nat /\ slot[p] \in 0..Interval /\ attempt[p] \in 0..MaxRetries
    BY DEF SessionTypeOK
  <2>2. Budget(0) = Interval + Timeout
    BY Budgets, Zenon
  <2> QED
    BY <2>1, <2>2, BudgetBounds, Zenon
<1>4. CASE Call(p)
  BY <1>1, <1>2, <1>4 DEF Call, GoTo, client, SessionTypeOK, ClientOK, LoginOK, RetryOK
<1>5. CASE Exit(p)
  BY <1>1, <1>5 DEF Exit, End, GoTo, SessionTypeOK, LoginOK, RetryOK
<1>6. CASE Load(p)
  BY <1>1, <1>2, <1>6 DEF Load, RawRequest, GoTo, SessionTypeOK, LoginOK, RetryOK
<1>7. CASE Ensure(p)
  <2>1. ~retried[p] \/ (tok[p] # None /\ Within(idle[tok[p]], 0, Timeout))
    BY <1>2, <1>7 DEF Ensure, RetryOK
  <2>2. tok[p] # None => idle[tok[p]] \in Nat
    BY <1>1 DEF SessionTypeOK, Revoked
  <2>3. ~retried[p] \/ (tok[p] # None /\ Within(idle[tok[p]], slot[p], Budget(0)))
    BY <1>1, <1>3, <2>1, <2>2 DEF Within
  <2> QED
    BY <1>1, <1>7, <2>3 DEF Ensure, RawRequest, GoTo, SessionTypeOK, LoginOK, RetryOK
<1>8. CASE SendLogin(p)
  <2>1. /\ stage'[p] = "sent" /\ request'[p] = "login" /\ wait'[p] = Timeout
        /\ status'[p] # "401"
        /\ status'[p] \in Sessions => idle'[status'[p]] = 0
    <3>1. \/ \E s \in Unused : /\ idle' = [idle EXCEPT ![s] = 0]
                                /\ status' = [status EXCEPT ![p] = s]
          \/ \E a \in {"busy", "error"} : status' = [status EXCEPT ![p] = a]
      BY <1>8, LoginTakesUnused
    <3>2. \/ status'[p] \in Sessions /\ idle'[status'[p]] = 0
          \/ status'[p] \in {"busy", "error"}
      BY <3>1 DEF Unused, SessionTypeOK
    <3> QED
      BY <1>1, <1>8, <3>2 DEF SendLogin, GoTo, SessionTypeOK
  <2> QED
    BY <1>1, <2>1 DEF LoginOK, RetryOK, Within
<1>9. CASE SendCall(p)
  <2>1. /\ stage'[p] = "sent" /\ tok' = tok /\ wait'[p] = Timeout /\ status'[p] \notin Sessions
        /\ retried' = retried /\ attempt' = attempt
    BY <1>1, <1>9 DEF SendCall, GoTo, SessionTypeOK
  <2>2. \/ idle'[tok[p]] = 0 /\ status'[p] # "401"
        \/ idle' = idle /\ (status'[p] = "401" => ~Live(tok[p]))
    BY <1>2, <1>9 DEF SendCall, SessionTypeOK, ClientOK, Requesting
  <2>3. idle[tok[p]] \in Nat
    BY <1>1, <1>2, <1>9 DEF SendCall, SessionTypeOK, Revoked, ClientOK, Requesting
  <2>4. retried[p] => Within(idle[tok[p]], 0, Budget(attempt[p]))
    BY <1>2, <1>9 DEF SendCall, Acquire, RetryOK
  <2>5. retried[p] => /\ Within(idle'[tok[p]], Timeout, Budget(attempt[p]) + Timeout)
                      /\ status'[p] = "401" => idle'[tok[p]] = Revoked
    BY <1>1, <1>3, <2>2, <2>3, <2>4 DEF Within, Live
  <2> QED
    BY <2>1, <2>5 DEF LoginOK, RetryOK
<1>10. CASE BackOff(p)
  <2> DEFINE a == attempt[p]
             sleep == 2^a * Backoff
  <2>1. /\ sleep \in Nat /\ Backoff <= sleep
        /\ Budget(a + 1) = Budget(a) + Timeout + sleep
    BY <1>3, Budgets, Zenon
  <2>2. /\ stage'[p] = "backoff" /\ wait'[p] = sleep /\ attempt'[p] = a + 1
        /\ status'[p] = "none" /\ UNCHANGED <<tok, retried, request, slot, idle>>
        /\ stage[p] = "sent"
    BY <1>10, Zenon DEF BackOff, GoTo, SessionTypeOK
  <2>3. (retried[p] /\ request[p] = "call")
          => tok[p] # None /\ Within(idle[tok[p]], wait[p], Budget(a) + Timeout)
    BY <1>2, <2>2 DEF RetryOK, ClientOK, Requesting
  <2>4. tok[p] # None => idle[tok[p]] \in Nat
    BY <1>1 DEF SessionTypeOK, Revoked
  <2>5. a \in Nat /\ Budget(a) \in Nat
    BY <1>3
  <2> HIDE DEF sleep, a
  <2>6. (retried[p] /\ request[p] = "call")
          => Within(idle[tok[p]], sleep, Budget(a + 1)) /\ slot[p] <= sleep
    BY <1>1, <1>3, <2>1, <2>3, <2>4, <2>5 DEF Within
  <2> QED
    BY <1>1, <2>2, <2>6 DEF LoginOK, RetryOK
<1>11. CASE Again(p)
  BY <1>1, <1>2, <1>3, <1>11 DEF Again, GoTo, client, SessionTypeOK, ClientOK, LoginOK, RetryOK
<1>12. CASE LoggedIn(p)
  <2>1. Within(idle[status[p]], 0, Timeout)
    BY <1>1, <1>2, <1>3, <1>12 DEF LoggedIn, LoginOK, SessionTypeOK, Within, Revoked
  <2> QED
    BY <1>1, <1>12, <2>1 DEF LoggedIn, GoTo, SessionTypeOK, LoginOK, RetryOK
<1>13. CASE SaveTruncates(p)
  BY <1>1, <1>2, <1>13 DEF SaveTruncates, GoTo, client, SessionTypeOK, ClientOK, LoginOK, RetryOK
<1>14. CASE SaveWrites(p)
  BY <1>1, <1>2, <1>14 DEF SaveWrites, GoTo, client, SessionTypeOK, ClientOK, LoginOK, RetryOK
<1>15. CASE SaveFails(p)
  BY <1>1, <1>2, <1>15 DEF SaveFails, GoTo, client, SessionTypeOK, ClientOK, LoginOK, RetryOK
<1>16. CASE Relogin(p)
  BY <1>1, <1>16 DEF Relogin, RawRequest, GoTo, SessionTypeOK, LoginOK, RetryOK
<1>17. CASE Return(p)
  BY <1>1, <1>17 DEF Return, End, GoTo, SessionTypeOK, LoginOK, RetryOK
<1>18. CASE Fail(p)
  BY <1>1, <1>18 DEF Fail, End, GoTo, SessionTypeOK, LoginOK, RetryOK
<1> QED
  BY <1>4, <1>5, <1>6, <1>7, <1>8, <1>9, <1>10, <1>11, <1>12, <1>13, <1>14, <1>15,
     <1>16, <1>17, <1>18 DEF Act, Work

(***************************************************************************)
(* The cache names a session as old as the file, and the login before it.  *)
(***************************************************************************)
LEMMA CacheStays ==
  ASSUME SessionTypeOK, ClientInv, AgeInv, UNCHANGED cache,
         \/ \E p \in Procs : Act(p)
         \/ \E r \in Sessions : Revoke(r)
         \/ UNCHANGED sessionVars
  PROVE  CacheOK'
<1>1. Cached => cache.session \in InUse /\ cache.age \in Nat
  BY CachedIsTaken
<1>2. Timeout \in Nat /\ (Cached => 0 \in Nat /\ cache.age + Timeout \in Nat)
  BY <1>1, SessionAssumption
<1>3. Cached => \/ cache.age > Ttl
                \/ Within(idle[cache.session], 0, cache.age + Timeout)
  BY DEF AgeInv, CacheOK
<1>4. Cached /\ Within(idle[cache.session], 0, cache.age + Timeout)
        => Within(idle'[cache.session], 0, cache.age + Timeout)
  BY <1>1, <1>2, StaysWithin
<1> QED
  BY <1>1, <1>2, <1>3, <1>4 DEF CacheOK, Cached

LEMMA ActKeepsCache ==
  ASSUME SessionTypeOK, ClientInv, AgeInv, NEW p \in Procs, Act(p)
  PROVE  CacheOK'
<1>1. CASE UNCHANGED cache
  BY <1>1, CacheStays
<1>2. CASE SaveTruncates(p) \/ Relogin(p)
  BY <1>2 DEF SaveTruncates, Relogin, CacheOK, Cached
<1>3. CASE SaveWrites(p)
  <2>1. Within(idle[tok[p]], 0, Timeout)
    BY <1>3 DEF SaveWrites, AgeInv, LoginOK
  <2>2. cache'.session = tok[p] /\ cache'.age = 0 /\ idle' = idle
    BY <1>3 DEF SaveWrites
  <2> QED
    BY <2>1, <2>2, SessionAssumption DEF CacheOK
<1> QED
  BY <1>1, <1>2, <1>3
     DEF Act, Work, Call, Exit, Load, Ensure, SendLogin, SendCall, BackOff, Again, LoggedIn,
         SaveFails, Return, Fail

----------------------------------------------------------------------------
(* Time. *)

LEMMA TickKeepsAges ==
  ASSUME SessionTypeOK, ClientInv, AgeInv, TimePasses
  PROVE  AgeInv'
<1>1. \A s \in InUse :
        /\ idle[s] = Revoked => idle'[s] = Revoked
        /\ \A w, n \in Nat : (w > 0 /\ Within(idle[s], w, n)) => Within(idle'[s], w - 1, n)
        /\ \A w, n \in Nat : Within(idle[s], w, n) => Within(idle'[s], w, n + 1)
  BY TickAges
<1>2. Timeout \in Nat /\ Ttl \in Nat /\ MaxRetries \in Nat /\ Interval \in Nat
  BY SessionAssumption
<1>3. CacheOK'
  <2>1. Cached => /\ cache.session \in InUse /\ cache.age \in 0..Ttl + 1
                  /\ cache'.session = cache.session
                  /\ cache'.age = More(cache.age, Ttl + 1)
    BY CachedIsTaken DEF Cached, TimePasses
  <2>2. Cached' => Cached
    BY DEF TimePasses, Cached
  <2>3. CASE Cached /\ cache.age <= Ttl
    <3>1. cache'.age = cache.age + 1 /\ cache.age \in Nat
      BY <1>2, <2>1, <2>3 DEF More
    <3>2. Within(idle[cache.session], 0, cache.age + Timeout)
      BY <1>2, <2>3, <3>1 DEF AgeInv, CacheOK
    <3>3. Within(idle'[cache.session], 0, (cache.age + Timeout) + 1)
      BY <1>1, <1>2, <2>1, <2>3, <3>1, <3>2
    <3>4. (cache.age + Timeout) + 1 = cache'.age + Timeout
      BY <1>2, <3>1
    <3> QED
      BY <2>1, <2>3, <3>3, <3>4 DEF CacheOK
  <2>4. CASE Cached /\ ~(cache.age <= Ttl)
    BY <1>2, <2>1, <2>4 DEF CacheOK, More
  <2> QED
    BY <2>2, <2>3, <2>4 DEF CacheOK
<1>4. ASSUME NEW p \in Procs PROVE LoginOK(p)' /\ RetryOK(p)'
  <2>1. ClientOK(p) /\ LoginOK(p) /\ RetryOK(p) /\ Sleeping(p)
    BY DEF ClientInv, AgeInv, TimePasses
  <2>2. /\ UNCHANGED <<stage, tok, request, attempt, retried, status>>
        /\ wait'[p] = Less(wait[p]) /\ slot'[p] = Less(slot[p])
    BY DEF TimePasses
  <2>3. /\ wait[p] \in Nat /\ slot[p] \in Nat
        /\ Budget(attempt[p]) \in Nat /\ Budget(attempt[p]) + Timeout \in Nat
    BY <1>2, BudgetBounds DEF SessionTypeOK
  <2>4. "none" \notin Sessions
    BY SessionAssumption
  <2>5. LoginOK(p)'
    BY <1>1, <1>2, <2>1, <2>2, <2>3, <2>4, HeldIsTaken
       DEF ClientOK, LoginOK, Sleeping, Less
  <2>6. RetryOK(p)'
    <3>1. CASE stage[p] = "idle"
      BY <2>1, <2>2, <3>1 DEF ClientOK, RetryOK
    <3>2. CASE stage[p] = "acquire" /\ slot[p] > 0
      BY <1>1, <2>1, <2>2, <2>3, <3>2, HeldIsTaken DEF ClientOK, RetryOK, Requesting, Less
    <3>3. CASE stage[p] = "sent" /\ wait[p] > 0
      BY <1>1, <2>1, <2>2, <2>3, <3>3, HeldIsTaken DEF ClientOK, RetryOK, Requesting, Less
    <3>4. CASE stage[p] = "backoff" /\ wait[p] > 0
      BY <1>1, <2>1, <2>2, <2>3, <3>4, HeldIsTaken DEF ClientOK, RetryOK, Requesting, Less
    <3> QED
      BY <2>1, <3>1, <3>2, <3>3, <3>4 DEF Sleeping
  <2> QED
    BY <2>5, <2>6
<1> QED
  BY <1>3, <1>4 DEF AgeInv

LEMMA AgesOK == SessionSpec => []AgeInv
<1>1. SessionInit => AgeInv
  BY SessionAssumption DEF SessionInit, AgeInv, CacheOK, Cached, LoginOK, RetryOK
<1>2. (SessionTypeOK /\ ClientInv) /\ AgeInv /\ [SessionNext]_sessionVars => AgeInv'
  <2> SUFFICES ASSUME SessionTypeOK, ClientInv, AgeInv, [SessionNext]_sessionVars PROVE AgeInv'
    OBVIOUS
  <2>1. ASSUME NEW p \in Procs, Act(p) PROVE AgeInv'
    <3>1. \A q \in Procs \ {p} : LoginOK(q)' /\ RetryOK(q)'
      BY <2>1, OthersStay, OthersDoNotAge
    <3>2. LoginOK(p)' /\ RetryOK(p)'
      BY <2>1, OwnStepAges
    <3>3. CacheOK'
      BY <2>1, ActKeepsCache
    <3> QED
      BY <3>1, <3>2, <3>3 DEF AgeInv
  <2>2. ASSUME (\E r \in Sessions : Revoke(r)) \/ UNCHANGED sessionVars PROVE AgeInv'
    <3>1. UNCHANGED <<stage, tok, cache, request, attempt, retried, status, wait, slot>>
      BY <2>2 DEF Revoke, client, sessionVars
    <3>2. \A q \in Procs : LoginOK(q)' /\ RetryOK(q)'
      BY <2>2, <3>1, OthersDoNotAge
    <3>3. CacheOK'
      BY <2>2, <3>1, CacheStays
    <3> QED
      BY <3>2, <3>3 DEF AgeInv
  <2>3. CASE TimePasses
    BY <2>3, TickKeepsAges
  <2> QED
    BY <2>1, <2>2, <2>3 DEF SessionNext, Act
<1> QED
  BY <1>1, <1>2, ClientsOK, PTL DEF SessionSpec

(***************************************************************************)
(* A token taken from the cache file is one the broker accepts, unless it  *)
(* was revoked: the age in the file starts when the file is written, a     *)
(* Timeout after the login at most (rest_client.py:28-32, _load_session).  *)
(***************************************************************************)
THEOREM CachedTokenLives == SessionSpec => LoadedTokenLives
<1>1. (SessionTypeOK /\ ClientInv) /\ AgeInv /\ [SessionNext]_sessionVars =>
        [\A p \in Procs : Load(p) => idle[cache.session] # Life]_sessionVars
  <2> SUFFICES ASSUME SessionTypeOK, AgeInv, NEW p \in Procs, Load(p)
               PROVE  idle[cache.session] # Life
    OBVIOUS
  <2>1. /\ cache.session \in Sessions /\ cache.age \in 0..Ttl + 1 /\ cache.age <= Ttl
        /\ Within(idle[cache.session], 0, cache.age + Timeout)
    BY SessionAssumption DEF Load, Fresh, SessionTypeOK, Caches, AgeInv, CacheOK, Cached
  <2> QED
    BY <2>1, SessionAssumption DEF SessionTypeOK, Within, Revoked
<1> QED
  BY <1>1, ClientsOK, AgesOK, PTL DEF SessionSpec, LoadedTokenLives

(***************************************************************************)
(* An expired token costs a login and no call: behind the one re-login of  *)
(* a 401 (rest_client.py, _request with _retry=False) another 401 means    *)
(* that the broker revoked the session, however often the login and the    *)
(* call were sent again and however long the limiter made them wait.       *)
(***************************************************************************)
THEOREM OneReloginIsEnough == SessionSpec => ReloginHelps
<1>1. (SessionTypeOK /\ ClientInv) /\ AgeInv /\ [SessionNext]_sessionVars =>
        [\A p \in Procs : (Return(p) /\ status[p] = "401") => idle[tok[p]] = Revoked]_sessionVars
  BY DEF Return, AgeInv, RetryOK
<1> QED
  BY <1>1, ClientsOK, AgesOK, PTL DEF SessionSpec, ReloginHelps

----------------------------------------------------------------------------
(* The candles and the stream. *)

OneClock == Stamps \subseteq {"exchange"} /\ ~Reorders

----------------------------------------------------------------------------
(* Buckets and sequences. *)

LEMMA DivFacts ==
  ASSUME NEW n \in Nat, NEW k \in Nat \ {0}
  PROVE  /\ n \div k \in Nat
         /\ k * (n \div k) <= n
         /\ n < k * (n \div k) + k
  OBVIOUS

LEMMA TimesMonotone ==
  ASSUME NEW k \in Nat, NEW a \in Nat, NEW b \in Nat, a <= b
  PROVE  k * a <= k * b
<1>1. k * (b - a) \in Nat
  <2>1. b - a \in Nat
    OBVIOUS
  <2> QED
    BY <2>1, SMT
<1>2. k * (b - a) = k * b - k * a
  BY SMT
<1>3. k * a \in Nat /\ k * b \in Nat
  BY SMT
<1> QED
  BY <1>1, <1>2, <1>3

(***************************************************************************)
(* A later time is in no earlier bucket, and a bucket that is not later    *)
(* than a time's began by then.                                            *)
(***************************************************************************)
LEMMA BucketFacts ==
  ASSUME NEW t \in Nat, NEW u \in Nat, t <= u
  PROVE  /\ Bucket(t) \in Nat
         /\ Bucket(t) <= Bucket(u)
         /\ \A b \in Nat : b <= Bucket(t) => b * Step <= t
<1> DEFINE x == t \div Step
           y == u \div Step
<1>1. Step \in Nat \ {0}
  BY FeedAssumption
<1>2. /\ x \in Nat /\ Step * x <= t /\ t < Step * x + Step
      /\ y \in Nat /\ Step * y <= u /\ u < Step * y + Step
  BY <1>1, DivFacts
<1> HIDE DEF x, y
<1>3. x <= y
  <2> SUFFICES ASSUME y + 1 <= x PROVE FALSE
    BY <1>2
  <2>1. Step * (y + 1) <= Step * x
    BY <1>1, <1>2, TimesMonotone
  <2>2. Step * (y + 1) = Step * y + Step /\ Step * y \in Nat /\ Step * x \in Nat
    BY <1>1, <1>2, SMT
  <2> QED
    BY <1>1, <1>2, <2>1, <2>2
<1>4. ASSUME NEW b \in Nat, b <= x
      PROVE  b * Step <= t
  <2>1. Step * b <= Step * x
    BY <1>1, <1>2, <1>4, TimesMonotone
  <2>2. Step * b = b * Step /\ Step * b \in Nat /\ Step * x \in Nat
    BY <1>1, <1>2, SMT
  <2> QED
    BY <1>2, <2>1, <2>2
<1> QED
  BY <1>2, <1>3, <1>4 DEF Bucket, x, y

(***************************************************************************)
(* A trimmed sequence is its newest part (live_engine.py:183, 255-258).    *)
(***************************************************************************)
LEMMA TrimFacts ==
  ASSUME NEW S, NEW w \in Seq(S)
  PROVE  /\ Trim(w) \in Seq(S)
         /\ Len(w) # 0 => Len(Trim(w)) # 0
         /\ \E cut \in Nat :
              /\ cut + Len(Trim(w)) = Len(w)
              /\ \A i \in 1..Len(Trim(w)) : Trim(w)[i] = w[cut + i]
<1>1. Len(w) \in Nat /\ MaxHistory \in Nat \ {0}
  BY LenProperties, FeedAssumption
<1>2. CASE Len(w) <= MaxHistory
  <2>1. Trim(w) = w
    BY <1>1, <1>2 DEF Trim
  <2>2. /\ 0 + Len(w) = Len(w)
        /\ \A i \in 1..Len(w) : w[i] = w[0 + i]
    BY <1>1
  <2> QED
    BY <2>1, <2>2
<1>3. CASE Len(w) > MaxHistory
  <2> DEFINE cut == Len(w) - MaxHistory
  <2>1. /\ cut \in Nat /\ cut + 1 \in Int /\ cut + 1 <= Len(w)
        /\ Trim(w) = SubSeq(w, cut + 1, Len(w))
        /\ Len(w) - (cut + 1) + 1 = MaxHistory
    BY <1>1, <1>3 DEF Trim
  <2>2. \A i \in (cut + 1)..Len(w) : w[i] \in S
    BY <1>1, <2>1, ElementOfSeq
  <2> HIDE DEF cut
  <2>3. /\ Trim(w) \in Seq(S)
        /\ Len(Trim(w)) = MaxHistory
        /\ \A i \in 1..MaxHistory : Trim(w)[i] = w[(cut + 1) + i - 1]
    BY <1>1, <2>1, <2>2, SubSeqProperties
  <2>4. cut + MaxHistory = Len(w)
    BY <1>1, <2>1
  <2>5. \A i \in 1..MaxHistory : Trim(w)[i] = w[cut + i]
    BY <1>1, <2>1, <2>3
  <2> QED
    BY <1>1, <2>1, <2>3, <2>4, <2>5
<1> QED
  BY <1>1, <1>2, <1>3

LEMMA RemoveHead ==
  ASSUME NEW S, NEW w \in Seq(S), w # <<>>
  PROVE  /\ RemoveAt(w, 1) \in Seq(S)
         /\ Len(RemoveAt(w, 1)) = Len(w) - 1
         /\ \A i \in 1..(Len(w) - 1) : RemoveAt(w, 1)[i] = w[i + 1]
<1>1. RemoveAt(w, 1) = SubSeq(w, 1, 0) \o SubSeq(w, 2, Len(w))
  BY DEF RemoveAt
<1>2. SubSeq(w, 1, 0) = <<>>
  BY SubSeqEmpty
<1>3. SubSeq(w, 2, Len(w)) = Tail(w)
  BY TailIsSubSeq
<1>4. RemoveAt(w, 1) = Tail(w)
  BY <1>1, <1>2, <1>3, HeadTailProperties, ConcatEmptySeq
<1> QED
  BY <1>4, HeadTailProperties

LEMMA RemoveOne ==
  ASSUME NEW S, NEW w \in Seq(S), NEW i \in 1..Len(w)
  PROVE  RemoveAt(w, i) \in Seq(S)
<1>1. Len(w) \in Nat /\ \A j \in 1..Len(w) : w[j] \in S
  BY LenProperties, ElementOfSeq
<1>2. SubSeq(w, 1, i - 1) \in Seq(S)
  <2>1. 1 \in Int /\ i - 1 \in Int /\ \A j \in 1..(i - 1) : w[j] \in S
    BY <1>1
  <2> QED
    BY <2>1, SubSeqProperties
<1>3. SubSeq(w, i + 1, Len(w)) \in Seq(S)
  <2>1. i + 1 \in Int /\ Len(w) \in Int /\ \A j \in (i + 1)..Len(w) : w[j] \in S
    BY <1>1
  <2> QED
    BY <2>1, SubSeqProperties
<1> QED
  BY <1>2, <1>3, ConcatProperties DEF RemoveAt

LEMMA PairFacts ==
  ASSUME NEW x \in Nat, NEW y \in Nat
  PROVE  /\ Max({x, y}) = IF x >= y THEN x ELSE y
         /\ Min({x, y}) = IF x <= y THEN x ELSE y
BY DEF Max, Min

----------------------------------------------------------------------------
(* The feed. *)

AnyBar == [bucket : Nat, open : Nat, high : Nat, low : Nat, close : Nat]
Quotes == [price : Prices, at : Nat, stamp : Stamps]

FeedTypes ==
  /\ now \in Nat /\ whole \in Nat
  /\ phase \in {"down", "warm", "stream", "outage"}
  /\ truth \in Seq(AnyBar) /\ history \in Seq(AnyBar)
  /\ net \in Seq(Quotes)
  /\ builder \in AnyBar

(***************************************************************************)
(* The server's bars ascend, and quotes arrive in the order of their time. *)
(***************************************************************************)
Ascending(h) ==
  \A i, j \in 1..Len(h) : i < j => h[i].bucket < h[j].bucket
Newest(h) == h[Len(h)].bucket

TruthInv ==
  Ascending(truth) /\ \A i \in 1..Len(truth) : truth[i].bucket <= Bucket(now)
NetInv ==
  /\ phase # "stream" => net = <<>>
  /\ \A i \in 1..Len(net) : net[i].stamp = "exchange" /\ net[i].at <= now
  /\ \A i, j \in 1..Len(net) : i <= j => net[i].at <= net[j].at

LEMMA FeedTypesHold == FeedSpec => []FeedTypes
<1>1. FeedInit => FeedTypes
  <2>1. \A S : <<>> \in Seq(S)
    BY EmptySeq
  <2>2. NoBar \in AnyBar
    BY DEF NoBar, AnyBar
  <2> QED
    BY <2>1, <2>2 DEF FeedInit, FeedTypes
<1>2. FeedTypes /\ [FeedNext]_feedVars => FeedTypes'
  <2> SUFFICES ASSUME FeedTypes, [FeedNext]_feedVars
               PROVE  FeedTypes'
    OBVIOUS
  <2> USE DEF FeedTypes
  <2>0. \A S : <<>> \in Seq(S)
    BY EmptySeq
  <2>1. CASE Tick
    BY <2>1 DEF Tick
  <2>2. ASSUME NEW price \in Prices, NEW stamp \in Stamps, Trade(price, stamp)
        PROVE  FeedTypes'
    <3>1. price \in Nat /\ Bucket(now) \in Nat
      BY FeedAssumption, BucketFacts
    <3>2. OpenBar(Bucket(now), price) \in AnyBar
      BY <3>1 DEF OpenBar, AnyBar
    <3>3. \A bar \in AnyBar : Traded(bar, price) \in AnyBar
      <4>1. \A x, y \in Nat : Max({x, y}) \in Nat /\ Min({x, y}) \in Nat
        BY PairFacts
      <4> QED
        BY <3>1, <4>1 DEF Traded, AnyBar
    <3>4. truth' \in Seq(AnyBar)
      <4>1. CASE truth # <<>> /\ truth[Len(truth)].bucket = Bucket(now)
        <5>1. Len(truth) \in 1..Len(truth)
          BY <4>1, LenProperties, EmptySeq
        <5>2. truth[Len(truth)] \in AnyBar
          BY <5>1, ElementOfSeq
        <5> QED
          BY <2>2, <3>3, <4>1, <5>1, <5>2, ExceptSeq DEF Trade
      <4>2. CASE ~(truth # <<>> /\ truth[Len(truth)].bucket = Bucket(now))
        BY <2>2, <3>2, <4>2, AppendProperties DEF Trade
      <4> QED
        BY <4>1, <4>2
    <3>5. net' \in Seq(Quotes)
      <4>1. [price |-> price, at |-> now, stamp |-> stamp] \in Quotes
        BY DEF Quotes
      <4> QED
        BY <2>2, <4>1, AppendProperties DEF Trade
    <3> QED
      BY <2>2, <3>4, <3>5 DEF Trade
  <2>3. CASE Warmup
    BY <2>0, <2>3, TrimFacts DEF Warmup
  <2>4. CASE Connect
    BY <2>4 DEF Connect
  <2>5. CASE Disconnect
    BY <2>0, <2>5 DEF Disconnect
  <2>6. CASE Restart
    BY <2>0, <2>6 DEF Restart, NoBar, AnyBar
  <2>7. ASSUME NEW i \in DOMAIN net, OnPrice(i)
        PROVE  FeedTypes'
    <3>1. i \in 1..Len(net) /\ net # <<>>
      BY LenProperties
    <3>2. net[i] \in Quotes
      BY <3>1, ElementOfSeq
    <3> DEFINE price == net[i].price
               bucket == Bucket(TimeOf(net[i]))
    <3>3. price \in Nat /\ bucket \in Nat
      <4>1. TimeOf(net[i]) \in Nat
        BY <3>2 DEF TimeOf, Quotes
      <4>2. TimeOf(net[i]) <= TimeOf(net[i])
        BY <4>1
      <4>3. Bucket(TimeOf(net[i])) \in Nat
        BY <4>1, <4>2, BucketFacts
      <4> QED
        BY <3>2, <4>3, FeedAssumption DEF Quotes
    <3>4. Update(price, bucket)
      BY <2>7 DEF OnPrice
    <3> HIDE DEF price, bucket
    <3>5. OpenBar(bucket, price) \in AnyBar /\ Extend(builder, price) \in AnyBar
      BY <3>3 DEF OpenBar, Extend, AnyBar
    <3>6. Append(history, builder) \in Seq(AnyBar)
      BY AppendProperties
    <3>7. builder' \in AnyBar /\ history' \in Seq(AnyBar)
      BY <3>4, <3>5, <3>6, TrimFacts DEF Update
    <3>8. net' \in Seq(Quotes)
      BY <2>7, <3>1, RemoveOne DEF OnPrice
    <3> QED
      BY <2>7, <3>7, <3>8 DEF OnPrice
  <2>8. CASE UNCHANGED feedVars
    BY <2>8 DEF feedVars
  <2> QED
    BY <2>1, <2>2, <2>3, <2>4, <2>5, <2>6, <2>7, <2>8 DEF FeedNext
<1> QED
  BY <1>1, <1>2, PTL DEF FeedSpec

LEMMA Elements ==
  ASSUME FeedTypes
  PROVE  /\ Len(truth) \in Nat /\ Len(net) \in Nat /\ Len(history) \in Nat
         /\ \A i \in 1..Len(truth) : truth[i] \in AnyBar /\ truth[i].bucket \in Nat
         /\ \A i \in 1..Len(history) : history[i] \in AnyBar /\ history[i].bucket \in Nat
         /\ \A i \in 1..Len(net) : net[i] \in Quotes /\ net[i].at \in Nat
<1>1. \A i \in 1..Len(truth) : truth[i] \in AnyBar
  BY ElementOfSeq DEF FeedTypes
<1>2. \A i \in 1..Len(history) : history[i] \in AnyBar
  BY ElementOfSeq DEF FeedTypes
<1>3. \A i \in 1..Len(net) : net[i] \in Quotes
  BY ElementOfSeq DEF FeedTypes
<1>4. \A bar \in AnyBar : bar.bucket \in Nat
  BY DEF AnyBar
<1>5. \A quote \in Quotes : quote.at \in Nat
  BY DEF Quotes
<1> QED
  BY <1>1, <1>2, <1>3, <1>4, <1>5, LenProperties DEF FeedTypes

LEMMA ArrivalsHold ==
  ASSUME OneClock
  PROVE  FeedSpec => [](TruthInv /\ NetInv)
<1>1. FeedInit => TruthInv /\ NetInv
  BY DEF FeedInit, TruthInv, NetInv, Ascending
<1>2. FeedTypes /\ TruthInv /\ NetInv /\ [FeedNext]_feedVars => TruthInv' /\ NetInv'
  <2> SUFFICES ASSUME FeedTypes, TruthInv, NetInv, [FeedNext]_feedVars
               PROVE  TruthInv' /\ NetInv'
    OBVIOUS
  <2>0. Len(net) \in Nat /\ Len(truth) \in Nat /\ now \in Nat
    BY LenProperties DEF FeedTypes
  <2>1. CASE Tick
    <3>1. now' = now + 1 /\ Bucket(now) <= Bucket(now') /\ Bucket(now) \in Nat
            /\ Bucket(now') \in Nat
      BY <2>0, <2>1, BucketFacts DEF Tick
    <3>2. \A i \in 1..Len(truth) : truth[i].bucket \in Nat
      BY Elements
    <3>3. \A i \in 1..Len(net) : net[i].at \in Nat
      BY Elements
    <3>4. TruthInv'
      BY <2>1, <3>1, <3>2 DEF Tick, TruthInv, Ascending
    <3>5. NetInv'
      BY <2>0, <2>1, <3>1, <3>3 DEF Tick, NetInv
    <3> QED
      BY <3>4, <3>5
  <2>2. ASSUME NEW price \in Prices, NEW stamp \in Stamps, Trade(price, stamp)
        PROVE  TruthInv' /\ NetInv'
    <3>1. Bucket(now) \in Nat /\ \A i \in 1..Len(truth) : truth[i].bucket \in Nat
      <4>1. now <= now
        BY <2>0
      <4>2. Bucket(now) \in Nat
        BY <2>0, <4>1, BucketFacts
      <4>3. \A i \in 1..Len(truth) : truth[i].bucket \in Nat
        BY Elements
      <4> QED
        BY <4>2, <4>3
    <3>2. TruthInv'
      <4>1. CASE truth # <<>> /\ truth[Len(truth)].bucket = Bucket(now)
        <5>1. /\ Len(truth') = Len(truth)
              /\ \A i \in 1..Len(truth) : truth'[i].bucket = truth[i].bucket
          <6>1. truth' = [truth EXCEPT ![Len(truth)] = Traded(@, price)]
            BY <2>2, <4>1 DEF Trade
          <6>2. truth \in [1..Len(truth) -> AnyBar]
            BY LenProperties DEF FeedTypes
          <6>3. Len(truth') = Len(truth)
            BY <2>0, <6>1, <6>2
          <6>4. \A bar \in AnyBar : Traded(bar, price).bucket = bar.bucket
            BY DEF Traded, AnyBar
          <6> QED
            BY <6>1, <6>2, <6>3, <6>4
        <5> QED
          BY <2>2, <5>1 DEF Trade, TruthInv, Ascending
      <4>2. CASE ~(truth # <<>> /\ truth[Len(truth)].bucket = Bucket(now))
        <5> DEFINE fresh == OpenBar(Bucket(now), price)
        <5>1. truth' = Append(truth, fresh)
          BY <2>2, <4>2 DEF Trade
        <5>2. fresh.bucket = Bucket(now)
          BY DEF OpenBar
        <5> HIDE DEF fresh
        <5>3. /\ Len(truth') = Len(truth) + 1
              /\ truth'[Len(truth) + 1].bucket = Bucket(now)
              /\ \A i \in 1..Len(truth) : truth'[i] = truth[i]
          <6>1. truth \in Seq({truth[i] : i \in 1..Len(truth)} \cup {fresh})
            BY LenProperties, IsASeq DEF FeedTypes
          <6> QED
            BY <5>1, <5>2, <6>1, AppendProperties
        <5>4. \A i \in 1..Len(truth) : truth[i].bucket < Bucket(now)
          <6>1. CASE Len(truth) = 0
            BY <6>1
          <6>2. CASE Len(truth) # 0
            <7>1. truth # <<>> /\ Len(truth) \in 1..Len(truth)
              BY <2>0, <6>2
            <7>2. truth[Len(truth)].bucket < Bucket(now)
              BY <3>1, <4>2, <7>1 DEF TruthInv
            <7>3. \A i \in 1..Len(truth) : i # Len(truth) =>
                    truth[i].bucket < truth[Len(truth)].bucket
              BY <2>0, <7>1 DEF TruthInv, Ascending
            <7> QED
              BY <3>1, <7>1, <7>2, <7>3
          <6> QED
            BY <6>1, <6>2
        <5>5. now' = now
          BY <2>2 DEF Trade
        <5>6. ASSUME NEW i \in 1..(Len(truth) + 1)
              PROVE  truth'[i].bucket <= Bucket(now)
          BY <2>0, <3>1, <5>3, <5>4
        <5>7. ASSUME NEW i \in 1..(Len(truth) + 1), NEW j \in 1..(Len(truth) + 1),
                     i < j
              PROVE  truth'[i].bucket < truth'[j].bucket
          <6>1. i \in 1..Len(truth)
            BY <2>0, <5>7
          <6>2. CASE j = Len(truth) + 1
            BY <5>3, <5>4, <6>1, <6>2
          <6>3. CASE j # Len(truth) + 1
            <7>1. j \in 1..Len(truth)
              BY <2>0, <6>3
            <7> QED
              BY <5>3, <5>7, <6>1, <7>1 DEF TruthInv, Ascending
          <6> QED
            BY <6>2, <6>3
        <5> QED
          BY <5>3, <5>5, <5>6, <5>7 DEF TruthInv, Ascending
      <4> QED
        BY <4>1, <4>2
    <3>3. NetInv'
      <4>1. CASE phase # "stream"
        BY <2>2, <4>1 DEF Trade, NetInv
      <4>2. CASE phase = "stream"
        <5> DEFINE quote == [price |-> price, at |-> now, stamp |-> stamp]
        <5>1. quote \in Quotes /\ quote.at = now /\ quote.stamp = "exchange"
          BY <2>0 DEF Quotes, OneClock
        <5>2. net' = Append(net, quote) /\ now' = now /\ phase' = phase
          BY <2>2, <4>2 DEF Trade
        <5> HIDE DEF quote
        <5>3. /\ Len(net') = Len(net) + 1
              /\ net'[Len(net) + 1] = quote
              /\ \A i \in 1..Len(net) : net'[i] = net[i]
          BY <5>1, <5>2, AppendProperties DEF FeedTypes
        <5>4. ASSUME NEW i \in 1..(Len(net) + 1)
              PROVE  net'[i].stamp = "exchange" /\ net'[i].at <= now
          BY <2>0, <5>1, <5>3 DEF NetInv
        <5>5. ASSUME NEW i \in 1..(Len(net) + 1), NEW j \in 1..(Len(net) + 1), i <= j
              PROVE  net'[i].at <= net'[j].at
          <6>1. CASE j = Len(net) + 1
            BY <5>1, <5>3, <5>4, <6>1
          <6>2. CASE j # Len(net) + 1
            <7>1. i \in 1..Len(net) /\ j \in 1..Len(net)
              BY <2>0, <5>5, <6>2
            <7> QED
              BY <5>3, <5>5, <7>1 DEF NetInv
          <6> QED
            BY <6>1, <6>2
        <5> QED
          BY <4>2, <5>2, <5>3, <5>4, <5>5 DEF NetInv
      <4> QED
        BY <4>1, <4>2
    <3> QED
      BY <3>2, <3>3
  <2>3. CASE Warmup \/ Connect
    BY <2>3 DEF Warmup, Connect, TruthInv, NetInv, Ascending
  <2>4. CASE Disconnect \/ Restart
    BY <2>4 DEF Disconnect, Restart, TruthInv, NetInv, Ascending
  <2>5. ASSUME NEW i \in DOMAIN net, OnPrice(i)
        PROVE  TruthInv' /\ NetInv'
    <3>1. i = 1 /\ net # <<>> /\ net' = RemoveAt(net, 1)
      BY <2>5, LenProperties DEF OnPrice, OneClock, FeedTypes
    <3>2. /\ Len(net') = Len(net) - 1
          /\ \A j \in 1..(Len(net) - 1) : net'[j] = net[j + 1]
      BY <3>1, RemoveHead DEF FeedTypes
    <3>3. UNCHANGED <<now, truth, phase>> /\ phase = "stream"
      BY <2>5 DEF OnPrice
    <3>4. TruthInv'
      BY <3>3 DEF TruthInv, Ascending
    <3>5. NetInv'
      <4>0. \A j \in 1..(Len(net) - 1) : j + 1 \in 1..Len(net)
        BY <2>0
      <4>1. ASSUME NEW j \in 1..(Len(net) - 1)
            PROVE  net'[j].stamp = "exchange" /\ net'[j].at <= now
        BY <3>2, <4>0 DEF NetInv
      <4>2. ASSUME NEW j \in 1..(Len(net) - 1), NEW k \in 1..(Len(net) - 1), j <= k
            PROVE  net'[j].at <= net'[k].at
        <5>1. j + 1 <= k + 1 /\ j + 1 \in 1..Len(net) /\ k + 1 \in 1..Len(net)
          BY <2>0, <4>0, <4>2
        <5>2. net[j + 1].at <= net[k + 1].at
          BY <5>1 DEF NetInv
        <5> QED
          BY <3>2, <5>2
      <4> QED
        BY <3>2, <3>3, <4>1, <4>2 DEF NetInv
    <3> QED
      BY <3>4, <3>5
  <2>6. CASE UNCHANGED feedVars
    BY <2>6 DEF feedVars, TruthInv, NetInv, Ascending
  <2> QED
    BY <2>1, <2>2, <2>3, <2>4, <2>5, <2>6 DEF FeedNext
<1> QED
  BY <1>1, <1>2, FeedTypesHold, PTL DEF FeedSpec

----------------------------------------------------------------------------
(* The history. *)

InOrder(h, s) ==
  \A i, j \in 1..Len(h) :
    i < j => \/ h[i].bucket < h[j].bucket
             \/ j = i + 1 /\ h[i].bucket = h[j].bucket /\ h[i].bucket = s

(***************************************************************************)
(* A bar may follow a history it is later than, or, once, one whose newest *)
(* bar is of the same bucket and stems from the warmup.                    *)
(***************************************************************************)
Follows(bar, h, s) ==
  h # <<>> => \/ Newest(h) < bar.bucket
              \/ Newest(h) = bar.bucket /\ bar.bucket = s /\ Ascending(h)

LEMMA AscendingInOrder ==
  ASSUME NEW h, NEW s, Ascending(h)
  PROVE  InOrder(h, s)
BY DEF Ascending, InOrder

LEMMA TrimKeepsOrder ==
  ASSUME NEW h \in Seq(AnyBar), NEW s, Len(h) # 0
  PROVE  /\ Len(Trim(h)) # 0 /\ Newest(Trim(h)) = Newest(h)
         /\ InOrder(h, s) => InOrder(Trim(h), s)
         /\ Ascending(h) => Ascending(Trim(h))
         /\ \A b \in Nat : (\A i \in 1..Len(h) : h[i].bucket <= b) =>
                             \A i \in 1..Len(Trim(h)) : Trim(h)[i].bucket <= b
<1> DEFINE w == Trim(h)
<1>1. w \in Seq(AnyBar) /\ Len(w) # 0
  BY TrimFacts
<1>2. PICK cut \in Nat : /\ cut + Len(w) = Len(h)
                         /\ \A i \in 1..Len(w) : w[i] = h[cut + i]
  BY TrimFacts
<1> HIDE DEF w
<1>3. Len(w) \in Nat /\ Len(h) \in Nat
  BY <1>1, LenProperties
<1>4. \A i \in 1..Len(w) : cut + i \in 1..Len(h)
  BY <1>2, <1>3
<1>5. Newest(w) = Newest(h)
  <2>1. Len(w) \in 1..Len(w)
    BY <1>1, <1>3
  <2> QED
    BY <1>2, <2>1 DEF Newest
<1>6. ASSUME NEW i \in 1..Len(w), NEW j \in 1..Len(w), i < j
      PROVE  /\ cut + i < cut + j
             /\ cut + j = cut + i + 1 => j = i + 1
  BY <1>3, <1>6
<1>7. InOrder(h, s) => InOrder(w, s)
  <2> SUFFICES ASSUME InOrder(h, s), NEW i \in 1..Len(w), NEW j \in 1..Len(w), i < j
               PROVE  \/ w[i].bucket < w[j].bucket
                      \/ j = i + 1 /\ w[i].bucket = w[j].bucket /\ w[i].bucket = s
    BY DEF InOrder
  <2>1. /\ cut + i \in 1..Len(h) /\ cut + j \in 1..Len(h) /\ cut + i < cut + j
        /\ cut + j = cut + i + 1 => j = i + 1
    BY <1>4, <1>6
  <2>2. \/ h[cut + i].bucket < h[cut + j].bucket
        \/ /\ cut + j = cut + i + 1
           /\ h[cut + i].bucket = h[cut + j].bucket /\ h[cut + i].bucket = s
    BY <2>1 DEF InOrder
  <2> QED
    BY <1>2, <2>1, <2>2
<1>8. Ascending(h) => Ascending(w)
  <2> SUFFICES ASSUME Ascending(h), NEW i \in 1..Len(w), NEW j \in 1..Len(w), i < j
               PROVE  w[i].bucket < w[j].bucket
    BY DEF Ascending
  <2>1. cut + i \in 1..Len(h) /\ cut + j \in 1..Len(h) /\ cut + i < cut + j
    BY <1>4, <1>6
  <2>2. h[cut + i].bucket < h[cut + j].bucket
    BY <2>1 DEF Ascending
  <2> QED
    BY <1>2, <2>2
<1> QED
  BY <1>1, <1>2, <1>4, <1>5, <1>7, <1>8 DEF w

LEMMA AppendKeepsOrder ==
  ASSUME NEW h \in Seq(AnyBar), NEW bar \in AnyBar, NEW s,
         InOrder(h, s), Follows(bar, h, s)
  PROVE  LET w == Append(h, bar)
         IN  /\ w \in Seq(AnyBar) /\ Len(w) # 0
             /\ Newest(w) = bar.bucket
             /\ InOrder(w, s)
<1> DEFINE w == Append(h, bar)
           n == Len(h)
<1>1. /\ w \in Seq(AnyBar) /\ Len(w) = n + 1 /\ n \in Nat
      /\ \A i \in 1..n : w[i] = h[i]
      /\ w[n + 1] = bar
  BY AppendProperties, LenProperties
<1>2. \A i \in 1..n : h[i] \in AnyBar
  BY ElementOfSeq
<1>3. bar.bucket \in Nat /\ \A i \in 1..n : h[i].bucket \in Nat
  BY <1>2 DEF AnyBar
<1> HIDE DEF w
<1>4. ASSUME NEW i \in 1..n
      PROVE  \/ h[i].bucket < bar.bucket
             \/ i = n /\ h[i].bucket = bar.bucket /\ h[i].bucket = s
  <2>1. h # <<>> /\ n \in 1..n
    BY <1>1, <1>4
  <2>2. CASE i = n
    BY <2>1, <2>2 DEF Follows, Newest
  <2>3. CASE i # n
    <3>1. i < n
      BY <1>1, <1>4, <2>3
    <3>2. CASE Newest(h) < bar.bucket
      <4>1. h[i].bucket <= h[n].bucket
        BY <1>3, <2>1, <3>1 DEF InOrder
      <4> QED
        BY <1>3, <2>1, <3>2, <4>1 DEF Newest
    <3>3. CASE Newest(h) = bar.bucket /\ Ascending(h)
      BY <2>1, <3>1, <3>3 DEF Newest, Ascending
    <3> QED
      BY <2>1, <3>2, <3>3 DEF Follows
  <2> QED
    BY <2>2, <2>3
<1>5. InOrder(w, s)
  <2> SUFFICES ASSUME NEW i \in 1..(n + 1), NEW j \in 1..(n + 1), i < j
               PROVE  \/ w[i].bucket < w[j].bucket
                      \/ j = i + 1 /\ w[i].bucket = w[j].bucket /\ w[i].bucket = s
    BY <1>1 DEF InOrder
  <2>1. i \in 1..n
    BY <1>1
  <2>2. CASE j = n + 1
    BY <1>1, <1>4, <2>1, <2>2
  <2>3. CASE j # n + 1
    <3>1. j \in 1..n
      BY <1>1, <2>3
    <3> QED
      BY <1>1, <2>1, <3>1 DEF InOrder
  <2> QED
    BY <2>2, <2>3
<1>6. Len(w) # 0 /\ Newest(w) = bar.bucket
  BY <1>1 DEF Newest
<1> QED
  BY <1>1, <1>5, <1>6 DEF w

(***************************************************************************)
(* At the time t, with the quotes in n on their way, no quote that is      *)
(* still to come is of an earlier bucket than b.                           *)
(***************************************************************************)
Reached(b, t, n) ==
  b <= Bucket(t) /\ \A i \in 1..Len(n) : b <= Bucket(n[i].at)

HistoryInv ==
  /\ phase = "down" => builder = NoBar /\ history = <<>>
  /\ builder # NoBar => Reached(builder.bucket, now, net) /\ Follows(builder, history, seam)
  /\ InOrder(history, seam)
  /\ builder = NoBar /\ history # <<>> =>
       Newest(history) = seam /\ Reached(Newest(history), now, net) /\ Ascending(history)

LEMMA ReachedGrows ==
  ASSUME FeedTypes, TruthInv, NetInv, OneClock, NEW b \in Nat, Reached(b, now, net),
         \/ Tick \/ Warmup \/ Connect \/ Disconnect \/ Restart
         \/ \E price \in Prices, stamp \in Stamps : Trade(price, stamp)
  PROVE  Reached(b, now', net')
<1>1. Len(net) \in Nat /\ now \in Nat /\ Bucket(now) \in Nat
  BY Elements, BucketFacts DEF FeedTypes
<1>2. CASE Tick
  <2>1. now' = now + 1 /\ Bucket(now) <= Bucket(now') /\ Bucket(now') \in Nat
    BY <1>1, <1>2, BucketFacts DEF Tick
  <2>2. net' = net
    BY <1>2 DEF Tick
  <2> QED
    BY <1>1, <2>1, <2>2 DEF Reached
<1>3. CASE Warmup \/ Connect
  BY <1>3 DEF Warmup, Connect, Reached
<1>4. CASE Disconnect \/ Restart
  BY <1>4 DEF Disconnect, Restart, Reached
<1>5. ASSUME NEW price \in Prices, NEW stamp \in Stamps, Trade(price, stamp)
      PROVE  Reached(b, now', net')
  <2>1. now' = now
    BY <1>5 DEF Trade
  <2>2. CASE phase # "stream"
    BY <1>5, <2>1, <2>2 DEF Trade, Reached
  <2>3. CASE phase = "stream"
    <3> DEFINE quote == [price |-> price, at |-> now, stamp |-> stamp]
    <3>1. quote \in Quotes /\ quote.at = now
      BY <1>1 DEF Quotes
    <3>2. net' = Append(net, quote)
      BY <1>5, <2>3 DEF Trade
    <3> HIDE DEF quote
    <3>3. /\ Len(net') = Len(net) + 1
          /\ net'[Len(net) + 1] = quote
          /\ \A i \in 1..Len(net) : net'[i] = net[i]
      BY <3>1, <3>2, AppendProperties DEF FeedTypes
    <3>4. ASSUME NEW i \in 1..(Len(net) + 1)
          PROVE  b <= Bucket(net'[i].at)
      BY <1>1, <3>1, <3>3 DEF Reached
    <3> QED
      BY <2>1, <3>3, <3>4 DEF Reached
  <2> QED
    BY <2>2, <2>3
<1> QED
  BY <1>2, <1>3, <1>4, <1>5

(***************************************************************************)
(* Of the quote that arrives.                                              *)
(***************************************************************************)
LEMMA FirstQuote ==
  ASSUME FeedTypes, NetInv, OneClock, NEW i \in DOMAIN net, OnPrice(i)
  PROVE  LET bucket == Bucket(net[1].at)
         IN  /\ net # <<>> /\ 1 \in 1..Len(net)
             /\ net[1] \in Quotes /\ net[1].price \in Nat \ {0}
             /\ bucket \in Nat
             /\ Update(net[1].price, bucket)
             /\ \A b \in Nat : Reached(b, now, net) => b <= bucket
             /\ \A b \in Nat : b <= bucket => Reached(b, now', net')
             /\ UNCHANGED <<now, truth, trades, phase, seam, whole>>
             /\ phase = "stream"
             /\ Len(net') = Len(net) - 1
             /\ \A j \in 1..(Len(net) - 1) : net'[j] = net[j + 1]
<1> DEFINE bucket == Bucket(net[1].at)
<1>1. i = 1 /\ net # <<>> /\ 1 \in 1..Len(net) /\ Len(net) \in Nat
  BY LenProperties DEF OnPrice, OneClock, FeedTypes
<1>2. net[1] \in Quotes /\ net[1].at \in Nat /\ net[1].stamp = "exchange"
        /\ net[1].at <= now /\ now \in Nat
  BY <1>1, Elements DEF NetInv, FeedTypes
<1>3. net[1].price \in Nat \ {0}
  BY <1>2, FeedAssumption DEF Quotes
<1>4. Update(net[1].price, bucket) /\ net' = RemoveAt(net, 1)
  BY <1>1, <1>2 DEF OnPrice, TimeOf
<1>5. /\ Len(net') = Len(net) - 1
      /\ \A j \in 1..(Len(net) - 1) : net'[j] = net[j + 1]
  BY <1>1, <1>4, RemoveHead DEF FeedTypes
<1>6. UNCHANGED <<now, truth, trades, phase, seam, whole>> /\ phase = "stream"
  BY DEF OnPrice
<1>7. bucket \in Nat /\ bucket <= Bucket(now)
  BY <1>2, BucketFacts
<1>8. \A j \in 1..(Len(net) - 1) : bucket <= Bucket(net[j + 1].at)
  <2> SUFFICES ASSUME NEW j \in 1..(Len(net) - 1)
               PROVE  bucket <= Bucket(net[j + 1].at)
    OBVIOUS
  <2>1. j + 1 \in 1..Len(net) /\ 1 <= j + 1
    BY <1>1
  <2>2. net[j + 1].at \in Nat /\ net[1].at <= net[j + 1].at
    BY <1>1, <2>1, Elements DEF NetInv
  <2> QED
    BY <1>2, <2>2, BucketFacts
<1> HIDE DEF bucket
<1>9. ASSUME NEW b \in Nat, b <= bucket
      PROVE  Reached(b, now', net')
  <2>1. \A j \in 1..Len(net') : b <= Bucket(net'[j].at)
    <3> SUFFICES ASSUME NEW j \in 1..(Len(net) - 1)
                 PROVE  b <= Bucket(net'[j].at)
      BY <1>5
    <3>1. j + 1 \in 1..Len(net)
      BY <1>1
    <3>2. net[j + 1].at \in Nat /\ net[j + 1].at <= net[j + 1].at
      BY <3>1, Elements
    <3>3. Bucket(net[j + 1].at) \in Nat
      BY <3>2, BucketFacts
    <3> QED
      BY <1>5, <1>7, <1>8, <1>9, <3>3
  <2>2. b <= Bucket(now)
    BY <1>2, <1>7, <1>9, BucketFacts
  <2> QED
    BY <1>6, <2>1, <2>2 DEF Reached
<1>10. \A b \in Nat : Reached(b, now, net) => b <= bucket
  BY <1>1 DEF Reached, bucket
<1> QED
  BY <1>1, <1>2, <1>3, <1>4, <1>5, <1>6, <1>7, <1>9, <1>10 DEF bucket

LEMMA OpenIsABar ==
  ASSUME NEW b, NEW p \in Nat \ {0}
  PROVE  OpenBar(b, p) # NoBar /\ OpenBar(b, p).bucket = b
BY DEF OpenBar, NoBar

LEMMA ExtendIsABar ==
  ASSUME NEW bar \in AnyBar, NEW p \in Nat \ {0}
  PROVE  /\ Extend(bar, p) \in AnyBar /\ Extend(bar, p) # NoBar
         /\ Extend(bar, p).bucket = bar.bucket /\ Extend(bar, p).open = bar.open
<1>1. /\ Extend(bar, p) \in AnyBar
      /\ Extend(bar, p).bucket = bar.bucket /\ Extend(bar, p).open = bar.open
      /\ Extend(bar, p).close = p
  BY DEF Extend, AnyBar
<1>2. NoBar.close = 0
  BY DEF NoBar
<1> QED
  BY <1>1, <1>2

LEMMA HistoryStep ==
  ASSUME OneClock, FeedTypes, TruthInv, NetInv, HistoryInv, [FeedNext]_feedVars
  PROVE  HistoryInv'
<1>0. /\ Len(net) \in Nat /\ Len(truth) \in Nat /\ Len(history) \in Nat
      /\ history \in Seq(AnyBar) /\ truth \in Seq(AnyBar) /\ builder \in AnyBar
      /\ builder.bucket \in Nat
      /\ history # <<>> => Newest(history) \in Nat /\ Len(history) # 0
  <2>1. history # <<>> => Len(history) # 0
    BY EmptySeq DEF FeedTypes
  <2>2. Len(history) # 0 => Len(history) \in 1..Len(history)
    BY Elements
  <2> QED
    BY <2>1, <2>2, Elements DEF FeedTypes, AnyBar, Newest
<1>1. CASE \/ Tick \/ Connect \/ Disconnect
           \/ \E price \in Prices, stamp \in Stamps : Trade(price, stamp)
  <2>1. UNCHANGED <<builder, history, seam>> /\ (phase' = "down" => phase = "down")
    BY <1>1 DEF Tick, Connect, Disconnect, Trade
  <2>2. \A b \in Nat : Reached(b, now, net) => Reached(b, now', net')
    BY <1>1, ReachedGrows
  <2>3. builder # NoBar => Reached(builder.bucket, now', net')
    BY <1>0, <2>2 DEF HistoryInv
  <2>4. builder = NoBar /\ history # <<>> => Reached(Newest(history), now', net')
    BY <1>0, <2>2 DEF HistoryInv
  <2> QED
    BY <2>1, <2>3, <2>4 DEF HistoryInv, InOrder, Follows, Newest, Ascending
<1>2. CASE Restart
  <2>1. history' = <<>> /\ builder' = NoBar /\ phase' = "down"
    BY <1>2 DEF Restart
  <2>2. InOrder(<<>>, seam')
    BY DEF InOrder
  <2> QED
    BY <2>1, <2>2 DEF HistoryInv
<1>3. CASE Warmup
  <2>1. builder' = NoBar /\ phase' = "warm" /\ UNCHANGED <<now, truth, net>>
        /\ net = <<>>
    BY <1>3 DEF Warmup, HistoryInv, NetInv
  <2>2. CASE history' = <<>>
    <3>1. InOrder(<<>>, seam')
      BY DEF InOrder
    <3> QED
      BY <2>1, <2>2, <3>1 DEF HistoryInv
  <2>3. CASE history' # <<>>
    <3>1. history' = Trim(truth) /\ seam' = Newest(history')
      BY <1>3, <2>3 DEF Warmup, Newest
    <3>2. Len(truth) # 0
      <4>1. CASE Len(truth) = 0
        <5>1. truth = <<>>
          BY <1>0, <4>1, EmptySeq
        <5>2. Trim(truth) = <<>>
          BY <5>1, FeedAssumption DEF Trim
        <5> QED
          BY <2>3, <3>1, <5>2
      <4> QED
        BY <4>1
    <3>3. Newest(Trim(truth)) = Newest(truth) /\ Ascending(Trim(truth))
      BY <1>0, <3>2, TrimKeepsOrder DEF TruthInv
    <3>4. Newest(truth) <= Bucket(now)
      BY <1>0, <3>2 DEF TruthInv, Newest
    <3>5. Reached(Newest(history'), now', net')
      BY <2>1, <3>1, <3>3, <3>4 DEF Reached
    <3>6. InOrder(history', seam')
      BY <3>1, <3>3, AscendingInOrder
    <3> QED
      BY <2>1, <2>3, <3>1, <3>3, <3>5, <3>6 DEF HistoryInv
  <2> QED
    BY <2>2, <2>3
<1>4. ASSUME NEW i \in DOMAIN net, OnPrice(i)
      PROVE  HistoryInv'
  <2> DEFINE bucket == Bucket(net[1].at)
             price == net[1].price
  <2>1. /\ price \in Nat \ {0} /\ bucket \in Nat
        /\ Update(price, bucket)
        /\ \A b \in Nat : Reached(b, now, net) => b <= bucket
        /\ \A b \in Nat : b <= bucket => Reached(b, now', net')
        /\ UNCHANGED <<phase, seam>> /\ phase = "stream"
    BY <1>4, FirstQuote
  <2> HIDE DEF bucket, price
  <2>2. builder = NoBar \/ bucket = builder.bucket =>
          UNCHANGED history /\ builder' # NoBar /\ builder'.bucket = bucket
    <3>1. OpenBar(bucket, price) # NoBar /\ OpenBar(bucket, price).bucket = bucket
      BY <2>1, OpenIsABar
    <3>2. /\ Extend(builder, price) # NoBar
          /\ Extend(builder, price).bucket = builder.bucket
      BY <1>0, <2>1, ExtendIsABar
    <3> QED
      BY <2>1, <3>1, <3>2 DEF Update
  <2>3. CASE builder = NoBar
    <3>1. Follows(builder', history, seam)
      BY <1>0, <2>1, <2>2, <2>3 DEF HistoryInv, Follows
    <3> QED
      BY <2>1, <2>2, <2>3, <3>1 DEF HistoryInv, InOrder, Follows, Newest, Ascending
  <2>4. CASE builder # NoBar /\ bucket = builder.bucket
    BY <2>1, <2>2, <2>4 DEF HistoryInv, InOrder, Follows, Newest, Ascending
  <2>5. CASE builder # NoBar /\ bucket # builder.bucket
    <3> DEFINE w == Append(history, builder)
    <3>1. builder' = OpenBar(bucket, price) /\ history' = Trim(w)
      BY <2>1, <2>5 DEF Update
    <3>2. builder' # NoBar /\ builder'.bucket = bucket
      BY <2>1, <3>1, OpenIsABar
    <3>3. w \in Seq(AnyBar) /\ Len(w) # 0 /\ Newest(w) = builder.bucket
            /\ InOrder(w, seam)
      BY <1>0, <2>5, AppendKeepsOrder DEF HistoryInv
    <3> HIDE DEF w
    <3>4. Newest(history') = builder.bucket /\ InOrder(history', seam)
      BY <3>1, <3>3, TrimKeepsOrder
    <3>5. builder.bucket < bucket
      BY <1>0, <2>1, <2>5 DEF HistoryInv
    <3>6. Follows(builder', history', seam')
      BY <3>2, <3>4, <3>5 DEF Follows
    <3> QED
      BY <2>1, <3>2, <3>4, <3>6 DEF HistoryInv
  <2> QED
    BY <2>3, <2>4, <2>5
<1>5. CASE UNCHANGED feedVars
  BY <1>5 DEF feedVars, HistoryInv, InOrder, Follows, Newest, Ascending, Reached
<1> QED
  BY <1>1, <1>2, <1>3, <1>4, <1>5 DEF FeedNext

LEMMA HistoryHolds ==
  ASSUME OneClock
  PROVE  FeedSpec => []HistoryInv
<1>1. FeedInit => HistoryInv
  BY DEF FeedInit, HistoryInv, InOrder
<1>2. FeedTypes /\ TruthInv /\ NetInv /\ HistoryInv /\ [FeedNext]_feedVars => HistoryInv'
  BY HistoryStep
<1> QED
  BY <1>1, <1>2, FeedTypesHold, ArrivalsHold, PTL DEF FeedSpec

(***************************************************************************)
(* The bars the strategy sees are in order, and only the bar the warmup    *)
(* found forming comes twice, whatever connections and restarts come       *)
(* between: a candle that CandleBuilder.update closes is never older than  *)
(* the last one of the history.                                            *)
(***************************************************************************)
THEOREM HistoryStaysInOrder ==
  ASSUME OneClock
  PROVE  FeedSpec => []HistoryInOrder
<1>1. FeedTypes /\ HistoryInv => HistoryInOrder
  BY LenProperties DEF FeedTypes, HistoryInv, InOrder, HistoryInOrder
<1> QED
  BY <1>1, FeedTypesHold, HistoryHolds, PTL

----------------------------------------------------------------------------
(* The bars. *)

(***************************************************************************)
(* A bar T of the server against the builder's bar and the quotes of T on  *)
(* their way: together they make T.  The builder may be past T, or have    *)
(* begun it, or not yet.                                                   *)
(***************************************************************************)
Pending(n, b) == {i \in 1..Len(n) : Bucket(n[i].at) = b}
Begun(T, bar) == bar # NoBar /\ bar.bucket = T.bucket
Past(T, bar) == bar # NoBar /\ T.bucket < bar.bucket

OpenAgrees(T, n, bar) ==
  IF Begun(T, bar) THEN T.open = bar.open
  ELSE \E i \in Pending(n, T.bucket) :
         T.open = n[i].price /\ \A j \in Pending(n, T.bucket) : i <= j

HighAgrees(T, n, bar) ==
  /\ Begun(T, bar) => bar.high <= T.high
  /\ \A i \in Pending(n, T.bucket) : n[i].price <= T.high
  /\ \/ Begun(T, bar) /\ T.high = bar.high
     \/ \E i \in Pending(n, T.bucket) : T.high = n[i].price

LowAgrees(T, n, bar) ==
  /\ Begun(T, bar) => T.low <= bar.low
  /\ \A i \in Pending(n, T.bucket) : T.low <= n[i].price
  /\ \/ Begun(T, bar) /\ T.low = bar.low
     \/ \E i \in Pending(n, T.bucket) : T.low = n[i].price

CloseAgrees(T, n, bar) ==
  \/ Begun(T, bar) /\ Pending(n, T.bucket) = {} /\ T.close = bar.close
  \/ \E i \in Pending(n, T.bucket) :
       T.close = n[i].price /\ \A j \in Pending(n, T.bucket) : j <= i

Mirrors(T, n, bar) ==
  \/ Past(T, bar)
  \/ /\ OpenAgrees(T, n, bar) /\ CloseAgrees(T, n, bar)
     /\ HighAgrees(T, n, bar) /\ LowAgrees(T, n, bar)

(***************************************************************************)
(* A quote is sent (m is n with it at the end): of another bar, as one     *)
(* more trade of T, or as the first of T.                                  *)
(***************************************************************************)
Appended(m, n, quote) ==
  /\ Len(m) = Len(n) + 1
  /\ \A i \in 1..Len(n) : m[i] = n[i]
  /\ m[Len(n) + 1] = quote

LEMMA PendingAppended ==
  ASSUME NEW m, NEW n, NEW quote, NEW b, Len(n) \in Nat, Appended(m, n, quote)
  PROVE  /\ Bucket(quote.at) # b => Pending(m, b) = Pending(n, b)
         /\ Bucket(quote.at) = b => Pending(m, b) = Pending(n, b) \cup {Len(n) + 1}
         /\ \A i \in Pending(n, b) : i \in Nat /\ i < Len(n) + 1 /\ m[i] = n[i]
BY DEF Appended, Pending

LEMMA SentOfAnother ==
  ASSUME NEW T, NEW m, NEW n, NEW quote, NEW bar, Len(n) \in Nat,
         Appended(m, n, quote), Bucket(quote.at) # T.bucket, Mirrors(T, n, bar)
  PROVE  Mirrors(T, m, bar)
<1> DEFINE b == T.bucket
<1>0. Bucket(quote.at) # b
  OBVIOUS
<1> HIDE DEF b
<1>1. /\ Pending(m, b) = Pending(n, b)
      /\ \A i \in Pending(n, b) : m[i] = n[i]
  BY <1>0 DEF Pending, Appended
<1> QED
  BY <1>1 DEF Mirrors, OpenAgrees, CloseAgrees, HighAgrees, LowAgrees, b

LEMMA TradedBar ==
  ASSUME NEW T \in AnyBar, NEW p \in Nat
  PROVE  LET U == Traded(T, p)
         IN  /\ U \in AnyBar /\ U.bucket = T.bucket /\ U.open = T.open /\ U.close = p
             /\ U.high = IF p <= T.high THEN T.high ELSE p
             /\ U.low = IF T.low <= p THEN T.low ELSE p
<1>1. T.high \in Nat /\ T.low \in Nat
  BY DEF AnyBar
<1>2. /\ Max({T.high, p}) = IF p <= T.high THEN T.high ELSE p
      /\ Min({T.low, p}) = IF T.low <= p THEN T.low ELSE p
  BY <1>1, PairFacts
<1>3. /\ Traded(T, p).high = Max({T.high, p}) /\ Traded(T, p).low = Min({T.low, p})
      /\ Traded(T, p).bucket = T.bucket /\ Traded(T, p).open = T.open
      /\ Traded(T, p).close = p
  BY DEF Traded, AnyBar
<1>4. Traded(T, p) \in AnyBar
  <2>1. Max({T.high, p}) \in Nat /\ Min({T.low, p}) \in Nat
    BY <1>1, <1>2
  <2> QED
    BY <2>1 DEF Traded, AnyBar
<1> QED
  BY <1>2, <1>3, <1>4

LEMMA SentOfTheSame ==
  ASSUME NEW T \in AnyBar, NEW m, NEW n, NEW quote, NEW bar \in AnyBar, Len(n) \in Nat,
         \A i \in 1..Len(n) : n[i].price \in Nat, quote.price \in Nat,
         Appended(m, n, quote), Bucket(quote.at) = T.bucket, Mirrors(T, n, bar)
  PROVE  Mirrors(Traded(T, quote.price), m, bar)
<1> DEFINE U == Traded(T, quote.price)
           p == quote.price
           last == Len(n) + 1
           P == Pending(n, T.bucket)
<1>1. /\ U \in AnyBar /\ U.bucket = T.bucket /\ U.open = T.open /\ U.close = p
      /\ U.high = IF p <= T.high THEN T.high ELSE p
      /\ U.low = IF T.low <= p THEN T.low ELSE p
  BY TradedBar
<1>2. /\ Pending(m, T.bucket) = P \cup {last}
      /\ \A i \in P : i \in Nat /\ i < last /\ m[i] = n[i] /\ n[i].price \in Nat
      /\ m[last] = quote /\ last \in Nat
  <2>1. \A i \in P : i \in 1..Len(n)
    BY DEF Pending
  <2> QED
    BY <2>1, PendingAppended DEF Appended
<1>3. T.high \in Nat /\ T.low \in Nat /\ bar.high \in Nat /\ bar.low \in Nat
  BY DEF AnyBar
<1>4. /\ Begun(U, bar) <=> Begun(T, bar)
      /\ Past(U, bar) <=> Past(T, bar)
  BY <1>1 DEF Begun, Past
<1> HIDE DEF U, P, last, p
<1>5. CASE Past(T, bar)
  BY <1>4, <1>5 DEF Mirrors, U
<1>6. CASE /\ OpenAgrees(T, n, bar) /\ CloseAgrees(T, n, bar)
           /\ HighAgrees(T, n, bar) /\ LowAgrees(T, n, bar)
  <2>1. OpenAgrees(U, m, bar)
    <3>1. CASE Begun(T, bar)
      BY <1>1, <1>4, <1>6, <3>1 DEF OpenAgrees
    <3>2. CASE ~Begun(T, bar)
      <4>1. PICK i \in P : T.open = n[i].price /\ \A j \in P : i <= j
        BY <1>6, <3>2 DEF OpenAgrees, P
      <4>2. i \in P \cup {last} /\ U.open = m[i].price /\ \A j \in P \cup {last} : i <= j
        BY <1>1, <1>2, <4>1
      <4> QED
        BY <1>1, <1>2, <1>4, <3>2, <4>2 DEF OpenAgrees
    <3> QED
      BY <3>1, <3>2
  <2>2. CloseAgrees(U, m, bar)
    <3>1. last \in P \cup {last} /\ U.close = m[last].price
            /\ \A j \in P \cup {last} : j <= last
      BY <1>1, <1>2 DEF p
    <3> QED
      BY <1>1, <1>2, <3>1 DEF CloseAgrees
  <2>3. HighAgrees(U, m, bar)
    <3>1. Begun(T, bar) => bar.high <= U.high
      BY <1>1, <1>3, <1>6 DEF HighAgrees, p
    <3>2. \A i \in P \cup {last} : m[i].price <= U.high
      BY <1>1, <1>2, <1>3, <1>6 DEF HighAgrees, P, p
    <3>3. \/ Begun(T, bar) /\ U.high = bar.high
          \/ \E i \in P \cup {last} : U.high = m[i].price
      BY <1>1, <1>2, <1>6 DEF HighAgrees, P, p
    <3> QED
      BY <1>1, <1>2, <1>4, <3>1, <3>2, <3>3 DEF HighAgrees
  <2>4. LowAgrees(U, m, bar)
    <3>1. Begun(T, bar) => U.low <= bar.low
      BY <1>1, <1>3, <1>6 DEF LowAgrees, p
    <3>2. \A i \in P \cup {last} : U.low <= m[i].price
      BY <1>1, <1>2, <1>3, <1>6 DEF LowAgrees, P, p
    <3>3. \/ Begun(T, bar) /\ U.low = bar.low
          \/ \E i \in P \cup {last} : U.low = m[i].price
      BY <1>1, <1>2, <1>6 DEF LowAgrees, P, p
    <3> QED
      BY <1>1, <1>2, <1>4, <3>1, <3>2, <3>3 DEF LowAgrees
  <2> QED
    BY <2>1, <2>2, <2>3, <2>4 DEF Mirrors, U
<1> QED
  BY <1>5, <1>6 DEF Mirrors

LEMMA SentAsFirst ==
  ASSUME NEW b, NEW p \in Nat, NEW m, NEW n, NEW quote, NEW bar, Len(n) \in Nat,
         Appended(m, n, quote), Bucket(quote.at) = b, quote.price = p,
         Pending(n, b) = {}, ~(bar # NoBar /\ bar.bucket = b)
  PROVE  Mirrors(OpenBar(b, p), m, bar)
<1> DEFINE T == OpenBar(b, p)
<1>1. T.bucket = b /\ T.open = p /\ T.high = p /\ T.low = p /\ T.close = p
  BY DEF OpenBar
<1>2. Pending(m, b) = {Len(n) + 1} /\ m[Len(n) + 1].price = p
  BY PendingAppended DEF Appended
<1>3. ~Begun(T, bar)
  BY <1>1 DEF Begun
<1> HIDE DEF T
<1>4. OpenAgrees(T, m, bar) /\ CloseAgrees(T, m, bar)
  BY <1>1, <1>2, <1>3 DEF OpenAgrees, CloseAgrees
<1>5. HighAgrees(T, m, bar) /\ LowAgrees(T, m, bar)
  BY <1>1, <1>2, <1>3 DEF HighAgrees, LowAgrees
<1> QED
  BY <1>4, <1>5 DEF Mirrors, T

(***************************************************************************)
(* A quote arrives (m is n without its head): of another bar, as the first *)
(* of T, or as one more of it.                                             *)
(***************************************************************************)
Taken(m, n) ==
  /\ Len(n) \in Nat \ {0}
  /\ Len(m) = Len(n) - 1
  /\ \A i \in 1..(Len(n) - 1) : m[i] = n[i + 1]

LEMMA PendingTaken ==
  ASSUME NEW m, NEW n, NEW b, Taken(m, n)
  PROVE  /\ \A i \in Pending(m, b) :
              i \in Nat /\ i + 1 \in Pending(n, b) /\ i + 1 # 1 /\ m[i] = n[i + 1]
         /\ \A i \in Pending(n, b) :
              i \in Nat /\ 1 <= i
                /\ (i # 1 => \E j \in Pending(m, b) : i = j + 1 /\ m[j] = n[i])
         /\ 1 \in Pending(n, b) <=> Bucket(n[1].at) = b
<1>1. ASSUME NEW i \in Pending(m, b)
      PROVE  i \in Nat /\ i + 1 \in Pending(n, b) /\ i + 1 # 1 /\ m[i] = n[i + 1]
  <2>1. i \in 1..(Len(n) - 1) /\ Bucket(m[i].at) = b
    BY DEF Pending, Taken
  <2>2. i \in Nat /\ i + 1 \in 1..Len(n) /\ i + 1 # 1
    BY <2>1 DEF Taken
  <2>3. m[i] = n[i + 1]
    BY <2>1 DEF Taken
  <2> QED
    BY <2>1, <2>2, <2>3 DEF Pending
<1>2. ASSUME NEW i \in Pending(n, b)
      PROVE  i \in Nat /\ 1 <= i
               /\ (i # 1 => \E j \in Pending(m, b) : i = j + 1 /\ m[j] = n[i])
  <2>1. i \in 1..Len(n) /\ Bucket(n[i].at) = b
    BY DEF Pending
  <2>2. ASSUME i # 1
        PROVE  \E j \in Pending(m, b) : i = j + 1 /\ m[j] = n[i]
    <3>1. PICK j \in 1..(Len(n) - 1) : i = j + 1
      <4>1. i - 1 \in 1..(Len(n) - 1) /\ i = (i - 1) + 1
        BY <2>1, <2>2 DEF Taken
      <4> QED
        BY <4>1
    <3>2. m[j] = n[i] /\ j \in 1..Len(m)
      BY <3>1 DEF Taken
    <3> QED
      BY <2>1, <3>1, <3>2 DEF Pending
  <2> QED
    BY <2>1, <2>2 DEF Taken
<1>3. 1 \in Pending(n, b) <=> Bucket(n[1].at) = b
  BY DEF Pending, Taken
<1> QED
  BY <1>1, <1>2, <1>3

LEMMA TakenOfAnother ==
  ASSUME NEW T, NEW m, NEW n, NEW bar, NEW next, Taken(m, n),
         Bucket(n[1].at) # T.bucket, ~Begun(T, bar), ~Past(T, bar), ~Begun(T, next),
         Mirrors(T, n, bar)
  PROVE  Mirrors(T, m, next)
<1> DEFINE P == Pending(n, T.bucket)
           Q == Pending(m, T.bucket)
<1>0. /\ \A i \in Q : i \in Nat /\ i + 1 \in P /\ i + 1 # 1 /\ m[i] = n[i + 1]
      /\ \A i \in P : i \in Nat /\ 1 <= i
                        /\ (i # 1 => \E j \in Q : i = j + 1 /\ m[j] = n[i])
      /\ 1 \in P <=> Bucket(n[1].at) = T.bucket
  BY PendingTaken
<1>1. /\ \A i \in Q : i \in Nat /\ i + 1 \in P /\ m[i] = n[i + 1]
      /\ \A i \in P : i \in Nat /\ \E j \in Q : i = j + 1 /\ m[j] = n[i]
  <2> HIDE DEF P, Q
  <2> QED
    BY <1>0
<1>2. /\ \E i \in P : T.open = n[i].price /\ \A j \in P : i <= j
      /\ \E i \in P : T.close = n[i].price /\ \A j \in P : j <= i
      /\ \A i \in P : n[i].price <= T.high /\ T.low <= n[i].price
      /\ \E i \in P : T.high = n[i].price
      /\ \E i \in P : T.low = n[i].price
  BY DEF Mirrors, OpenAgrees, CloseAgrees, HighAgrees, LowAgrees
<1> HIDE DEF P, Q
<1>3. \E i \in Q : T.open = m[i].price /\ \A j \in Q : i <= j
  <2>1. PICK k \in P : T.open = n[k].price /\ \A j \in P : k <= j
    BY <1>2
  <2>2. PICK i \in Q : k = i + 1 /\ m[i] = n[k]
    BY <1>1
  <2>3. \A j \in Q : i <= j
    BY <1>1, <2>1, <2>2
  <2> QED
    BY <2>1, <2>2, <2>3
<1>4. \E i \in Q : T.close = m[i].price /\ \A j \in Q : j <= i
  <2>1. PICK k \in P : T.close = n[k].price /\ \A j \in P : j <= k
    BY <1>2
  <2>2. PICK i \in Q : k = i + 1 /\ m[i] = n[k]
    BY <1>1
  <2>3. \A j \in Q : j <= i
    BY <1>1, <2>1, <2>2
  <2> QED
    BY <2>1, <2>2, <2>3
<1>5. \A i \in Q : m[i].price <= T.high /\ T.low <= m[i].price
  BY <1>1, <1>2
<1>6. (\E i \in Q : T.high = m[i].price) /\ (\E i \in Q : T.low = m[i].price)
  BY <1>1, <1>2
<1>7. OpenAgrees(T, m, next) /\ CloseAgrees(T, m, next)
  BY <1>3, <1>4 DEF OpenAgrees, CloseAgrees, Q
<1>8. HighAgrees(T, m, next) /\ LowAgrees(T, m, next)
  BY <1>5, <1>6 DEF HighAgrees, LowAgrees, Q
<1> QED
  BY <1>7, <1>8 DEF Mirrors

LEMMA TakenAsFirst ==
  ASSUME NEW T, NEW m, NEW n, NEW bar, Taken(m, n), n[1].price \in Nat \ {0},
         Bucket(n[1].at) = T.bucket, ~Begun(T, bar), ~Past(T, bar), Mirrors(T, n, bar)
  PROVE  Mirrors(T, m, OpenBar(T.bucket, n[1].price))
<1> DEFINE P == Pending(n, T.bucket)
           Q == Pending(m, T.bucket)
           p == n[1].price
           next == OpenBar(T.bucket, p)
<1>1. /\ \A i \in Q : i \in Nat /\ i + 1 \in P /\ i + 1 # 1 /\ m[i] = n[i + 1]
      /\ \A i \in P : i \in Nat /\ 1 <= i
                        /\ (i # 1 => \E j \in Q : i = j + 1 /\ m[j] = n[i])
      /\ 1 \in P
  BY PendingTaken
<1>2. /\ \E i \in P : T.open = n[i].price /\ \A j \in P : i <= j
      /\ \E i \in P : T.close = n[i].price /\ \A j \in P : j <= i
      /\ \A i \in P : n[i].price <= T.high /\ T.low <= n[i].price
      /\ \E i \in P : T.high = n[i].price
      /\ \E i \in P : T.low = n[i].price
  BY DEF Mirrors, OpenAgrees, CloseAgrees, HighAgrees, LowAgrees
<1>3. Begun(T, next)
  BY OpenIsABar DEF Begun
<1>4. next.open = p /\ next.high = p /\ next.low = p /\ next.close = p
  BY DEF OpenBar
<1> HIDE DEF P, Q, next
<1>5. T.open = p
  <2>1. PICK i \in P : T.open = n[i].price /\ \A j \in P : i <= j
    BY <1>2
  <2>2. i = 1
    BY <1>1, <2>1
  <2> QED
    BY <2>1, <2>2
<1>6. \/ Q = {} /\ T.close = p
      \/ \E i \in Q : T.close = m[i].price /\ \A j \in Q : j <= i
  <2>1. PICK k \in P : T.close = n[k].price /\ \A j \in P : j <= k
    BY <1>2
  <2>2. CASE k = 1
    <3>1. Q = {}
      BY <1>1, <2>1, <2>2
    <3> QED
      BY <2>1, <2>2, <3>1
  <2>3. CASE k # 1
    <3>1. PICK i \in Q : k = i + 1 /\ m[i] = n[k]
      BY <1>1, <2>3
    <3>2. \A j \in Q : j <= i
      BY <1>1, <2>1, <3>1
    <3> QED
      BY <2>1, <3>1, <3>2
  <2> QED
    BY <2>2, <2>3
<1>7. \A i \in Q : m[i].price <= T.high /\ T.low <= m[i].price
  BY <1>1, <1>2
<1>8. (T.high = p \/ \E i \in Q : T.high = m[i].price)
        /\ (T.low = p \/ \E i \in Q : T.low = m[i].price)
  BY <1>1, <1>2
<1>9. p <= T.high /\ T.low <= p
  BY <1>1, <1>2
<1> HIDE DEF p
<1>10. OpenAgrees(T, m, next) /\ CloseAgrees(T, m, next)
  BY <1>3, <1>4, <1>5, <1>6 DEF OpenAgrees, CloseAgrees, Q
<1>11. HighAgrees(T, m, next) /\ LowAgrees(T, m, next)
  BY <1>3, <1>4, <1>7, <1>8, <1>9 DEF HighAgrees, LowAgrees, Q
<1> QED
  BY <1>10, <1>11 DEF Mirrors, next, p

LEMMA TakenOfTheSame ==
  ASSUME NEW T \in AnyBar, NEW m, NEW n, NEW bar \in AnyBar, Taken(m, n),
         n[1].price \in Nat \ {0}, Bucket(n[1].at) = T.bucket,
         Begun(T, bar), Mirrors(T, n, bar)
  PROVE  Mirrors(T, m, Extend(bar, n[1].price))
<1> DEFINE P == Pending(n, T.bucket)
           Q == Pending(m, T.bucket)
           p == n[1].price
           next == Extend(bar, p)
<1>0. bar.bucket = T.bucket /\ T.bucket \in Nat /\ ~Past(T, bar)
        /\ T.high \in Nat /\ T.low \in Nat /\ bar.high \in Nat /\ bar.low \in Nat
  BY DEF Begun, Past, AnyBar
<1>1. /\ \A i \in Q : i \in Nat /\ i + 1 \in P /\ i + 1 # 1 /\ m[i] = n[i + 1]
      /\ \A i \in P : i \in Nat /\ 1 <= i
                        /\ (i # 1 => \E j \in Q : i = j + 1 /\ m[j] = n[i])
      /\ 1 \in P
  <2>1. /\ \A i \in Q : i \in Nat /\ i + 1 \in P /\ i + 1 # 1 /\ m[i] = n[i + 1]
        /\ \A i \in P : i \in Nat /\ 1 <= i
                          /\ (i # 1 => \E j \in Q : i = j + 1 /\ m[j] = n[i])
        /\ 1 \in P <=> Bucket(n[1].at) = T.bucket
    BY PendingTaken
  <2> HIDE DEF P, Q
  <2> QED
    BY <2>1
<1>2. /\ T.open = bar.open
      /\ \E i \in P : T.close = n[i].price /\ \A j \in P : j <= i
      /\ \A i \in P : n[i].price <= T.high /\ T.low <= n[i].price
      /\ bar.high <= T.high /\ T.low <= bar.low
      /\ T.high = bar.high \/ \E i \in P : T.high = n[i].price
      /\ T.low = bar.low \/ \E i \in P : T.low = n[i].price
  <2>1. /\ OpenAgrees(T, n, bar) /\ CloseAgrees(T, n, bar)
        /\ HighAgrees(T, n, bar) /\ LowAgrees(T, n, bar)
    BY <1>0 DEF Mirrors
  <2>2. T.open = bar.open /\ \E i \in P : T.close = n[i].price /\ \A j \in P : j <= i
    BY <1>1, <2>1 DEF OpenAgrees, CloseAgrees
  <2>3. /\ \A i \in P : n[i].price <= T.high /\ T.low <= n[i].price
        /\ bar.high <= T.high /\ T.low <= bar.low
    BY <2>1 DEF HighAgrees, LowAgrees
  <2>4. /\ T.high = bar.high \/ \E i \in P : T.high = n[i].price
        /\ T.low = bar.low \/ \E i \in P : T.low = n[i].price
    BY <2>1 DEF HighAgrees, LowAgrees
  <2> QED
    BY <2>2, <2>3, <2>4
<1>3. Begun(T, next) /\ next.open = bar.open
  BY <1>0, ExtendIsABar DEF Begun
<1>4. /\ next.high = IF p > bar.high THEN p ELSE bar.high
      /\ next.low = IF p < bar.low THEN p ELSE bar.low
      /\ next.close = p
  BY DEF Extend, AnyBar
<1> HIDE DEF P, Q, next
<1>6. \/ Q = {} /\ T.close = p
      \/ \E i \in Q : T.close = m[i].price /\ \A j \in Q : j <= i
  <2>1. PICK k \in P : T.close = n[k].price /\ \A j \in P : j <= k
    BY <1>2
  <2>2. CASE k = 1
    <3>1. Q = {}
      BY <1>1, <2>1, <2>2
    <3> QED
      BY <2>1, <2>2, <3>1
  <2>3. CASE k # 1
    <3>1. PICK i \in Q : k = i + 1 /\ m[i] = n[k]
      BY <1>1, <2>3
    <3>2. \A j \in Q : j <= i
      BY <1>1, <2>1, <3>1
    <3> QED
      BY <2>1, <3>1, <3>2
  <2> QED
    BY <2>2, <2>3
<1>7. \A i \in Q : m[i].price <= T.high /\ T.low <= m[i].price
  BY <1>1, <1>2
<1>8. (T.high = p \/ T.high = bar.high \/ \E i \in Q : T.high = m[i].price)
        /\ (T.low = p \/ T.low = bar.low \/ \E i \in Q : T.low = m[i].price)
  BY <1>1, <1>2
<1>9. p <= T.high /\ T.low <= p
  BY <1>1, <1>2
<1>10. p \in Nat
  OBVIOUS
<1> HIDE DEF p
<1>11. next.high <= T.high /\ (T.high = next.high \/ \E i \in Q : T.high = m[i].price)
  BY <1>0, <1>2, <1>4, <1>8, <1>9, <1>10
<1>12. T.low <= next.low /\ (T.low = next.low \/ \E i \in Q : T.low = m[i].price)
  BY <1>0, <1>2, <1>4, <1>8, <1>9, <1>10
<1>13. OpenAgrees(T, m, next) /\ CloseAgrees(T, m, next)
  BY <1>2, <1>3, <1>4, <1>6 DEF OpenAgrees, CloseAgrees, Q
<1>14. HighAgrees(T, m, next) /\ LowAgrees(T, m, next)
  BY <1>3, <1>7, <1>11, <1>12 DEF HighAgrees, LowAgrees, Q
<1> QED
  BY <1>13, <1>14 DEF Mirrors, next, p

(***************************************************************************)
(* What the builder and the quotes on their way hold is of bars the server *)
(* has, and every bar that began under the connection is mirrored.         *)
(***************************************************************************)
HasBucket(s, b) == \E k \in 1..Len(s) : s[k].bucket = b

MirrorInv ==
  /\ builder # NoBar => HasBucket(truth, builder.bucket)
  /\ \A i \in 1..Len(net) : HasBucket(truth, Bucket(net[i].at))
  /\ phase = "stream" =>
       \A k \in 1..Len(truth) :
         truth[k].bucket * Step > whole => Mirrors(truth[k], net, builder)

(***************************************************************************)
(* What a trade does to the server's bars.                                 *)
(***************************************************************************)
LEMMA TradeFacts ==
  ASSUME FeedTypes, TruthInv, NEW price \in Prices, NEW stamp \in Stamps,
         Trade(price, stamp)
  PROVE  LET b == Bucket(now)
         IN  /\ HasBucket(truth', b)
             /\ \A c : HasBucket(truth, c) => HasBucket(truth', c)
             /\ \A k \in 1..Len(truth') :
                  \/ /\ k \in 1..Len(truth) /\ truth[k].bucket # b
                     /\ truth'[k] = truth[k]
                  \/ /\ k \in 1..Len(truth) /\ truth[k].bucket = b
                     /\ truth'[k] = Traded(truth[k], price)
                  \/ ~HasBucket(truth, b) /\ truth'[k] = OpenBar(b, price)
<1> DEFINE b == Bucket(now)
           n == Len(truth)
<1>1. /\ n \in Nat /\ b \in Nat
      /\ \A k \in 1..n : truth[k] \in AnyBar /\ truth[k].bucket \in Nat
  <2>1. now \in Nat /\ now <= now
    BY DEF FeedTypes
  <2> QED
    BY <2>1, Elements, BucketFacts
<1>2. CASE truth # <<>> /\ truth[n].bucket = b
  <2>1. truth' = [truth EXCEPT ![n] = Traded(@, price)]
    BY <1>2 DEF Trade
  <2>2. truth \in [1..n -> AnyBar]
    BY LenProperties DEF FeedTypes
  <2>3. n \in 1..n
    <3>1. n # 0
      BY <1>2, EmptySeq DEF FeedTypes
    <3> QED
      BY <1>1, <3>1
  <2>4. /\ Len(truth') = n
        /\ truth'[n] = Traded(truth[n], price)
        /\ \A k \in 1..n : k # n => truth'[k] = truth[k]
    <3>1. Traded(truth[n], price) \in AnyBar
      BY <1>1, <2>3, TradedBar, FeedAssumption
    <3>2. Len(truth') = n
      BY <2>1, <2>3, <3>1, ExceptSeq DEF FeedTypes
    <3>3. /\ truth'[n] = Traded(truth[n], price)
          /\ \A k \in 1..n : k # n => truth'[k] = truth[k]
      BY <2>1, <2>2, <2>3
    <3> QED
      BY <3>2, <3>3
  <2>5. \A k \in 1..n : k # n => truth[k].bucket # b
    <3> SUFFICES ASSUME NEW k \in 1..n, k # n PROVE truth[k].bucket # b
      OBVIOUS
    <3>1. k < n
      BY <1>1
    <3>2. truth[k].bucket < truth[n].bucket
      BY <2>3, <3>1 DEF TruthInv, Ascending
    <3> QED
      BY <1>1, <1>2, <2>3, <3>2
  <2>6. truth'[n].bucket = b /\ \A k \in 1..n : truth'[k].bucket = truth[k].bucket
    <3>1. Traded(truth[n], price).bucket = truth[n].bucket
      BY <1>1, <2>3 DEF Traded, AnyBar
    <3> QED
      BY <1>2, <2>4, <3>1
  <2> HIDE DEF b, n
  <2>7. \A c : HasBucket(truth, c) => HasBucket(truth', c)
    BY <2>4, <2>6 DEF HasBucket, n
  <2>8. HasBucket(truth', b)
    BY <2>3, <2>4, <2>6 DEF HasBucket
  <2> QED
    BY <1>2, <2>3, <2>4, <2>5, <2>7, <2>8 DEF b, n
<1>3. CASE ~(truth # <<>> /\ truth[n].bucket = b)
  <2> DEFINE fresh == OpenBar(b, price)
  <2>1. truth' = Append(truth, fresh) /\ fresh.bucket = b
    BY <1>3 DEF Trade, OpenBar
  <2>2. fresh \in AnyBar
    BY <1>1, FeedAssumption DEF OpenBar, AnyBar
  <2> HIDE DEF fresh
  <2>3. /\ Len(truth') = n + 1
        /\ truth'[n + 1] = fresh
        /\ \A k \in 1..n : truth'[k] = truth[k]
    BY <2>1, <2>2, AppendProperties DEF FeedTypes
  <2>4. \A k \in 1..n : truth[k].bucket # b
    <3>1. CASE n = 0
      BY <3>1
    <3>2. CASE n # 0
      <4>1. truth # <<>> /\ n \in 1..n
        BY <1>1, <3>2
      <4>2. truth[n].bucket < b
        BY <1>1, <1>3, <4>1 DEF TruthInv
      <4>3. \A k \in 1..n : k # n => truth[k].bucket < truth[n].bucket
        BY <1>1, <4>1 DEF TruthInv, Ascending
      <4> QED
        BY <1>1, <4>1, <4>2, <4>3
    <3> QED
      BY <3>1, <3>2
  <2> HIDE DEF b, n
  <2>5. ~HasBucket(truth, b)
    BY <2>4 DEF HasBucket, n
  <2>6. \A c : HasBucket(truth, c) => HasBucket(truth', c)
    BY <1>1, <2>3 DEF HasBucket, n
  <2>7. HasBucket(truth', b)
    BY <1>1, <2>1, <2>3 DEF HasBucket
  <2>8. \A k \in 1..(n + 1) : k \in 1..n \/ k = n + 1
    BY <1>1
  <2> QED
    BY <2>3, <2>4, <2>5, <2>6, <2>7, <2>8 DEF b, n, fresh
<1> QED
  BY <1>2, <1>3

LEMMA MirrorTrade ==
  ASSUME OneClock, FeedTypes, TruthInv, NetInv, HistoryInv, MirrorInv,
         NEW price \in Prices, NEW stamp \in Stamps, Trade(price, stamp)
  PROVE  MirrorInv'
<1> DEFINE b == Bucket(now)
           quote == [price |-> price, at |-> now, stamp |-> stamp]
<1>0. /\ Len(net) \in Nat /\ builder \in AnyBar /\ b \in Nat /\ price \in Nat
      /\ UNCHANGED <<now, phase, builder, whole>>
  BY Elements, BucketFacts, FeedAssumption DEF FeedTypes, Trade
<1>1. /\ HasBucket(truth', b)
      /\ \A c : HasBucket(truth, c) => HasBucket(truth', c)
      /\ \A k \in 1..Len(truth') :
           \/ /\ k \in 1..Len(truth) /\ truth[k].bucket # b
              /\ truth'[k] = truth[k]
           \/ /\ k \in 1..Len(truth) /\ truth[k].bucket = b
              /\ truth'[k] = Traded(truth[k], price)
           \/ ~HasBucket(truth, b) /\ truth'[k] = OpenBar(b, price)
  BY TradeFacts
<1>2. CASE phase # "stream"
  <2>1. net' = net /\ phase' # "stream"
    BY <1>2 DEF Trade
  <2> QED
    BY <1>0, <1>1, <2>1 DEF MirrorInv
<1>3. CASE phase = "stream"
  <2>1. quote \in Quotes /\ quote.price = price /\ Bucket(quote.at) = b
    BY DEF FeedTypes, Quotes
  <2>2. net' = Append(net, quote)
    BY <1>3 DEF Trade
  <2> HIDE DEF quote, b
  <2>3. Appended(net', net, quote)
    BY <2>1, <2>2, AppendProperties DEF Appended, FeedTypes
  <2>4. \A i \in 1..Len(net') : HasBucket(truth', Bucket(net'[i].at))
    <3> SUFFICES ASSUME NEW i \in 1..Len(net')
                 PROVE  HasBucket(truth', Bucket(net'[i].at))
      OBVIOUS
    <3>1. CASE i = Len(net) + 1
      BY <1>1, <2>1, <2>3, <3>1 DEF Appended
    <3>2. CASE i # Len(net) + 1
      <4>1. i \in 1..Len(net) /\ net'[i] = net[i]
        BY <1>0, <2>3, <3>2 DEF Appended
      <4> QED
        BY <1>1, <4>1 DEF MirrorInv
    <3> QED
      BY <3>1, <3>2
  <2>5. builder' # NoBar => HasBucket(truth', builder'.bucket)
    BY <1>0, <1>1 DEF MirrorInv
  <2>6. ASSUME NEW k \in 1..Len(truth'), truth'[k].bucket * Step > whole'
        PROVE  Mirrors(truth'[k], net', builder')
    <3>1. CASE /\ k \in 1..Len(truth) /\ truth[k].bucket # b
               /\ truth'[k] = truth[k]
      <4>1. Mirrors(truth[k], net, builder)
        BY <1>0, <1>3, <2>6, <3>1 DEF MirrorInv
      <4>2. Mirrors(truth[k], net', builder)
        BY <1>0, <2>1, <2>3, <3>1, <4>1, SentOfAnother
      <4> QED
        BY <1>0, <3>1, <4>2
    <3>2. CASE /\ k \in 1..Len(truth) /\ truth[k].bucket = b
               /\ truth'[k] = Traded(truth[k], price)
      <4>1. truth[k] \in AnyBar /\ \A i \in 1..Len(net) : net[i] \in Quotes
        BY <3>2, Elements
      <4>2. truth'[k].bucket = truth[k].bucket
        <5>1. Traded(truth[k], price).bucket = truth[k].bucket
          BY <1>0, <4>1, TradedBar
        <5> QED
          BY <3>2, <5>1
      <4>3. Mirrors(truth[k], net, builder)
        BY <1>0, <1>3, <2>6, <3>2, <4>2 DEF MirrorInv
      <4>4. \A i \in 1..Len(net) : net[i].price \in Nat
        BY <4>1, FeedAssumption DEF Quotes
      <4>5. Mirrors(Traded(truth[k], quote.price), net', builder)
        BY <1>0, <2>1, <2>3, <3>2, <4>1, <4>3, <4>4, SentOfTheSame
      <4> QED
        BY <1>0, <2>1, <3>2, <4>5
    <3>3. CASE ~HasBucket(truth, b) /\ truth'[k] = OpenBar(b, price)
      <4>1. Pending(net, b) = {}
        BY <3>3 DEF Pending, MirrorInv
      <4>2. ~(builder # NoBar /\ builder.bucket = b)
        BY <3>3 DEF MirrorInv
      <4>3. Mirrors(OpenBar(b, price), net', builder)
        BY <1>0, <2>1, <2>3, <4>1, <4>2, SentAsFirst
      <4> QED
        BY <1>0, <3>3, <4>3
    <3> QED
      BY <1>1, <3>1, <3>2, <3>3
  <2> QED
    BY <2>4, <2>5, <2>6 DEF MirrorInv
<1> QED
  BY <1>2, <1>3

LEMMA MirrorArrival ==
  ASSUME OneClock, FeedTypes, TruthInv, NetInv, HistoryInv, MirrorInv,
         NEW i \in DOMAIN net, OnPrice(i)
  PROVE  MirrorInv'
<1> DEFINE b == Bucket(net[1].at)
           price == net[1].price
<1>1. /\ 1 \in 1..Len(net) /\ net # <<>> /\ price \in Nat \ {0} /\ b \in Nat
      /\ Update(price, b)
      /\ \A c \in Nat : Reached(c, now, net) => c <= b
      /\ UNCHANGED <<now, truth, phase, whole>> /\ phase = "stream"
      /\ Len(net') = Len(net) - 1
      /\ \A j \in 1..(Len(net) - 1) : net'[j] = net[j + 1]
  BY FirstQuote
<1>2. builder \in AnyBar /\ builder.bucket \in Nat /\ Len(net) \in Nat
        /\ \A k \in 1..Len(truth) : truth[k] \in AnyBar /\ truth[k].bucket \in Nat
  BY Elements DEF FeedTypes, AnyBar
<1>3. Taken(net', net)
  BY <1>1, <1>2 DEF Taken
<1>4. HasBucket(truth, b) /\ \A j \in 1..Len(net') : HasBucket(truth, Bucket(net'[j].at))
  <2>1. \A j \in 1..(Len(net) - 1) : j + 1 \in 1..Len(net)
    BY <1>2
  <2> QED
    BY <1>1, <2>1 DEF MirrorInv
<1>5. builder # NoBar => builder.bucket <= b
  BY <1>1, <1>2 DEF HistoryInv
<1>6. OpenBar(b, price) # NoBar /\ OpenBar(b, price).bucket = b
  BY <1>1, OpenIsABar
<1>7. Extend(builder, price) # NoBar /\ Extend(builder, price).bucket = builder.bucket
  BY <1>1, <1>2, ExtendIsABar
<1>8. builder' = IF builder # NoBar /\ b = builder.bucket THEN Extend(builder, price)
                                                        ELSE OpenBar(b, price)
  BY <1>1 DEF Update
<1>9. builder' # NoBar /\ builder'.bucket = b
  BY <1>6, <1>7, <1>8
<1>10. ASSUME NEW k \in 1..Len(truth), truth[k].bucket * Step > whole
       PROVE  Mirrors(truth[k], net', builder')
  <2> DEFINE T == truth[k]
  <2>1. T \in AnyBar /\ T.bucket \in Nat /\ Mirrors(T, net, builder)
    BY <1>1, <1>2, <1>10 DEF MirrorInv
  <2> SUFFICES Mirrors(T, net', builder')
    OBVIOUS
  <2> HIDE DEF T
  <2>2. CASE T.bucket < b
    BY <1>9, <2>2 DEF Mirrors, Past
  <2>3. CASE T.bucket > b
    <3>1. b # T.bucket /\ ~Begun(T, builder) /\ ~Past(T, builder) /\ ~Begun(T, builder')
      BY <1>1, <1>2, <1>5, <1>9, <2>1, <2>3 DEF Begun, Past
    <3> QED
      BY <1>3, <2>1, <3>1, TakenOfAnother
  <2>4. CASE T.bucket = b /\ Begun(T, builder)
    <3>1. builder' = Extend(builder, price)
      BY <1>8, <2>4 DEF Begun
    <3>2. Mirrors(T, net', Extend(builder, price))
      BY <1>1, <1>2, <1>3, <2>1, <2>4, TakenOfTheSame
    <3> QED
      BY <3>1, <3>2
  <2>5. CASE T.bucket = b /\ ~Begun(T, builder)
    <3>1. builder' = OpenBar(T.bucket, price)
      BY <1>8, <2>5 DEF Begun
    <3>2. ~Past(T, builder)
      BY <1>1, <1>2, <1>5, <2>5 DEF Past
    <3>3. Mirrors(T, net', OpenBar(T.bucket, price))
      BY <1>1, <1>3, <2>1, <2>5, <3>2, TakenAsFirst
    <3> QED
      BY <3>1, <3>3
  <2> QED
    BY <1>1, <2>1, <2>2, <2>3, <2>4, <2>5
<1> QED
  BY <1>1, <1>4, <1>9, <1>10 DEF MirrorInv

LEMMA MirrorStep ==
  ASSUME OneClock, FeedTypes, TruthInv, NetInv, HistoryInv, MirrorInv,
         [FeedNext]_feedVars
  PROVE  MirrorInv'
<1>1. CASE Tick
  BY <1>1 DEF Tick, MirrorInv
<1>2. CASE \E price \in Prices, stamp \in Stamps : Trade(price, stamp)
  BY <1>2, MirrorTrade
<1>3. CASE Warmup
  <2>1. UNCHANGED <<truth, net, builder>> /\ phase' # "stream"
    BY <1>3 DEF Warmup
  <2> QED
    BY <2>1 DEF MirrorInv
<1>4. CASE Connect
  <2>1. UNCHANGED <<truth, net, builder>> /\ whole' = now
    BY <1>4 DEF Connect
  <2>2. \A k \in 1..Len(truth) : ~(truth[k].bucket * Step > now)
    <3> SUFFICES ASSUME NEW k \in 1..Len(truth)
                 PROVE  ~(truth[k].bucket * Step > now)
      OBVIOUS
    <3>1. now \in Nat /\ now <= now /\ Step \in Nat
      BY FeedAssumption DEF FeedTypes
    <3>2. truth[k].bucket \in Nat /\ truth[k].bucket <= Bucket(now)
      BY Elements DEF TruthInv
    <3>3. truth[k].bucket * Step <= now
      BY <3>1, <3>2, BucketFacts
    <3> DEFINE x == truth[k].bucket * Step
    <3>4. x \in Nat
      BY <3>1, <3>2, SMT
    <3> HIDE DEF x
    <3>5. ~(x > now)
      BY <3>1, <3>3, <3>4 DEF x
    <3> QED
      BY <3>5 DEF x
  <2> QED
    BY <2>1, <2>2 DEF MirrorInv
<1>5. CASE Disconnect
  <2>1. UNCHANGED <<truth, builder>> /\ net' = <<>> /\ phase' # "stream"
    BY <1>5 DEF Disconnect
  <2> QED
    BY <2>1 DEF MirrorInv
<1>6. CASE Restart
  <2>1. truth' = truth /\ builder' = NoBar /\ net' = <<>> /\ phase' # "stream"
    BY <1>6 DEF Restart
  <2> QED
    BY <2>1 DEF MirrorInv
<1>7. CASE \E i \in DOMAIN net : OnPrice(i)
  BY <1>7, MirrorArrival
<1>8. CASE UNCHANGED feedVars
  BY <1>8 DEF feedVars, MirrorInv
<1> QED
  BY <1>1, <1>2, <1>3, <1>4, <1>5, <1>6, <1>7, <1>8 DEF FeedNext

LEMMA SameBar ==
  ASSUME NEW x \in AnyBar, NEW y \in AnyBar, x.bucket = y.bucket, x.open = y.open,
         x.high = y.high, x.low = y.low, x.close = y.close
  PROVE  x = y
BY DEF AnyBar

(***************************************************************************)
(* A bar that is closed while its whole time was streamed is the server's: *)
(* nothing of it is on its way any more, so what the builder holds is all. *)
(***************************************************************************)
LEMMA ClosedIsServed ==
  ASSUME OneClock, FeedTypes, TruthInv, NetInv, HistoryInv, MirrorInv,
         FeedNext, Closes, builder.bucket * Step > whole
  PROVE  Served(builder)
<1>1. PICK i \in DOMAIN net : OnPrice(i)
  BY DEF Closes, FeedNext, Tick, Trade, Warmup, Connect, Disconnect, Restart
<1> DEFINE b == Bucket(net[1].at)
           price == net[1].price
<1>2. /\ 1 \in 1..Len(net) /\ b \in Nat
      /\ Update(price, b)
      /\ \A c \in Nat : Reached(c, now, net) => c <= b
      /\ phase = "stream"
  BY <1>1, FirstQuote
<1>3. /\ builder \in AnyBar /\ builder.bucket \in Nat /\ Len(net) \in Nat
      /\ \A k \in 1..Len(truth) : truth[k] \in AnyBar
      /\ \A k \in 1..Len(net) : net[k].at \in Nat
  BY Elements DEF FeedTypes, AnyBar
<1>4. builder # NoBar /\ builder.bucket # b
  BY <1>2 DEF Update, Closes
<1>5. builder.bucket < b
  BY <1>2, <1>3, <1>4 DEF HistoryInv
<1>6. Pending(net, builder.bucket) = {}
  <2> SUFFICES ASSUME NEW j \in 1..Len(net), Bucket(net[j].at) = builder.bucket
               PROVE  FALSE
    BY DEF Pending
  <2>1. net[1].at <= net[j].at
    BY <1>2, <1>3 DEF NetInv
  <2>2. b <= Bucket(net[j].at)
    BY <1>2, <1>3, <2>1, BucketFacts
  <2> QED
    BY <1>2, <1>3, <1>5, <2>2
<1>7. PICK k \in 1..Len(truth) : truth[k].bucket = builder.bucket
  BY <1>4 DEF MirrorInv, HasBucket
<1> DEFINE T == truth[k]
<1>8. Mirrors(T, net, builder) /\ T \in AnyBar /\ T.bucket = builder.bucket
  BY <1>2, <1>3, <1>7 DEF MirrorInv
<1> HIDE DEF T
<1>9. Begun(T, builder) /\ ~Past(T, builder) /\ Pending(net, T.bucket) = {}
  BY <1>3, <1>4, <1>6, <1>8 DEF Begun, Past
<1>10. T.open = builder.open /\ T.high = builder.high /\ T.low = builder.low
         /\ T.close = builder.close
  BY <1>8, <1>9 DEF Mirrors, OpenAgrees, HighAgrees, LowAgrees, CloseAgrees
<1>11. T = builder
  BY <1>3, <1>8, <1>10, SameBar
<1>12. k \in DOMAIN truth
  BY <1>7, LenProperties DEF FeedTypes
<1> QED
  BY <1>11, <1>12 DEF Served, T

(***************************************************************************)
(* live_engine.py:236-237: bars bucketed by the quotes' own time match the *)
(* historical bars, however late the quotes and whatever connections were  *)
(* lost before.                                                            *)
(***************************************************************************)
THEOREM BarsAreTheServers ==
  ASSUME OneClock
  PROVE  FeedSpec => BarsMirror
<1>1. FeedInit => MirrorInv
  BY DEF FeedInit, MirrorInv
<1>2. /\ FeedTypes /\ TruthInv /\ NetInv /\ HistoryInv /\ MirrorInv
      /\ [FeedNext]_feedVars
      => MirrorInv'
  BY MirrorStep
<1>3. /\ FeedTypes /\ TruthInv /\ NetInv /\ HistoryInv /\ MirrorInv
      /\ [FeedNext]_feedVars
      => [Closes /\ builder.bucket * Step > whole => Served(builder)]_feedVars
  BY ClosedIsServed
<1> QED
  BY <1>1, <1>2, <1>3, FeedTypesHold, ArrivalsHold, HistoryHolds, PTL
     DEF FeedSpec, BarsMirror

----------------------------------------------------------------------------
(* The websocket loop. *)

(***************************************************************************)
(* What the loop does to the feed is what a feed may do: the theorems      *)
(* above are about the stream with its websocket too.                      *)
(***************************************************************************)
THEOREM StreamIsFed == StreamSpec => FeedSpec
<1>1. StreamInit => FeedInit
  BY DEF StreamInit
<1>2. [StreamNext]_<<vars, feedVars>> => [FeedNext]_feedVars
  <2> SUFFICES ASSUME [StreamNext]_<<vars, feedVars>>
               PROVE  [FeedNext]_feedVars
    OBVIOUS
  <2>1. CASE FedLoop
    BY <2>1 DEF FedLoop, Opens, Lost, FeedNext
  <2>2. CASE Frame
    BY <2>2 DEF Frame, FeedNext
  <2>3. CASE Lost(Drop)
    BY <2>3 DEF Lost, FeedNext
  <2>4. CASE Market
    BY <2>4 DEF Market, FeedNext
  <2>5. CASE Launch \/ ProcessEnds
    BY <2>5 DEF Launch, ProcessEnds, FeedNext
  <2> QED
    BY <2>1, <2>2, <2>3, <2>4, <2>5 DEF StreamNext
<1> QED
  BY <1>1, <1>2, PTL DEF StreamSpec, FeedSpec

(***************************************************************************)
(* A stream that was lost had been opened, so that the next socket is a    *)
(* re-open and calls on_reconnect before it streams.                       *)
(***************************************************************************)
SyncInv ==
  /\ pc \in {"reconcile", "streaming"} => connectedBefore
  /\ sync = "lost" => connectedBefore /\ pc # "streaming"

(***************************************************************************)
(* The delay follows the last one slept, except behind data, of which the  *)
(* next sleep will take note.                                              *)
(***************************************************************************)
Following(s) == IF s = 0 THEN ReconnectDelay ELSE Doubled(s)

DelayInv ==
  /\ delay \in ReconnectDelay..MaxReconnectDelay
  /\ pc \in {"check", "sleep"} \/ ~gotMessage => delay = Following(slept)
  /\ gotMessage /\ pc \notin {"begin", "check", "done"} => slept = 0

LEMMA DelayFacts ==
  /\ ReconnectDelay \in ReconnectDelay..MaxReconnectDelay
  /\ Following(0) = ReconnectDelay
  /\ \A d \in ReconnectDelay..MaxReconnectDelay :
       /\ Doubled(d) \in ReconnectDelay..MaxReconnectDelay
       /\ Following(d) = Doubled(d)
BY DelayAssumption DEF Following, Doubled

LEMMA LoopHolds == StreamSpec => [](SyncInv /\ DelayInv)
<1>1. StreamInit => SyncInv /\ DelayInv
  BY DelayFacts DEF StreamInit, Init, SyncInv, DelayInv
<1>2. SyncInv /\ DelayInv /\ [StreamNext]_<<vars, feedVars>> => SyncInv' /\ DelayInv'
  <2> SUFFICES ASSUME SyncInv, DelayInv, [StreamNext]_<<vars, feedVars>>
               PROVE  SyncInv' /\ DelayInv'
    OBVIOUS
  <2> USE DEF SyncInv, DelayInv
  <2>1. CASE Begin
    BY <2>1, DelayFacts DEF Begin
  <2>2. CASE Check
    BY <2>2 DEF Check
  <2>3. CASE Session \/ Dial
    BY <2>3 DEF Session, Dial
  <2>4. CASE Reconcile
    BY <2>4 DEF Reconcile
  <2>5. CASE After
    BY <2>5, DelayFacts DEF After
  <2>6. CASE Sleep
    BY <2>6, DelayFacts DEF Sleep
  <2>7. CASE Opens
    BY <2>7 DEF Opens, Subscribe
  <2>8. CASE Lost(Closed) \/ Lost(Drop)
    BY <2>8 DEF Lost, Closed, Drop, Leave
  <2>9. CASE Frame
    BY <2>9 DEF Frame, Message
  <2>10. CASE Open \/ SubscribeFails
    BY <2>10 DEF Open, SubscribeFails
  <2>11. CASE Stop \/ Expire
    BY <2>11 DEF Stop, Expire
  <2>12. CASE UNCHANGED vars
    BY <2>12 DEF vars
  <2>13. CASE Launch
    BY <2>13 DEF Launch
  <2>14. CASE ProcessEnds
    BY <2>14, DelayFacts DEF ProcessEnds
  <2> QED
    BY <2>1, <2>2, <2>3, <2>4, <2>5, <2>6, <2>7, <2>8, <2>9, <2>10, <2>11, <2>12,
       <2>13, <2>14 DEF StreamNext, FedLoop
<1> QED
  BY <1>1, <1>2, PTL DEF StreamSpec

(***************************************************************************)
(* on_open of websocket_client.py: behind a lost stream no quote is        *)
(* handled before on_reconnect has run, whose failure is only logged       *)
(* (live_engine.py:112-115).                                               *)
(***************************************************************************)
THEOREM ReconciledFirst == StreamSpec => QuotesAfterReconcile
<1>1. SyncInv /\ [StreamNext]_<<vars, feedVars>> => [sync = "lost" => ~Message]_vars
  BY DEF SyncInv, Message
<1> QED
  BY <1>1, LoopHolds, PTL DEF StreamSpec, QuotesAfterReconcile

(***************************************************************************)
(* The reconnect delay of run_forever doubles up to its cap in a run of    *)
(* dead connections.                                                       *)
(***************************************************************************)
THEOREM BackoffGrows == StreamSpec => []BackoffDoubles
<1>1. DelayInv => BackoffDoubles
  BY DEF DelayInv, BackoffDoubles, Following
<1> QED
  BY <1>1, LoopHolds, PTL DEF StreamSpec

=============================================================================
