-------------------------- MODULE LiveUpdatesProofs --------------------------
(***************************************************************************)
(* Proofs about the event stream and the query cache, for every number of  *)
(* queries, event types and EventSource objects.                           *)
(***************************************************************************)
EXTENDS LiveUpdates, TLAPS

\* What makes OneDriver inductive: the ref always knows of the timer.
StreamInv ==
  /\ StreamTypeOK
  /\ OneDriver
  /\ timers > 0 => timerRef

-----------------------------------------------------------------------------
(* The stream.                                                             *)

\* open() takes an object that is closed, and makes it the only difference.
LEMMA OpenTakesClosed ==
  ASSUME NEW at \in [Sources -> {"closed", "connecting", "open"}], OpenFrom(at)
  PROVE  /\ source' \in Sources /\ at[source'] = "closed"
         /\ stream' \in [Sources -> {"closed", "connecting", "open"}]
         /\ stream'[source'] = "connecting"
         /\ \A s \in Sources : s # source' => stream'[s] = at[s]
<1>1. source' \in Sources /\ at[source'] = "closed"
  <2>1. PICK s \in Sources : at[s] = "closed" BY DEF OpenFrom
  <2> QED BY <2>1, Zenon DEF OpenFrom
<1>2. stream' = [at EXCEPT ![source'] = "connecting"] BY DEF OpenFrom
<1> QED BY <1>1, <1>2

\* The first state has one stream and no timer.
LEMMA StreamStarts == StreamInit => StreamInv
<1> SUFFICES ASSUME StreamInit PROVE StreamInv OBVIOUS
<1>1. source \in Sources
  <2>1. PICK s \in Sources : TRUE BY StreamAssumption
  <2> QED BY <2>1, Zenon DEF StreamInit
<1>2. source # None BY <1>1, StreamAssumption
<1>3. stream \in [Sources -> {"closed", "connecting", "open"}]
  BY DEF StreamInit
<1>4. \A s \in Sources : stream[s] = IF s = source THEN "connecting" ELSE "closed"
  BY DEF StreamInit
<1>5. /\ mounted = TRUE /\ visible = TRUE /\ hides = 0
      /\ timers = 0 /\ timerRef = FALSE /\ failures = 0
      /\ connected = FALSE /\ probe = FALSE /\ session = TRUE /\ prompted = FALSE
  BY DEF StreamInit
<1>6. hides \in 0 .. MaxHides /\ failures \in 0 .. FailCap /\ timers \in Nat
  BY <1>5, StreamAssumption DEF ProbeAfter, FailCap
<1>7. StreamTypeOK BY <1>1, <1>3, <1>5, <1>6 DEF StreamTypeOK
<1>8. OneDriver BY <1>1, <1>2, <1>4, <1>5 DEF OneDriver, Live
<1> QED BY <1>5, <1>7, <1>8 DEF StreamInv

\* Closing what the variable points at closes everything.
LEMMA ClosedIsAll ==
  ASSUME StreamInv
  PROVE  /\ Closed \in [Sources -> {"closed", "connecting", "open"}]
         /\ \A s \in Sources : Closed[s] = "closed"
BY DEF StreamInv, StreamTypeOK, OneDriver, Live, Closed

\* A step of the stream keeps one stream or one timer.
LEMMA StreamStep == StreamInv /\ StreamNext => StreamInv'
<1> SUFFICES ASSUME StreamInv, StreamNext PROVE StreamInv' OBVIOUS
<1> USE StreamAssumption DEF StreamInv, StreamTypeOK, OneDriver, Live, ProbeAfter, FailCap
<1>1. ASSUME NEW s \in Sources, StreamOpens(s) PROVE StreamInv'
  BY <1>1 DEF StreamOpens
<1>2. ASSUME NEW s \in Sources, StreamFails(s) PROVE StreamInv'
  <2>1. \A x \in Sources : Closed[x] = "closed" BY ClosedIsAll
  <2>2. Closed \in [Sources -> {"closed", "connecting", "open"}] BY ClosedIsAll
  <2>3. s = source /\ timers = 0 /\ mounted BY <1>2 DEF StreamFails
  <2>4. stream' = Closed /\ source' = None BY <1>2 DEF StreamFails
  <2> HIDE DEF Closed
  <2>5. \A x \in Sources : stream'[x] = "closed" BY <2>1, <2>4
  <2>6. timers' = 1 /\ timerRef' = TRUE BY <1>2, <2>3 DEF StreamFails
  <2>7. failures' \in 0 .. FailCap
    <3> HIDE DEF OneDriver, Live
    <3> QED BY <1>2 DEF StreamFails
  <2>8. probe' \in BOOLEAN BY <1>2 DEF StreamFails
  <2>9. /\ connected' = FALSE
        /\ UNCHANGED <<mounted, visible, hides, session, prompted>>
    BY <1>2 DEF StreamFails
  <2>10. StreamTypeOK' BY <2>2, <2>4, <2>6, <2>7, <2>8, <2>9
  <2> QED BY <2>3, <2>4, <2>5, <2>6, <2>9, <2>10
<1>3. ASSUME Reconnect PROVE StreamInv'
  <2>1. mounted /\ source = None /\ timers = 1 BY <1>3 DEF Reconnect
  <2>2. \A s \in Sources : stream[s] = "closed" BY <2>1
  <2> QED BY <1>3, <2>1, <2>2, OpenTakesClosed DEF Reconnect
<1>4. CASE ProbeAnswered \/ ProbeLost \/ Hide \/ Expire
  <2>1. UNCHANGED <<mounted, stream, source, timers, timerRef, failures, connected>>
    BY <1>4 DEF ProbeAnswered, ProbeLost, Hide, Expire
  <2>2. /\ visible' \in BOOLEAN /\ probe' \in BOOLEAN
        /\ session' \in BOOLEAN /\ prompted' \in BOOLEAN
    BY <1>4, Zenon DEF ProbeAnswered, ProbeLost, Hide, Expire
  <2>3. hides' \in 0 .. MaxHides BY <1>4 DEF ProbeAnswered, ProbeLost, Hide, Expire
  <2> QED BY <2>1, <2>2, <2>3
<1>5. ASSUME Show PROVE StreamInv'
  <2>1. CASE ~mounted BY <1>5, <2>1 DEF Show
  <2>2. CASE mounted
    <3>1. \A s \in Sources : Closed[s] = "closed" BY ClosedIsAll
    <3>2. Closed \in [Sources -> {"closed", "connecting", "open"}] BY ClosedIsAll
    <3>3. ReconnectNow /\ visible' = TRUE /\ UNCHANGED <<mounted, hides, session, prompted>>
      BY <1>5, <2>2 DEF Show
    <3>4. OpenFrom(Closed) BY <3>3 DEF ReconnectNow
    <3> HIDE DEF Closed
    <3>5. /\ source' \in Sources /\ stream' \in [Sources -> {"closed", "connecting", "open"}]
          /\ \A s \in Sources : Live(s)' <=> s = source'
      BY <3>1, <3>2, <3>4, OpenTakesClosed
    <3>6. timers' = 0 /\ timerRef' = FALSE /\ failures' = 0 /\ UNCHANGED <<connected, probe>>
      BY <3>3 DEF ReconnectNow
    <3>7. StreamTypeOK'
      <4>1. hides' \in 0 .. MaxHides /\ failures' \in 0 .. FailCap /\ timers' \in Nat
        BY <3>3, <3>6
      <4>2. /\ mounted' \in BOOLEAN /\ visible' \in BOOLEAN /\ timerRef' \in BOOLEAN
            /\ connected' \in BOOLEAN /\ probe' \in BOOLEAN
            /\ session' \in BOOLEAN /\ prompted' \in BOOLEAN
        BY <3>3, <3>6
      <4> QED BY <3>5, <4>1, <4>2
    <3>8. mounted' /\ source' # None BY <2>2, <3>3, <3>5
    <3>9. timers' = IF mounted' /\ source' = None THEN 1 ELSE 0 BY <3>6, <3>8
    <3> QED BY <3>5, <3>6, <3>7, <3>8, <3>9
  <2> QED BY <2>1, <2>2
<1>6. ASSUME Unmount PROVE StreamInv'
  <2>1. \A x \in Sources : Closed[x] = "closed" BY ClosedIsAll
  <2>2. Closed \in [Sources -> {"closed", "connecting", "open"}] BY ClosedIsAll
  <2>3. mounted /\ mounted' = FALSE /\ stream' = Closed /\ source' = None BY <1>6 DEF Unmount
  <2> HIDE DEF Closed
  <2>4. \A x \in Sources : stream'[x] = "closed" BY <2>1, <2>3
  <2>5. timers' = 0 /\ timerRef' = FALSE
    <3>1. timers \in {0, 1} /\ (timers > 0 => timerRef) BY <2>3
    <3> QED BY <1>6, <3>1 DEF Unmount
  <2>6. /\ connected' = FALSE /\ probe' = FALSE /\ failures' = 0
        /\ UNCHANGED <<visible, hides, session, prompted>>
    BY <1>6 DEF Unmount
  <2>7. StreamTypeOK'
    <3>1. hides' \in 0 .. MaxHides /\ failures' \in 0 .. FailCap /\ timers' \in Nat
      BY <2>5, <2>6
    <3>2. /\ mounted' \in BOOLEAN /\ visible' \in BOOLEAN /\ timerRef' \in BOOLEAN
          /\ connected' \in BOOLEAN /\ probe' \in BOOLEAN
          /\ session' \in BOOLEAN /\ prompted' \in BOOLEAN
      BY <2>3, <2>5, <2>6
    <3> QED BY <2>2, <2>3, <3>1, <3>2
  <2> QED BY <2>3, <2>4, <2>5, <2>7
<1>7. ASSUME NEW signedIn \in BOOLEAN, Mount(signedIn) PROVE StreamInv'
  <2>1. \A s \in Sources : stream[s] = "closed" BY <1>7 DEF Mount
  <2>2. OpenFrom(stream) BY <1>7 DEF Mount
  <2>3. timers = 0 BY <1>7 DEF Mount
  <2>4. session' \in BOOLEAN /\ prompted' \in BOOLEAN BY <1>7 DEF Mount
  <2> QED BY <1>7, <2>1, <2>2, <2>3, <2>4, OpenTakesClosed DEF Mount
<1> QED BY <1>1, <1>2, <1>3, <1>4, <1>5, <1>6, <1>7 DEF StreamNext

\* What the pages add leaves the stream alone, but for the prompt that a refused
\* request raises.
LEMMA PagesStep ==
  ASSUME [Next]_vars
  PROVE  \/ StreamNext
         \/ UNCHANGED streamVars
         \/ /\ UNCHANGED <<mounted, visible, hides, stream, source, timers, timerRef,
                           failures, connected, probe, session>>
            /\ prompted' \in {TRUE, prompted \/ mounted}
<1> USE DEF StreamNext
<1>1. CASE UNCHANGED vars BY <1>1 DEF vars
<1>2. ASSUME NEW e \in Events, Change(e) \/ Deliver(e) PROVE UNCHANGED streamVars
  BY <1>2 DEF Change, Deliver
<1>3. ASSUME NEW k \in Keys, Refresh(k) \/ Poll(k) \/ FetchFails(k) \/ Land(k)
      PROVE  UNCHANGED streamVars
  BY <1>3 DEF Refresh, Poll, FetchFails, Land
<1>4. ASSUME NEW k \in Keys, Answer(k)
      PROVE  \/ UNCHANGED streamVars
             \/ /\ UNCHANGED <<mounted, visible, hides, stream, source, timers, timerRef,
                               failures, connected, probe, session>>
                /\ prompted' \in {TRUE, prompted \/ mounted}
  BY <1>4 DEF Answer
<1>5. CASE StreamBreaks \/ StreamRuns BY <1>5 DEF StreamBreaks, StreamRuns
<1>6. CASE ComeBack \/ Leave BY <1>6 DEF ComeBack, Leave
<1>7. ASSUME NEW signedIn \in BOOLEAN, Return(signedIn) PROVE StreamNext
  BY <1>7 DEF Return
<1> QED BY <1>1, <1>2, <1>3, <1>4, <1>5, <1>6, <1>7 DEF Next

\* The stream's invariant holds of the pages too.
THEOREM StreamInvariance == Spec => []StreamInv
<1>1. Init => StreamInv BY StreamStarts DEF Init
<1>2. StreamInv /\ [Next]_vars => StreamInv'
  <2> SUFFICES ASSUME StreamInv, [Next]_vars PROVE StreamInv' OBVIOUS
  <2>1. CASE StreamNext BY <2>1, StreamStep
  <2>2. CASE UNCHANGED streamVars
    BY <2>2 DEF streamVars, StreamInv, StreamTypeOK, OneDriver, Live
  <2>3. CASE /\ UNCHANGED <<mounted, visible, hides, stream, source, timers, timerRef,
                            failures, connected, probe, session>>
             /\ prompted' \in {TRUE, prompted \/ mounted}
    <3>1. prompted' \in BOOLEAN BY <2>3 DEF StreamInv, StreamTypeOK
    <3> QED BY <2>3, <3>1 DEF StreamInv, StreamTypeOK, OneDriver, Live
  <2> QED BY <2>1, <2>2, <2>3, PagesStep
<1> QED BY <1>1, <1>2, PTL DEF Spec

\* A mounted layout is driven by one EventSource or one timer, and one that is
\* not mounted by nothing, however often the tab is hidden and shown, the stream
\* fails and the layout comes and goes (useServerEvents).
THEOREM LayoutHasOneDriver == Spec => []OneDriver
<1>1. StreamInv => OneDriver BY DEF StreamInv
<1> QED BY <1>1, StreamInvariance, PTL

-----------------------------------------------------------------------------
(* The cache.                                                              *)

CacheTypeOK ==
  /\ data \in [Keys -> Versions]
  /\ wire \subseteq Events
  /\ due \subseteq Keys
  /\ req \in [Keys -> Versions \cup {Idle, Asked}]
  /\ cache \in [Keys -> Versions \cup {NoData}]
  /\ lost \in [Keys -> BOOLEAN]

\* A change of k is on its way to the page, or known to be missed.
Announced(k) == lost[k] \/ k \in due \cup Touched(wire)

\* What makes StaleHasCause inductive: an answer that is older than the server's
\* data has been overtaken by a change that is announced, also for a query that
\* shows nothing yet; and only a mounted layout has events or debounce timers.
CacheInv ==
  /\ CacheTypeOK
  /\ (wire # {} \/ due # {}) => mounted
  /\ \A k \in Keys : req[k] \in Versions /\ req[k] # data[k] => Announced(k)
  /\ StaleHasCause

\* The queries the events of a set would refresh.
LEMMA TouchedMembers ==
  ASSUME NEW W \in SUBSET Events, NEW k \in Keys
  PROVE  k \in Touched(W) <=> \E e \in W : k \in Touches[e]
BY DEF Touched

\* Nothing asked, no event: a first load is under way for every query.
LEMMA CacheStarts == Init => CacheInv
<1> SUFFICES ASSUME Init PROVE CacheInv OBVIOUS
<1>1. CacheTypeOK
  <2>1. 0 \in Versions BY LiveAssumption DEF Versions
  <2> QED BY <2>1 DEF Init, CacheTypeOK
<1>2. \A k \in Keys : req[k] \notin Versions /\ cache[k] = NoData
  BY DEF Init, Versions, Asked
<1> QED BY <1>1, <1>2 DEF Init, CacheInv, StaleHasCause

\* A step that changes nothing but the stream, and leaves the layout mounted or not.
LEMMA CacheStutters ==
  ASSUME CacheInv, UNCHANGED <<cacheVars, mounted>>
  PROVE  CacheInv'
BY DEF CacheInv, CacheTypeOK, cacheVars, Announced, StaleHasCause

\* A change on the server is on the wire or missed.
LEMMA ChangeKeepsCache ==
  ASSUME CacheInv, StreamInv, NEW e \in Events, Change(e)
  PROVE  CacheInv'
<1>1. Touches[e] \subseteq Keys BY LiveAssumption
<1>2. data' \in [Keys -> Versions]
  <2>1. ASSUME NEW k \in Keys PROVE data'[k] \in Versions
    BY <2>1, LiveAssumption DEF Change, CacheInv, CacheTypeOK, Versions
  <2> QED BY <2>1 DEF Change
<1>3. UNCHANGED <<due, req, cache, mounted>> BY DEF Change, streamVars
<1>4. /\ wire' \subseteq Events /\ wire \subseteq wire' /\ lost' \in [Keys -> BOOLEAN]
      /\ (wire' # wire => Up)
      /\ \A k \in Keys : lost[k] => lost'[k]
      /\ \A k \in Touches[e] : lost'[k] \/ e \in wire'
  BY <1>1 DEF Change, Miss, CacheInv, CacheTypeOK
<1>5. Up => mounted BY StreamAssumption DEF Up, StreamInv, OneDriver, Live
<1>6. ASSUME NEW k \in Keys, Announced(k) \/ k \in Touches[e] PROVE Announced(k)'
  <2>1. CASE k \in Touches[e]
    BY <2>1, <1>4, TouchedMembers DEF Announced, Touched
  <2>2. CASE Announced(k)
    BY <2>2, <1>3, <1>4, TouchedMembers DEF Announced, Touched
  <2> QED BY <1>6, <2>1, <2>2
<1>7. \A k \in Keys : k \notin Touches[e] => data'[k] = data[k]
  BY DEF Change
<1>8. \A k \in Keys : req'[k] \in Versions /\ req'[k] # data'[k] => Announced(k)'
  BY <1>3, <1>6, <1>7 DEF CacheInv
<1>9. StaleHasCause'
  <2> SUFFICES ASSUME NEW k \in Keys, cache'[k] \notin {NoData, data'[k]}
               PROVE  Announced(k)' \/ req'[k] \in {Asked, data'[k]}
    BY DEF StaleHasCause, Announced
  <2>1. CASE k \in Touches[e] BY <2>1, <1>6
  <2>2. CASE k \notin Touches[e]
    <3>1. Announced(k) \/ req[k] \in {Asked, data[k]}
      BY <2>2, <1>3, <1>7 DEF CacheInv, StaleHasCause, Announced
    <3> QED BY <3>1, <2>2, <1>3, <1>6, <1>7
  <2> QED BY <2>1, <2>2
<1> QED BY <1>2, <1>3, <1>4, <1>5, <1>8, <1>9 DEF CacheInv, CacheTypeOK

\* Delivering an event moves its queries from the wire to the debounce timers.
LEMMA DeliverKeepsCache ==
  ASSUME CacheInv, NEW e \in Events, Deliver(e)
  PROVE  CacheInv'
<1>1. UNCHANGED <<mounted, data, req, cache, lost>> BY DEF Deliver, streamVars
<1>2. wire' = wire \ {e} /\ due' = due \cup Touches[e] /\ e \in wire BY DEF Deliver
<1>3. Touches[e] \subseteq Keys BY LiveAssumption
<1>4. ASSUME NEW k \in Keys, Announced(k) PROVE Announced(k)'
  BY <1>1, <1>2, <1>4, TouchedMembers DEF Announced, Touched
<1> QED BY <1>1, <1>2, <1>3, <1>4 DEF CacheInv, CacheTypeOK, StaleHasCause, Announced

\* A step that leaves the server, the wire and the debounce timers alone, and the
\* cache of every query but k, or of all.
LEMMA FetchKeepsCache ==
  ASSUME CacheInv, CacheTypeOK', UNCHANGED <<mounted, data, wire>>, due' \subseteq due,
         \A k \in Keys :
            \/ req'[k] = Asked /\ cache'[k] = cache[k]
            \/ cache'[k] = NoData /\ (lost'[k] \/ req'[k] \notin Versions)
            \/ /\ (k \in due => k \in due') /\ (lost[k] => lost'[k])
               /\ \/ req'[k] = req[k] /\ cache'[k] = cache[k]
                  \/ req'[k] = data[k] /\ cache'[k] = cache[k]
                  \/ req'[k] = Idle /\ cache'[k] = cache[k] /\ lost'[k]
                  \/ req'[k] = Idle /\ cache'[k] = req[k] /\ req[k] \in Versions
  PROVE  CacheInv'
<1>1. Idle \notin Versions /\ Asked \notin Versions BY DEF Idle, Asked, Versions
<1>2. ASSUME NEW k \in Keys, Announced(k), k \in due => k \in due', lost[k] => lost'[k]
      PROVE  Announced(k)'
  BY <1>2 DEF Announced
<1>3. ASSUME NEW k \in Keys, req'[k] \in Versions, req'[k] # data'[k] PROVE Announced(k)'
  BY <1>1, <1>2, <1>3 DEF CacheInv, Announced
<1>4. StaleHasCause'
  <2> SUFFICES ASSUME NEW k \in Keys, cache'[k] \notin {NoData, data'[k]}
               PROVE  Announced(k)' \/ req'[k] \in {Asked, data'[k]}
    BY DEF StaleHasCause, Announced
  <2>1. CASE req'[k] \in {Asked, data'[k]} BY <2>1
  <2>2. CASE lost'[k] BY <2>2 DEF Announced
  <2>3. CASE /\ k \in due => k \in due' /\ (lost[k] => lost'[k])
             /\ req'[k] = req[k] /\ cache'[k] = cache[k]
    BY <2>3, <1>2 DEF CacheInv, StaleHasCause, Announced
  <2>4. CASE /\ k \in due => k \in due' /\ (lost[k] => lost'[k])
             /\ cache'[k] = req[k] /\ req[k] \in Versions
    BY <2>4, <1>2 DEF CacheInv
  <2> QED BY <2>1, <2>2, <2>3, <2>4
<1> QED BY <1>3, <1>4 DEF CacheInv

\* A step that may drop what the wire or the timers had, as long as it is known to
\* be missed, and that may ask.
LEMMA LossKeepsCache ==
  ASSUME CacheInv, CacheTypeOK', UNCHANGED <<data, cache>>,
         (wire' # {} \/ due' # {}) => mounted',
         \A k \in Keys :
            \/ req'[k] = Asked
            \/ req'[k] = req[k] /\ (Announced(k) => Announced(k)')
            \/ req'[k] = req[k] /\ cache[k] = NoData /\ (lost'[k] \/ req[k] \notin Versions)
  PROVE  CacheInv'
<1>1. Asked \notin Versions BY DEF Asked, Versions
<1>2. ASSUME NEW k \in Keys, req'[k] \in Versions, req'[k] # data'[k] PROVE Announced(k)'
  BY <1>1, <1>2 DEF CacheInv, Announced
<1>3. StaleHasCause'
  <2> SUFFICES ASSUME NEW k \in Keys, cache'[k] \notin {NoData, data'[k]}
               PROVE  Announced(k)' \/ req'[k] \in {Asked, data'[k]}
    BY DEF StaleHasCause, Announced
  <2> QED BY DEF CacheInv, StaleHasCause, Announced
<1> QED BY <1>2, <1>3 DEF CacheInv

\* What Ask and Invalidate leave of the requests and losses has its type.
LEMMA AskTypes ==
  ASSUME CacheTypeOK, NEW K, NEW missed,
         Ask(K) \/ Invalidate(K, missed)
  PROVE  /\ req' \in [Keys -> Versions \cup {Idle, Asked}]
         /\ lost' \in [Keys -> BOOLEAN]
<1>1. CASE Ask(K) BY <1>1 DEF Ask, CacheTypeOK
<1>2. CASE Invalidate(K, missed) BY <1>2 DEF Invalidate, CacheTypeOK
<1> QED BY <1>1, <1>2

\* Every step of the pages keeps the invariant.
LEMMA CacheStep == CacheInv /\ StreamInv /\ [Next]_vars => CacheInv'
<1> SUFFICES ASSUME CacheInv, StreamInv, [Next]_vars PROVE CacheInv' OBVIOUS
<1> USE DEF CacheTypeOK
<1>t. CacheTypeOK BY DEF CacheInv
<1>1. CASE UNCHANGED vars BY <1>1, CacheStutters DEF vars, streamVars
<1>2. ASSUME NEW e \in Events, Change(e) \/ Deliver(e) PROVE CacheInv'
  BY <1>2, ChangeKeepsCache, DeliverKeepsCache
<1>3. ASSUME NEW k \in Keys, Refresh(k) PROVE CacheInv'
  <2>1. /\ UNCHANGED <<mounted, data, wire, cache>> /\ due' = due \ {k}
        /\ Invalidate({k}, {})
    BY <1>3 DEF Refresh, streamVars
  <2>2. CacheTypeOK' BY <1>t, <2>1, AskTypes
  <2>3. \A j \in Keys : IF j = k /\ ~Absorbed(j) THEN req'[j] = Asked ELSE req'[j] = req[j]
    BY <2>1 DEF Invalidate
  <2>4. \A j \in Keys : IF j = k THEN Absorbed(j) /\ req[j] # Asked => lost'[j]
                                 ELSE lost[j] => lost'[j]
    BY <2>1 DEF Invalidate
  <2>5. Asked \notin Versions BY DEF Asked, Versions
  <2> QED BY <2>1, <2>2, <2>3, <2>4, <2>5, FetchKeepsCache DEF Absorbed
<1>4. ASSUME NEW k \in Keys, Poll(k) PROVE CacheInv'
  <2>1. UNCHANGED <<mounted, data, wire, due, cache>> /\ Ask({k})
    BY <1>4 DEF Poll, streamVars
  <2>2. CacheTypeOK' BY <1>t, <2>1, AskTypes
  <2>3. \A j \in Keys : (j \in {k} => req'[j] = Asked) /\ (j \notin {k} => req'[j] = req[j])
    BY <2>1 DEF Ask
  <2>4. \A j \in Keys : j \notin {k} /\ lost[j] => lost'[j]
    <3>1. lost' = [j \in Keys |-> lost[j] /\ j \notin {k}] BY <2>1 DEF Ask
    <3> QED BY ONLY <3>1, Zenon
  <2>5. \A j \in Keys : req'[j] = Asked \/ (req'[j] = req[j] /\ (lost[j] => lost'[j]))
    <3> TAKE j \in Keys
    <3>1. CASE j \in {k} BY <2>3, <3>1
    <3>2. CASE j \notin {k}
      <4>1. req'[j] = req[j] BY <2>3, <3>2
      <4>2. lost[j] => lost'[j] BY <2>4, <3>2
      <4> QED BY <4>1, <4>2
    <3> QED BY <3>1, <3>2
  <2> QED BY <2>1, <2>2, <2>5, FetchKeepsCache
<1>5. ASSUME NEW k \in Keys, Answer(k) PROVE CacheInv'
  <2>1. UNCHANGED <<mounted, data, wire, due, cache>> BY <1>5 DEF Answer, streamVars
  <2>2. CASE session
    <3>1. req' = [req EXCEPT ![k] = data[k]] /\ lost' = lost BY <1>5, <2>2 DEF Answer
    <3>2. CacheTypeOK' BY <1>t, <2>1, <3>1
    <3> QED BY <1>t, <2>1, <3>1, <3>2, FetchKeepsCache
  <2>3. CASE ~session
    <3>1. req' = [req EXCEPT ![k] = Idle] /\ Miss({k}) BY <1>5, <2>3 DEF Answer
    <3>2. CacheTypeOK' BY <1>t, <2>1, <3>1 DEF Miss
    <3> QED BY <1>t, <2>1, <3>1, <3>2, FetchKeepsCache DEF Miss
  <2> QED BY <2>2, <2>3
<1>6. ASSUME NEW k \in Keys, FetchFails(k) PROVE CacheInv'
  <2>1. /\ UNCHANGED <<mounted, data, wire, due, cache>>
        /\ req' = [req EXCEPT ![k] = Idle] /\ Miss({k})
    BY <1>6 DEF FetchFails, streamVars
  <2>2. CacheTypeOK' BY <1>t, <2>1 DEF Miss
  <2> QED BY <1>t, <2>1, <2>2, FetchKeepsCache DEF Miss
<1>7. ASSUME NEW k \in Keys, Land(k) PROVE CacheInv'
  <2>1. /\ UNCHANGED <<mounted, data, wire, due, lost>> /\ req[k] \in Versions
        /\ req' = [req EXCEPT ![k] = Idle] /\ cache' = [cache EXCEPT ![k] = req[k]]
    BY <1>7 DEF Land, streamVars
  <2>2. CacheTypeOK' BY <1>t, <2>1
  <2> QED BY <1>t, <2>1, <2>2, FetchKeepsCache
<1>8. ASSUME StreamBreaks PROVE CacheInv'
  <2>1. UNCHANGED <<mounted, data, due, req, cache>> /\ wire' = {} /\ Miss(Touched(wire))
    BY <1>8 DEF StreamBreaks, StreamFails, DropWire
  <2>2. CacheTypeOK' BY <1>t, <2>1 DEF Miss
  <2>3. \A k \in Keys : Announced(k) => Announced(k)' BY <2>1 DEF Announced, Miss
  <2> QED BY <2>1, <2>2, <2>3, LossKeepsCache DEF CacheInv
<1>9. ASSUME StreamRuns PROVE CacheInv'
  <2>1. UNCHANGED <<cacheVars, mounted>>
    BY <1>9 DEF StreamRuns, StreamOpens, Reconnect, ProbeAnswered, ProbeLost, Hide, Expire
  <2> QED BY <2>1, CacheStutters
<1>10. ASSUME ComeBack PROVE CacheInv'
  <2>1. UNCHANGED <<mounted, data, due, cache>> /\ wire' = {}
    BY <1>10 DEF ComeBack, Show
  <2>2. CASE mounted
    <3>1. Invalidate(Refreshed, Touched(wire)) BY <1>10, <2>2 DEF ComeBack
    <3>2. CacheTypeOK' BY <1>t, <2>1, <3>1, AskTypes
    <3>3. \A k \in Keys : IF k \in Refreshed /\ ~Absorbed(k) THEN req'[k] = Asked
                                                        ELSE req'[k] = req[k]
      BY <3>1 DEF Invalidate
    <3>4. \A k \in Keys : IF k \in Refreshed
                          THEN Absorbed(k) /\ req[k] # Asked => lost'[k]
                          ELSE lost[k] \/ k \in Touched(wire) => lost'[k]
      BY <3>1 DEF Invalidate
    <3>5. \A k \in Keys : k \notin Refreshed /\ Announced(k) => Announced(k)'
      BY <2>1, <3>4 DEF Announced
    <3>6. Asked \notin Versions BY DEF Asked, Versions
    <3> QED BY <2>1, <2>2, <3>2, <3>3, <3>4, <3>5, <3>6, LossKeepsCache DEF Absorbed
  <2>3. CASE ~mounted
    <3>1. UNCHANGED <<req, lost>> BY <1>10, <2>3 DEF ComeBack
    <3>2. wire = {} BY <2>3 DEF CacheInv
    <3> QED BY <2>1, <3>1, <3>2, CacheStutters DEF cacheVars
  <2> QED BY <2>2, <2>3
<1>11. ASSUME Leave PROVE CacheInv'
  <2>1. UNCHANGED <<data, req, cache>> /\ wire' = {} /\ due' = {}
        /\ Miss(due \cup Touched(wire))
    BY <1>11 DEF Leave
  <2>2. CacheTypeOK' BY <1>t, <2>1 DEF Miss
  <2>3. \A k \in Keys : Announced(k) => Announced(k)' BY <2>1 DEF Announced, Miss
  <2> QED BY <2>1, <2>2, <2>3, LossKeepsCache
<1>12. ASSUME NEW signedIn \in BOOLEAN, Return(signedIn) PROVE CacheInv'
  <2>1. UNCHANGED <<data, wire, due, cache>> /\ mounted' = TRUE BY <1>12 DEF Return, Mount
  <2>2. PICK K : Ask(K) BY <1>12 DEF Return
  <2>3. CacheTypeOK' BY <1>t, <2>1, <2>2, AskTypes
  <2>6. \A k \in Keys : (k \in K => req'[k] = Asked) /\ (k \notin K => req'[k] = req[k])
    BY <2>2 DEF Ask
  <2>7. \A k \in Keys : k \notin K /\ lost[k] => lost'[k]
    <3>1. lost' = [k \in Keys |-> lost[k] /\ k \notin K] BY <2>2 DEF Ask
    <3> QED BY ONLY <3>1, Zenon
  <2>4. \A k \in Keys : req'[k] = Asked \/ (req'[k] = req[k] /\ (lost[k] => lost'[k]))
    <3> TAKE k \in Keys
    <3>1. CASE k \in K BY <2>6, <3>1
    <3>2. CASE k \notin K
      <4>1. req'[k] = req[k] BY <2>6, <3>2
      <4>2. lost[k] => lost'[k] BY <2>7, <3>2
      <4> QED BY <4>1, <4>2
    <3> QED BY <3>1, <3>2
  <2>5. \A k \in Keys : req'[k] # Asked /\ Announced(k) => Announced(k)'
    BY <2>1, <2>4 DEF Announced
  <2> QED BY <2>1, <2>3, <2>4, <2>5, LossKeepsCache
<1> QED BY <1>1, <1>2, <1>3, <1>4, <1>5, <1>6, <1>7, <1>8, <1>9, <1>10, <1>11, <1>12 DEF Next

\* The invariant of the cache, over every interleaving of changes, events, polls,
\* requests, hidden tabs and layouts that come and go.
THEOREM CacheInvariance == Spec => []CacheInv
<1>1. Spec => []StreamInv BY StreamInvariance
<1> QED BY <1>1, CacheStarts, CacheStep, PTL DEF Spec

\* No event that reaches the tab is forgotten: a screen with old data has a refresh
\* under way or announced, or a loss that is known (EVENT_QUERY_KEYS,
\* scheduleInvalidate).
THEOREM StaleScreensHaveCause == Spec => []StaleHasCause
<1>1. CacheInv => StaleHasCause BY DEF CacheInv
<1> QED BY <1>1, CacheInvariance, PTL

\* The variables of the pages and the stream keep their types.
THEOREM LiveTypes == Spec => []TypeOK
<1>1. CacheInv /\ StreamInv => TypeOK BY DEF CacheInv, CacheTypeOK, StreamInv, TypeOK
<1> QED BY <1>1, CacheInvariance, StreamInvariance, PTL
-----------------------------------------------------------------------------
(* The order of the answers.                                               *)

\* A screen never goes back to older data, and never shows what the server does
\* not have: a request that is replaced or fails cannot land after a later one,
\* whatever polls, events, sign-ins and returns ask in between (TanStack Query as
\* useServerEvents and the pages use it).
ScreensMoveOn == [][\A k \in Keys : cache[k] <= cache'[k] /\ cache'[k] <= data'[k]]_vars

\* What makes it inductive: an answer under way is no older than the screen.
OrderInv ==
  \A k \in Keys :
    /\ cache[k] <= data[k]
    /\ req[k] \in Versions => cache[k] <= req[k] /\ req[k] <= data[k]

\* What a step does to a query: it asks, forgets, is answered or lands.
QueryStep(k) ==
  /\ data[k] <= data'[k]
  /\ \/ cache'[k] = cache[k] /\ req'[k] \in {req[k], Idle, Asked}
     \/ cache'[k] = cache[k] /\ req'[k] = data'[k]
     \/ cache'[k] = req[k] /\ req[k] \in Versions /\ req'[k] = Idle

\* Every step of the pages is one of these for every query.
LEMMA StepOfQueries ==
  ASSUME CacheTypeOK, [Next]_vars
  PROVE  \A k \in Keys : QueryStep(k)
<1> SUFFICES ASSUME NEW k \in Keys PROVE QueryStep(k) OBVIOUS
<1>t. data[k] \in Int BY DEF CacheTypeOK, Versions
<1>r. req \in [Keys -> Versions \cup {Idle, Asked}] BY DEF CacheTypeOK
<1>s. UNCHANGED <<data, req, cache>> => QueryStep(k) BY <1>t DEF QueryStep
<1>q. ASSUME UNCHANGED <<data, cache>>, req'[k] \in {req[k], Idle, Asked, data[k]}
      PROVE  QueryStep(k)
  BY <1>t, <1>q DEF QueryStep
<1>1. CASE UNCHANGED vars BY <1>1, <1>s DEF vars, cacheVars
<1>2. ASSUME NEW e \in Events, Change(e) PROVE QueryStep(k)
  <2>1. data'[k] = IF k \in Touches[e] THEN data[k] + 1 ELSE data[k] BY <1>2 DEF Change
  <2>2. UNCHANGED <<req, cache>> BY <1>2 DEF Change
  <2>3. data[k] <= data'[k] BY <1>t, <2>1
  <2> QED BY <2>2, <2>3 DEF QueryStep
<1>3. ASSUME NEW e \in Events, Deliver(e) PROVE QueryStep(k) BY <1>3, <1>s DEF Deliver
<1>4. ASSUME NEW j \in Keys, Refresh(j) PROVE QueryStep(k)
  BY <1>4, <1>q DEF Refresh, Invalidate
<1>5. ASSUME NEW j \in Keys, Poll(j) PROVE QueryStep(k) BY <1>5, <1>q DEF Poll, Ask
<1>6. ASSUME NEW j \in Keys, Answer(j) PROVE QueryStep(k)
  <2>1. UNCHANGED <<data, cache>> BY <1>6 DEF Answer
  <2>2. req' = [req EXCEPT ![j] = data[j]] \/ req' = [req EXCEPT ![j] = Idle]
    BY <1>6 DEF Answer
  <2>3. req'[k] \in {req[k], Idle, data[k]} BY <1>r, <2>2
  <2> QED BY <2>1, <2>3, <1>q
<1>7. ASSUME NEW j \in Keys, FetchFails(j) PROVE QueryStep(k)
  <2>1. req'[k] \in {req[k], Idle} BY <1>7, <1>r DEF FetchFails
  <2> QED BY <1>7, <2>1, <1>q DEF FetchFails
<1>8. ASSUME NEW j \in Keys, Land(j) PROVE QueryStep(k)
  <2>1. /\ cache' = [cache EXCEPT ![j] = req[j]] /\ req' = [req EXCEPT ![j] = Idle]
        /\ req[j] \in Versions /\ data' = data
    BY <1>8 DEF Land
  <2>2. CASE j = k
    <3>1. cache'[k] = req[k] /\ req'[k] = Idle BY <1>r, <2>1, <2>2 DEF CacheTypeOK
    <3> QED BY <1>t, <2>1, <2>2, <3>1 DEF QueryStep
  <2>3. CASE j # k
    <3>1. cache'[k] = cache[k] /\ req'[k] = req[k] BY <1>r, <2>1, <2>3 DEF CacheTypeOK
    <3> QED BY <1>t, <2>1, <3>1 DEF QueryStep
  <2> QED BY <2>2, <2>3
<1>9. CASE StreamBreaks \/ StreamRuns BY <1>9, <1>s DEF StreamBreaks, StreamRuns, cacheVars
<1>10. CASE ComeBack BY <1>10, <1>q DEF ComeBack, Invalidate
<1>11. CASE Leave BY <1>11, <1>s DEF Leave
<1>12. ASSUME NEW signedIn \in BOOLEAN, Return(signedIn) PROVE QueryStep(k)
  <2>1. UNCHANGED <<data, cache>> BY <1>12 DEF Return
  <2>2. PICK K : Ask(K) BY <1>12 DEF Return
  <2>3. req'[k] \in {req[k], Asked} BY <2>2 DEF Ask
  <2> QED BY <2>1, <2>3, <1>q
<1> QED BY <1>1, <1>2, <1>3, <1>4, <1>5, <1>6, <1>7, <1>8, <1>9, <1>10, <1>11, <1>12 DEF Next

LEMMA OrderStep ==
  ASSUME CacheTypeOK, CacheTypeOK', OrderInv, [Next]_vars
  PROVE  OrderInv' /\ \A k \in Keys : cache[k] <= cache'[k] /\ cache'[k] <= data'[k]
<1> SUFFICES ASSUME NEW k \in Keys
             PROVE  /\ cache'[k] <= data'[k] /\ cache[k] <= cache'[k]
                    /\ req'[k] \in Versions => cache'[k] <= req'[k] /\ req'[k] <= data'[k]
  BY DEF OrderInv
<1>1. QueryStep(k) BY StepOfQueries
<1>2. /\ data[k] \in Int /\ data'[k] \in Int /\ cache[k] \in Int /\ cache'[k] \in Int
      /\ req[k] \in Int
  BY DEF CacheTypeOK, Versions, NoData, Idle, Asked
<1>3. Idle \notin Versions /\ Asked \notin Versions BY DEF Idle, Asked, Versions
<1>4. /\ cache[k] <= data[k]
      /\ req[k] \in Versions => cache[k] <= req[k] /\ req[k] <= data[k]
  BY DEF OrderInv
<1> QED BY <1>1, <1>2, <1>3, <1>4 DEF QueryStep

\* Answers reach the screen in the server's order, which is what EventuallyFresh
\* rests on.
THEOREM ScreensNeverGoBack == Spec => ScreensMoveOn
<1>1. Init => OrderInv BY DEF Init, OrderInv, NoData, Asked, Versions
<1>2. CacheInv => CacheTypeOK BY DEF CacheInv
<1>3. CacheTypeOK /\ CacheTypeOK' /\ OrderInv /\ [Next]_vars => OrderInv' BY OrderStep
<1>4. CacheTypeOK /\ CacheTypeOK' /\ OrderInv /\ [Next]_vars
        => [\A k \in Keys : cache[k] <= cache'[k] /\ cache'[k] <= data'[k]]_vars
  BY OrderStep
<1> QED BY <1>1, <1>2, <1>3, <1>4, CacheInvariance, PTL DEF Spec, ScreensMoveOn
==============================================================================
