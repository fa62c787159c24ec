----------------------------- MODULE LiveUpdates -----------------------------
(***************************************************************************)
(* How the pages stay up to date: the query cache (TanStack Query as the   *)
(* pages use it), the intervals that poll, and the events of EventStream   *)
(* that invalidate.                                                        *)
(*                                                                         *)
(* The server's data is a version per query.  A query holds the version it *)
(* last loaded and has at most one request in flight: a new one cancels    *)
(* the one before it, except while the query has nothing to show yet.      *)
(***************************************************************************)
EXTENDS EventStream

CONSTANTS
  Keys,       \* the queries on the screen
  Polled,     \* those with a refetchInterval
  Refreshed,  \* VISIBILITY_REFRESH_KEYS
  Events,     \* event types
  Touches,    \* Touches[e]: the queries that event type e invalidates
  MaxVersion  \* bound: changes of one query's data

ASSUME LiveAssumption ==
  /\ Polled \subseteq Keys /\ Refreshed \subseteq Keys
  /\ Touches \in [Events -> SUBSET Keys]
  /\ MaxVersion \in Nat

VARIABLES
  data,   \* the server's version of each query's data
  wire,   \* event types the open stream has yet to deliver
  due,    \* queries whose debounce timer runs
  req,    \* the request in flight: Idle, Asked, or the version in the answer
  cache,  \* the version on the screen, NoData before the first
  lost    \* history: a change was missed, or its refetch failed, with no fetch since

cacheVars == <<data, wire, due, req, cache, lost>>
vars == <<streamVars, cacheVars>>

NoData == -1
Idle == -1
Asked == -2
Versions == 0 .. MaxVersion

TypeOK ==
  /\ StreamTypeOK
  /\ data \in [Keys -> Versions]
  /\ wire \subseteq Events
  /\ due \subseteq Keys
  /\ req \in [Keys -> Versions \cup {Idle, Asked}]
  /\ cache \in [Keys -> Versions \cup {NoData}]
  /\ lost \in [Keys -> BOOLEAN]

Init ==
  /\ StreamInit
  /\ data = [k \in Keys |-> 0]
  /\ wire = {} /\ due = {}
  /\ req = [k \in Keys |-> Asked]
  /\ cache = [k \in Keys |-> NoData]
  /\ lost = [k \in Keys |-> FALSE]
------------------------------------------------------------------------------
\* The queries the events of W would refresh.
Touched(W) == UNION {Touches[e] : e \in W}

\* A request for every query of K, in place of the one in flight.
Ask(K) ==
  /\ req' = [k \in Keys |-> IF k \in K THEN Asked ELSE req[k]]
  /\ lost' = [k \in Keys |-> lost[k] /\ k \notin K]

\* invalidateQueries: the first load of a query is not cancelled, so an answer
\* the server gave before the change is what will be shown.
Absorbed(k) == cache[k] = NoData /\ req[k] # Idle
InvalidateIdle(K, missed) ==
  /\ req' = [k \in Keys |-> IF k \in K /\ req[k] = Idle THEN Asked ELSE req[k]]
  /\ lost' = [k \in Keys |-> k \notin K /\ (lost[k] \/ k \in missed)]

Invalidate(K, missed) ==
  /\ req' = [k \in Keys |-> IF k \in K /\ ~Absorbed(k) THEN Asked ELSE req[k]]
  /\ lost' = [k \in Keys |-> IF k \in K THEN Absorbed(k) /\ req[k] # Asked
                                        ELSE lost[k] \/ k \in missed]

Miss(K) == lost' = [k \in Keys |-> lost[k] \/ k \in K]

\* Something changes on the server and is published, to no one, to the stream
\* of this tab, or to its queue when that is full, which drops it.
Change(e) ==
  /\ \A k \in Touches[e] : data[k] < MaxVersion
  /\ data' = [k \in Keys |-> IF k \in Touches[e] THEN data[k] + 1 ELSE data[k]]
  /\ \/ Up /\ wire' = wire \cup {e} /\ UNCHANGED lost
     \/ Miss(Touches[e]) /\ UNCHANGED wire
  /\ UNCHANGED <<streamVars, due, req, cache>>

\* The listener of event type e restarts the debounce timers of its queries.
Deliver(e) ==
  /\ e \in wire
  /\ wire' = wire \ {e}
  /\ due' = due \cup Touches[e]
  /\ UNCHANGED <<streamVars, data, req, cache, lost>>

\* A debounce timer fires.
Refresh(k) ==
  /\ k \in due
  /\ due' = due \ {k}
  /\ Invalidate({k}, {})
  /\ UNCHANGED <<streamVars, data, wire, cache>>

PollWhenDown(k) ==
  /\ mounted /\ visible /\ ~connected /\ k \in Polled /\ req[k] = Idle
  /\ Ask({k})
  /\ UNCHANGED <<streamVars, data, wire, due, cache>>

PollWhenUp(k) ==
  /\ mounted /\ visible /\ connected /\ k \in Polled /\ req[k] = Idle
  /\ Ask({k})
  /\ UNCHANGED <<streamVars, data, wire, due, cache>>

\* refetchInterval: only in a visible tab, and never beside a request in flight.
Poll(k) ==
  /\ mounted /\ visible /\ k \in Polled /\ req[k] = Idle
  /\ Ask({k})
  /\ UNCHANGED <<streamVars, data, wire, due, cache>>

\* The server handles the request.  Without a session it refuses, the query
\* keeps what it has, and the prompt is raised, unless this is the login page.
Answer(k) ==
  /\ req[k] = Asked
  /\ IF session
     THEN req' = [req EXCEPT ![k] = data[k]] /\ UNCHANGED <<lost, streamVars>>
     ELSE /\ req' = [req EXCEPT ![k] = Idle] /\ Miss({k})
          /\ prompted' \in {TRUE, prompted \/ mounted}
          /\ UNCHANGED <<mounted, visible, hides, stream, source, timers, timerRef,
                         failures, connected, probe, session>>
  /\ UNCHANGED <<data, wire, due, cache>>

\* A timeout, a network error or a 5xx, also on the retry.
FetchFails(k) ==
  /\ req[k] # Idle
  /\ req' = [req EXCEPT ![k] = Idle] /\ Miss({k})
  /\ UNCHANGED <<streamVars, data, wire, due, cache>>

\* The answer is put in the cache and on the screen.
Land(k) ==
  /\ req[k] \in Versions
  /\ cache' = [cache EXCEPT ![k] = req[k]]
  /\ req' = [req EXCEPT ![k] = Idle]
  /\ UNCHANGED <<streamVars, data, wire, due, lost>>

\* What a stream that goes away had yet to deliver is never delivered.
DropWire == wire' = {} /\ Miss(Touched(wire))

StreamBreaks ==
  /\ \E s \in Sources : StreamFails(s)
  /\ DropWire
  /\ UNCHANGED <<data, due, req, cache>>

StreamRuns ==
  /\ \/ \E s \in Sources : StreamOpens(s)
     \/ Reconnect \/ ProbeAnswered \/ ProbeLost \/ Hide \/ Expire
  /\ UNCHANGED cacheVars

\* The tab comes back: a new stream, and the keys that matter at once.
ComeBack ==
  /\ Show
  /\ wire' = {}
  /\ IF mounted THEN Invalidate(Refreshed, Touched(wire)) ELSE UNCHANGED <<req, lost>>
  /\ UNCHANGED <<data, due, cache>>

\* The layout leaves the screen: debounce timers are cleared.  Requests in
\* flight are not aborted.
Leave ==
  /\ Unmount
  /\ wire' = {} /\ due' = {}
  /\ Miss(due \cup Touched(wire))
  /\ UNCHANGED <<data, req, cache>>

\* The layout comes back: a query loads if it has nothing, if a sign-in
\* invalidated it, or if its data is older than its staleTime.
Return(signedIn) ==
  /\ Mount(signedIn)
  /\ \E K \in SUBSET Keys :
       /\ \A k \in Keys : signedIn \/ cache[k] = NoData => k \in K
       /\ Ask({k \in K : req[k] = Idle})
  /\ UNCHANGED <<data, wire, due, cache>>

Next ==
  \/ \E e \in Events : Change(e) \/ Deliver(e)
  \/ \E k \in Keys : Refresh(k) \/ Poll(k) \/ Answer(k) \/ FetchFails(k) \/ Land(k)
  \/ StreamBreaks \/ StreamRuns \/ ComeBack \/ Leave
  \/ \E signedIn \in BOOLEAN : Return(signedIn)

\* Intervals fire, the browser puts answers in the cache, and a server asked
\* again and again answers some time.  Nothing is assumed of the stream.
Spec ==
  /\ Init /\ [][Next]_vars
  /\ \A k \in Keys : WF_vars(Poll(k)) /\ SF_vars(Answer(k)) /\ SF_vars(Land(k))
------------------------------------------------------------------------------
(* A screen that shows old data has a refresh under way, or one of the     *)
(* named losses behind it: no event that reaches the tab is forgotten by   *)
(* the debounce, by a request that was already under way when it came, or  *)
(* by the one it cancels.  (EVENT_QUERY_KEYS and scheduleInvalidate.)      *)
StaleHasCause ==
  \A k \in Keys :
    cache[k] \notin {NoData, data[k]} =>
      \/ lost[k]
      \/ req[k] \in {Asked, data[k]}
      \/ k \in due \cup Touched(wire)

(* When the server is quiet and someone looks at the page, every polled    *)
(* query ends up with the server's last data, whatever the stream dropped. *)
(* (pollInterval's fallback and its "relaxed" interval.)                   *)
EventuallyFresh ==
  <>[](mounted /\ visible /\ session) => <>[](\A k \in Polled : cache[k] = data[k])

(* A session that ends while the page is looked at surfaces as the re-login*)
(* prompt, also when the server is away at the very moment of the probe,   *)
(* which is made once per streak of failures.                              *)
SessionLossSurfaces ==
  ~session ~> (prompted \/ session \/ ~mounted \/ ~visible)
==============================================================================
