----------------------------- MODULE EventStream -----------------------------
(***************************************************************************)
(* The browser's side of GET /api/ui/events: useServerEvents, mounted once *)
(* by AppLayout.  An effect keeps one EventSource or one reconnect timer,  *)
(* counts the failures in a row, probes the session after the third of     *)
(* them, and reopens the stream whenever the tab becomes visible again.    *)
(*                                                                         *)
(* EventSource objects are kept apart from the closure's variable that     *)
(* points at the last one, and timers from the ref that points at the last *)
(* one, so that a leaked object or timer is a state of the model.          *)
(***************************************************************************)
EXTENDS Integers

CONSTANTS
  Sources,  \* EventSource objects; a closed one may be used again
  None,     \* no object
  MaxHides  \* bound: how often the tab is put in the background

ASSUME StreamAssumption ==
  /\ Sources # {} /\ None \notin Sources
  /\ MaxHides \in Nat

VARIABLES
  mounted,    \* AppLayout is on the screen and its effect is set up
  visible,    \* document.visibilityState
  hides,      \* how often the tab was hidden
  stream,     \* readyState of every EventSource
  source,     \* the closure's current EventSource
  timers,     \* reconnect timers that will fire
  timerRef,   \* reconnectTimer.current was set and not cleared
  failures,   \* failuresRef.current, counted up to FailCap
  connected,  \* what the hook reports to the pages
  probe,      \* probeAuth waits for its answer
  session,    \* the session cookie is good
  prompted    \* the re-login prompt was raised since the last sign-in

streamVars == <<mounted, visible, hides, stream, source, timers, timerRef,
                failures, connected, probe, session, prompted>>

\* AUTH_PROBE_AFTER_FAILURES; every later failure is alike, but for its delay.
ProbeAfter == 3
FailCap == ProbeAfter + 1

Live(s) == stream[s] # "closed"
Up == \E s \in Sources : stream[s] = "open"

StreamTypeOK ==
  /\ mounted \in BOOLEAN /\ visible \in BOOLEAN
  /\ hides \in 0 .. MaxHides
  /\ stream \in [Sources -> {"closed", "connecting", "open"}]
  /\ source \in Sources \cup {None}
  /\ timers \in Nat /\ timerRef \in BOOLEAN
  /\ failures \in 0 .. FailCap
  /\ connected \in BOOLEAN
  /\ probe \in BOOLEAN
  /\ session \in BOOLEAN /\ prompted \in BOOLEAN
------------------------------------------------------------------------------
\* open(): a new EventSource, any that is not in use, and the variable points at
\* it.  The object it pointed at before is left as "at" has it.
OpenFrom(at) ==
  /\ \E s \in Sources : at[s] = "closed"
  /\ source' = CHOOSE s \in Sources : at[s] = "closed"
  /\ stream' = [at EXCEPT ![source'] = "connecting"]

\* source?.close()
Closed == [s \in Sources |-> IF s = source THEN "closed" ELSE stream[s]]

StreamInit ==
  /\ mounted = TRUE /\ visible = TRUE /\ hides = 0
  /\ source = CHOOSE s \in Sources : TRUE
  /\ stream = [s \in Sources |-> IF s = source THEN "connecting" ELSE "closed"]
  /\ timers = 0 /\ timerRef = FALSE /\ failures = 0
  /\ connected = FALSE /\ probe = FALSE
  /\ session = TRUE /\ prompted = FALSE

\* onopen: the server takes the request only with a good session.
StreamOpens(s) ==
  /\ stream[s] = "connecting" /\ session
  /\ stream' = [stream EXCEPT ![s] = "open"]
  /\ failures' = 0 /\ connected' = TRUE
  /\ UNCHANGED <<mounted, visible, hides, source, timers, timerRef, probe, session, prompted>>

\* onerror: report, close what the variable points at, and arm the next try.
StreamFails(s) ==
  /\ Live(s)
  /\ connected' = FALSE
  /\ stream' = Closed
  /\ source' = None
  /\ failures' = IF failures < FailCap THEN failures + 1 ELSE FailCap
  /\ probe' = (probe \/ failures + 1 = ProbeAfter)
  /\ timers' = timers + 1 /\ timerRef' = TRUE
  /\ UNCHANGED <<mounted, visible, hides, session, prompted>>

\* The timer fires open().  The ref keeps the fired timer.
Reconnect ==
  /\ timers > 0
  /\ timers' = timers - 1
  /\ OpenFrom(stream)
  /\ UNCHANGED <<mounted, visible, hides, timerRef, failures, connected, probe, session, prompted>>

\* GET /api/auth/status, exempt from the session: the prompt is raised if the
\* answer says that the session is gone.
ProbeAnswered ==
  /\ probe /\ probe' = FALSE
  /\ prompted' = (prompted \/ ~session)
  /\ UNCHANGED <<mounted, visible, hides, stream, source, timers, timerRef, failures,
                 connected, session>>

\* The server cannot be reached: the hook keeps backing off.
ProbeLost ==
  /\ probe /\ probe' = FALSE
  /\ UNCHANGED <<mounted, visible, hides, stream, source, timers, timerRef, failures,
                 connected, session, prompted>>

Hide ==
  /\ visible /\ hides < MaxHides
  /\ visible' = FALSE /\ hides' = hides + 1
  /\ UNCHANGED <<mounted, stream, source, timers, timerRef, failures, connected, probe,
                 session, prompted>>

ReconnectNowBeside ==
  /\ failures' = 0
  /\ timers' = IF timerRef /\ timers > 0 THEN timers - 1 ELSE timers
  /\ timerRef' = FALSE
  /\ OpenFrom(stream)
  /\ UNCHANGED <<connected, probe>>

\* reconnectNow(): forget the failures, drop the timer, replace the stream.
ReconnectNow ==
  /\ failures' = 0
  /\ timers' = IF timerRef /\ timers > 0 THEN timers - 1 ELSE timers
  /\ timerRef' = FALSE
  /\ OpenFrom(Closed)
  /\ UNCHANGED <<connected, probe>>

\* visibilitychange; the listener is there only while the effect is set up.
Show ==
  /\ ~visible /\ visible' = TRUE
  /\ IF mounted THEN ReconnectNow
     ELSE UNCHANGED <<stream, source, timers, timerRef, failures, connected, probe>>
  /\ UNCHANGED <<mounted, hides, session, prompted>>

\* The effect's cleanup: AppLayout leaves the screen.  A probe's answer is
\* ignored from here on.
Unmount ==
  /\ mounted /\ mounted' = FALSE
  /\ timers' = IF timerRef /\ timers > 0 THEN timers - 1 ELSE timers
  /\ timerRef' = FALSE
  /\ stream' = Closed /\ source' = None
  /\ connected' = FALSE /\ probe' = FALSE /\ failures' = 0
  /\ UNCHANGED <<visible, hides, session, prompted>>

\* AppLayout is shown again: a new instance of the hook.  A page is reached
\* from /login with a good session, from /setup with the session there was.
Mount(signedIn) ==
  /\ ~mounted /\ mounted' = TRUE
  /\ OpenFrom(stream)
  /\ session' = (session \/ signedIn)
  /\ prompted' = (prompted /\ ~signedIn)
  /\ UNCHANGED <<visible, hides, timers, timerRef, failures, connected, probe>>

\* The session expires.  A stream that is open stays open.
Expire ==
  /\ session /\ session' = FALSE
  /\ UNCHANGED <<mounted, visible, hides, stream, source, timers, timerRef, failures,
                 connected, probe, prompted>>

StreamNext ==
  \/ \E s \in Sources : StreamOpens(s) \/ StreamFails(s)
  \/ Reconnect \/ ProbeAnswered \/ ProbeLost
  \/ Hide \/ Show \/ Unmount \/ Expire
  \/ \E signedIn \in BOOLEAN : Mount(signedIn)

StreamSpec == StreamInit /\ [][StreamNext]_streamVars
------------------------------------------------------------------------------
(* A mounted layout is driven by one EventSource or by one timer, never by *)
(* both or neither: a second stream would double every refresh and count   *)
(* failures twice, and with neither no event would ever arrive again.      *)
(* (useServerEvents: open, onerror, reconnectNow and the cleanup.)         *)
OneDriver ==
  /\ \A s \in Sources : Live(s) => s = source
  /\ source # None => Live(source)
  /\ timers = IF mounted /\ source = None THEN 1 ELSE 0
  /\ mounted \/ source = None
==============================================================================
