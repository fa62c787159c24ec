-------------------------------- MODULE LogTail --------------------------------
(***************************************************************************)
(* The log page (LogsPage): lines come every 2.5 seconds, and the view     *)
(* follows them while the reader is at the bottom.  Whether he is, a ref   *)
(* remembers from the last scroll event, which the browser sends a moment  *)
(* after the scrolling, for the page's own smooth scrolling as well.       *)
(* Positions are counted in lines; the ring buffer is never full here.     *)
(***************************************************************************)
EXTENDS Naturals

CONSTANTS
  MaxLines,  \* bound: lines logged
  Height,    \* lines the viewport shows
  Near       \* 48 pixels: so few lines from the end count as the end

ASSUME LogAssumption == MaxLines \in Nat /\ Height \in Nat /\ Near \in Nat \ {0}

VARIABLES
  logged,    \* the server's lines: all, and those the filter matches
  items,     \* the query's lines, likewise
  narrow,    \* minLevel or search is set
  paused,    \* logsPaused
  top,       \* scrollTop
  stick,     \* stickToBottomRef
  goal,      \* where a smooth scroll under way ends; top when there is none
  event,     \* the scroll event on its way: "none", the page's, the reader's
  reading    \* history: the page heard the reader scroll away from the end

logVars == <<logged, items, narrow, paused, top, stick, goal, event, reading>>

Lines == [all : 0 .. MaxLines, match : 0 .. MaxLines]
Gliding == goal # top

LogTypeOK ==
  /\ logged \in Lines /\ items \in Lines
  /\ narrow \in BOOLEAN /\ paused \in BOOLEAN
  /\ top \in 0 .. MaxLines /\ goal \in 0 .. MaxLines
  /\ stick \in BOOLEAN /\ reading \in BOOLEAN
  /\ event \in {"none", "page", "reader"}

LogInit ==
  /\ logged \in {n \in Lines : n.match <= n.all}
  /\ items = [all |-> 0, match |-> 0]
  /\ narrow = FALSE /\ paused = FALSE
  /\ top = 0 /\ goal = 0 /\ stick = TRUE
  /\ event = "none" /\ reading = FALSE

-----------------------------------------------------------------------------
(* Rendering.                                                              *)

\* filtered.length
Filtered(lines, narrowed) == IF narrowed THEN lines.match ELSE lines.all
LastTop(n) == IF n > Height THEN n - Height ELSE 0

\* What n lines leave of a smooth scroll under way, at position t.
Glided(t, n) ==
  IF ~Gliding THEN t ELSE IF goal > LastTop(n) THEN LastTop(n) ELSE goal

\* The effect on [logsPaused, filtered]: scrollIntoView, unless it returns early.
FollowAlways(t, n, pausing) ==
  goal' = IF pausing THEN Glided(t, n) ELSE LastTop(n)
Follow(t, n, pausing) ==
  goal' = IF pausing \/ ~stick THEN Glided(t, n) ELSE LastTop(n)

\* The list is rendered with n lines: the browser keeps the position, as far as
\* there are lines, and tells a change of it; then the effect runs.
RenderLog(n, pausing) ==
  LET t == IF top > LastTop(n) THEN LastTop(n) ELSE top
  IN  /\ top' = t
      /\ Follow(t, n, pausing)
      /\ IF t = top THEN UNCHANGED <<event, reading>>
                    ELSE event' = "page" /\ reading' = FALSE

-----------------------------------------------------------------------------

LogLine(matches) ==
  /\ logged.all < MaxLines
  /\ logged' = [all |-> logged.all + 1,
                match |-> logged.match + (IF matches THEN 1 ELSE 0)]
  /\ UNCHANGED <<items, narrow, paused, top, stick, goal, event, reading>>

\* The interval's answer, while not paused, or that of the Refresh button.
LogsLand ==
  /\ items # logged /\ items' = logged
  /\ RenderLog(Filtered(logged, narrow), paused)
  /\ UNCHANGED <<logged, narrow, paused, stick>>

SetLogFilter ==
  /\ narrow' = ~narrow
  /\ RenderLog(Filtered(items, ~narrow), paused)
  /\ UNCHANGED <<logged, items, paused, stick>>

PauseLogs ==
  /\ paused' = ~paused
  /\ RenderLog(Filtered(items, narrow), ~paused)
  /\ UNCHANGED <<logged, items, narrow, stick>>

\* The smooth scroll comes to a further position.
Glide(t) ==
  /\ Gliding /\ t <= goal /\ t > top
  /\ top' = t /\ event' = "page"
  /\ UNCHANGED <<logged, items, narrow, paused, stick, goal, reading>>

\* The reader scrolls, which ends a smooth scroll.
Scroll(t) ==
  /\ t # top /\ t <= LastTop(Filtered(items, narrow))
  /\ top' = t /\ goal' = t
  /\ event' = "reader" /\ reading' = FALSE
  /\ UNCHANGED <<logged, items, narrow, paused, stick>>

\* onLogsScroll
AtEnd == Filtered(items, narrow) < top + Height + Near
HearScroll ==
  /\ event # "none" /\ event' = "none"
  /\ stick' = AtEnd
  /\ reading' = (event = "reader" /\ ~AtEnd /\ ~Gliding)
  /\ UNCHANGED <<logged, items, narrow, paused, top, goal>>

LogNext ==
  \/ \E m \in BOOLEAN : LogLine(m)
  \/ LogsLand \/ SetLogFilter \/ PauseLogs \/ HearScroll
  \/ \E t \in 0 .. MaxLines : Glide(t) \/ Scroll(t)

LogSpec == LogInit /\ [][LogNext]_logVars

-----------------------------------------------------------------------------
(* Properties.                                                             *)

\* A reader who scrolled up is not moved by new lines, by the filter or by the
\* end of a pause, unless what is left is shorter than where he was ("scrolling
\* up to read older lines isn't yanked back every poll"), once the page has heard
\* of his scrolling.
ReaderStaysPut == [][reading => (top' = top \/ ~reading')]_logVars
=============================================================================
