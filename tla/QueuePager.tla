------------------------------ MODULE QueuePager ------------------------------
(***************************************************************************)
(* The table of webhook jobs (SyncQueuePage, syncQueueShared): pages of    *)
(* the jobs with a status, each page a query of its own with its own count *)
(* of all jobs, polled while it is shown and kept for the next visit.      *)
(* Until a page's own data are there the table shows the page before.      *)
(* Jobs come and go meanwhile, and an effect snaps the offset back to the  *)
(* last page that has rows.  An answer is read when it lands.              *)
(***************************************************************************)
EXTENDS Integers

CONSTANTS
  Statuses,    \* the filter
  PageSize,    \* WEBHOOK_JOBS_PAGE_SIZE
  MaxJobs,     \* bound: jobs with one status
  MaxClicks,   \* bound: pages turned and filters set
  MaxShrinks,  \* bound: how often the number of jobs changes
  NoPage

ASSUME PagerAssumption ==
  PageSize \in Nat \ {0} /\ MaxJobs \in Nat /\ MaxClicks \in Nat /\ MaxShrinks \in Nat

VARIABLES
  jobs,     \* the server's jobs per status
  filter, offset,
  pages,    \* the cached pages: [total, rows], or NoPage
  shown,    \* webhookJobs.data: this page's, or the one before
  polls,    \* pages asked for
  clicks, shrinks

pagerVars == <<jobs, filter, offset, pages, shown, polls, clicks, shrinks>>

Offsets == {PageSize * n : n \in 0 .. MaxJobs \div PageSize}
Pages == [total : 0 .. MaxJobs, rows : 0 .. PageSize]
Smaller(a, b) == IF a < b THEN a ELSE b
Larger(a, b) == IF a > b THEN a ELSE b

PagerTypeOK ==
  /\ jobs \in [Statuses -> 0 .. MaxJobs]
  /\ filter \in Statuses /\ offset \in Offsets
  /\ pages \in [Statuses \X Offsets -> Pages \cup {NoPage}]
  /\ shown \in Pages \cup {NoPage}
  /\ polls \subseteq Statuses \X Offsets
  /\ clicks \in 0 .. MaxClicks /\ shrinks \in 0 .. MaxShrinks

ClampPageOffsetPast(o, total) ==
  IF total <= 0 THEN 0
  ELSE IF o < total THEN Larger(0, o)
  ELSE Larger(0, (total \div PageSize) * PageSize)

\* clampPageOffset(offset, total, pageSize)
ClampPageOffset(o, total) ==
  IF total <= 0 THEN 0
  ELSE IF o < total THEN Larger(0, o)
  ELSE Larger(0, ((total - 1) \div PageSize) * PageSize)

PagerInit ==
  /\ jobs \in [Statuses -> 0 .. MaxJobs]
  /\ filter \in Statuses /\ offset = 0
  /\ pages = [k \in Statuses \X Offsets |-> NoPage] /\ shown = NoPage
  /\ polls = {<<filter, 0>>} /\ clicks = 0 /\ shrinks = 0

\* What the table has for page k: its own data, or the last ones shown.
DataFor(k, cached, last) == IF cached[k] # NoPage THEN cached[k] ELSE last

\* Where the effect leaves offset o over these data.
SnappedTo(o, data) == IF data = NoPage THEN o ELSE ClampPageOffset(o, data.total)

\* Rendering an offset of status f over the last data, until the effect rests.
Rest(f, cached) ==
  LET rest[at \in Offsets \X (Pages \cup {NoPage})] ==
        LET data == DataFor(<<f, at[1]>>, cached, at[2])
            o == SnappedTo(at[1], data)
        IN  IF o = at[1] THEN <<o, data>> ELSE rest[<<o, data>>]
  IN  rest

Render(f, o, cached) ==
  LET end == Rest(f, cached)[<<o, shown>>]
  IN /\ filter' = f /\ offset' = end[1] /\ shown' = end[2]
     /\ pages' = cached

\* A page with data is asked for again only when they are stale.
Visit(f, o) ==
  /\ clicks < MaxClicks /\ clicks' = clicks + 1
  /\ Render(f, o, pages)
  /\ \/ polls' = polls \cup {<<filter', offset'>>}
     \/ pages[<<filter', offset'>>] # NoPage /\ UNCHANGED polls
  /\ UNCHANGED <<jobs, shrinks>>

SelectStatus(f) == f # filter /\ Visit(f, 0)

PrevPage == offset > 0 /\ Visit(filter, Larger(0, offset - PageSize))

\* Next, disabled at the end of what is shown.
NextPage ==
  /\ shown # NoPage /\ offset + shown.rows < shown.total
  /\ offset + PageSize \in Offsets
  /\ Visit(filter, offset + PageSize)

\* An interval, an event or an action's invalidation.
PollJobs ==
  /\ polls' = polls \cup {<<filter, offset>>}
  /\ UNCHANGED <<jobs, filter, offset, pages, shown, clicks, shrinks>>

JobsLand(k) ==
  /\ k \in polls /\ polls' = polls \ {k}
  /\ Render(filter, offset,
       [pages EXCEPT ![k] = [total |-> jobs[k[1]],
                             rows |-> Larger(0, Smaller(PageSize, jobs[k[1]] - k[2]))]])
  /\ UNCHANGED <<jobs, clicks, shrinks>>

\* Jobs are received, drained, pruned, replayed, or requeued in bulk.
JobsChange(f, n) ==
  /\ shrinks < MaxShrinks /\ shrinks' = shrinks + 1
  /\ n # jobs[f] /\ jobs' = [jobs EXCEPT ![f] = n]
  /\ UNCHANGED <<filter, offset, pages, shown, polls, clicks>>

PagerNext ==
  \/ PrevPage \/ NextPage \/ PollJobs
  \/ \E f \in Statuses : SelectStatus(f) \/ \E n \in 0 .. MaxJobs : JobsChange(f, n)
  \/ \E k \in polls : JobsLand(k)

PagerSpec == PagerInit /\ [][PagerNext]_pagerVars

-----------------------------------------------------------------------------
(* Properties.                                                             *)

\* A page whose own answer has come is what is shown, and is not an empty page of
\* a list that has rows by the same answer (the effect with clampPageOffset).
NoEmptyPageShown ==
  LET own == pages[<<filter, offset>>]
  IN  own # NoPage => shown = own /\ (own.total > 0 => own.rows > 0)

\* However the jobs shrank under it, the table comes to show rows of the status,
\* when there are any: the effect is there so that it never shows "an empty page
\* forever".
NoEmptyPageForever == <>[](jobs[filter] > 0 => shown # NoPage /\ shown.rows > 0)
=============================================================================
