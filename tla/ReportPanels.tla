------------------------------ MODULE ReportPanels ------------------------------
(***************************************************************************)
(* The tables of the reports (ReportingPage, ReportingTablePanel).  What   *)
(* filters every table (the dashboard, the instance, the row limit, the    *)
(* page size, the specials, the two shared filters) turns all of them back *)
(* to their first page, a table's own filter only that table.  The typed   *)
(* filters are deferred: the rows, and the effect that turns the pages     *)
(* back, follow a render later.  While a dashboard loads, the tables of    *)
(* the one before are shown as if they were its own.                       *)
(*                                                                         *)
(* How many rows match is the server's affair: any number, anew whenever   *)
(* something that filters them changes.                                    *)
(***************************************************************************)
EXTENDS Integers

CONSTANTS
  Dashboards, Panels,
  Wide,      \* all that filters every table but the shared text
  Filters,   \* what may be typed
  NoFilter,
  TableSize, \* reportingTablePageSize
  MaxRows    \* bound: rows of a table

ASSUME PanelsAssumption ==
  TableSize \in Nat \ {0} /\ MaxRows \in Nat /\ NoFilter \in Filters

VARIABLES
  dashboard,   \* reportingDashboardKey
  wide,
  shared,      \* the shared filter as typed
  deferred,    \* as the rows are filtered by it
  matching,    \* rows of each shown table that match
  offsets,     \* reportingTableOffsets of the dashboard
  turnedAt     \* ghost: by what the table was filtered when its page was turned

panelVars ==
  <<dashboard, wide, shared, deferred, matching, offsets, turnedAt>>

Counts == [Panels -> 0 .. MaxRows]
TableOffsets == {TableSize * n : n \in 0 .. MaxRows \div TableSize}
FilteredBy == <<dashboard, wide, deferred>>

PanelsTypeOK ==
  /\ dashboard \in Dashboards /\ wide \in Wide
  /\ shared \in Filters /\ deferred \in Filters
  /\ matching \in Counts
  /\ offsets \in [Panels -> TableOffsets]
  /\ turnedAt \in [Panels -> Dashboards \X Wide \X Filters]

PanelsInit ==
  /\ dashboard \in Dashboards /\ wide \in Wide
  /\ shared = NoFilter /\ deferred = NoFilter
  /\ matching \in Counts /\ offsets = [p \in Panels |-> 0]
  /\ turnedAt = [p \in Panels |-> FilteredBy]

\* The page a table shows: the offset it was turned to, or the last page that
\* has rows (clampPageOffset, in the render itself).
ShownOffset(p) ==
  IF offsets[p] < matching[p] THEN offsets[p]
  ELSE IF matching[p] = 0 THEN 0 ELSE ((matching[p] - 1) \div TableSize) * TableSize

TurnedBack == offsets' = [p \in Panels |-> 0]

\* Tables are fetched again when the dashboard or the server's part of `wide` is
\* another one; the effect has run by the next click.
SelectBoard(d) ==
  /\ d # dashboard /\ dashboard' = d
  /\ TurnedBack /\ matching' \in Counts
  /\ UNCHANGED <<wide, shared, deferred, turnedAt>>

\* The dashboard's answer, or a poll's: other rows.
BoardLands ==
  /\ matching' \in Counts
  /\ UNCHANGED <<dashboard, wide, shared, deferred, offsets, turnedAt>>

SetWide(w) ==
  /\ w # wide /\ wide' = w
  /\ TurnedBack /\ matching' \in Counts
  /\ UNCHANGED <<dashboard, shared, deferred, turnedAt>>

\* Typed: neither the rows nor the offsets change yet.
TypeShared(f) ==
  /\ f # shared /\ shared' = f
  /\ UNCHANGED <<dashboard, wide, deferred, matching, offsets, turnedAt>>

DeferredRenderInPlace ==
  /\ deferred # shared /\ deferred' = shared
  /\ matching' \in Counts
  /\ UNCHANGED <<dashboard, wide, shared, offsets, turnedAt>>

\* The deferred render, and the effect after it.
DeferredRender ==
  /\ deferred # shared /\ deferred' = shared
  /\ TurnedBack /\ matching' \in Counts
  /\ UNCHANGED <<dashboard, wide, shared, turnedAt>>

\* handlePanelFilterChange, handleColumnFilterChange: only this table is turned
\* back (resetPanelOffset).
FilterPanel(p) ==
  /\ offsets' = [offsets EXCEPT ![p] = 0]
  /\ \E n \in 0 .. MaxRows : matching' = [matching EXCEPT ![p] = n]
  /\ UNCHANGED <<dashboard, wide, shared, deferred, turnedAt>>

\* handleOffsetChange, from the page that is shown.
Turn(p, to) ==
  /\ offsets' = [offsets EXCEPT ![p] = to]
  /\ turnedAt' = [turnedAt EXCEPT ![p] = FilteredBy]
  /\ UNCHANGED <<dashboard, wide, shared, deferred, matching>>

PrevRowsUnchecked(p) == Turn(p, ShownOffset(p) - TableSize)

PrevRows(p) == ShownOffset(p) > 0 /\ Turn(p, ShownOffset(p) - TableSize)
NextRows(p) ==
  ShownOffset(p) + TableSize < matching[p] /\ Turn(p, ShownOffset(p) + TableSize)

\* clearFilters: the shared ones, every table's own, and the specials.
ClearFilters ==
  /\ shared' = NoFilter
  /\ wide' \in Wide /\ offsets' = IF wide' = wide THEN offsets ELSE [p \in Panels |-> 0]
  /\ matching' \in Counts
  /\ UNCHANGED <<dashboard, deferred, turnedAt>>

PanelsNext ==
  \/ \E d \in Dashboards : SelectBoard(d)
  \/ \E w \in Wide : SetWide(w)
  \/ \E f \in Filters : TypeShared(f)
  \/ \E p \in Panels : PrevRows(p) \/ NextRows(p) \/ FilterPanel(p)
  \/ BoardLands \/ DeferredRender \/ ClearFilters

PanelsSpec == PanelsInit /\ [][PanelsNext]_panelVars

-----------------------------------------------------------------------------
(* Properties.                                                             *)

\* A table is never left on a later page of rows it was not turned to: whatever
\* filters all tables, at once or a render later, has turned every one back by
\* the time the rows are others ("dashboard-wide changes ... invalidate every
\* panel's pagination").
PagesOfTheseRows ==
  \A p \in Panels : offsets[p] # 0 => turnedAt[p] = FilteredBy
=============================================================================
