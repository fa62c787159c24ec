------------------------------ MODULE RuleModes ------------------------------
(***************************************************************************)
(* The switches of one automation rule in the list (AutomationsPage,       *)
(* AutomationList): enabled, and dry run.  A switch sends the whole rule   *)
(* as the list shows it with one field changed, and nothing stops a second *)
(* one before the list is refetched.  Leaving dry run asks first; the      *)
(* question keeps the row it was asked about.                              *)
(***************************************************************************)
EXTENDS Naturals

CONSTANTS
  MaxPuts,   \* bound: switches made
  NoRow

VARIABLES
  rule,     \* the server's rule: [enabled, dry]
  row,      \* the rule in the list
  asking,   \* the row of the open question, or NoRow
  puts,     \* requests under way: [enabled, dry, confirmed, dryThen]; dryThen is
            \* history: the server's rule was in dry run at the click
  rowReq,   \* the list is asked for
  made      \* switches made

modeVars == <<rule, row, asking, puts, rowReq, made>>

Mode == [enabled : BOOLEAN, dry : BOOLEAN]

RuleModesInit ==
  /\ rule \in Mode /\ row = rule
  /\ asking = NoRow /\ puts = {} /\ rowReq = FALSE /\ made = 0

\* applyToggle(row, patch): the PUT carries every field.
Put(patched, confirmed) ==
  /\ made < MaxPuts /\ made' = made + 1
  /\ puts' = puts \cup
       {[enabled |-> patched.enabled, dry |-> patched.dry, confirmed |-> confirmed,
         dryThen |-> rule.dry]}
  /\ UNCHANGED <<rule, row, rowReq>>

\* Enable, Disable.  The open question covers the list.
ToggleEnabled ==
  /\ asking = NoRow /\ UNCHANGED asking
  /\ Put([row EXCEPT !.enabled = ~@], FALSE)

BackToDryRun ==
  /\ ~row.dry /\ asking = NoRow /\ UNCHANGED asking
  /\ Put([row EXCEPT !.dry = TRUE], FALSE)

\* Go live: asks, for the row of the click.
GoLive ==
  /\ row.dry /\ asking = NoRow /\ asking' = row
  /\ UNCHANGED <<rule, row, puts, rowReq, made>>

ConfirmLive ==
  /\ asking # NoRow /\ asking' = NoRow
  /\ Put([asking EXCEPT !.dry = FALSE], TRUE)

DeclineLive ==
  /\ asking # NoRow /\ asking' = NoRow
  /\ UNCHANGED <<rule, row, puts, rowReq, made>>

\* Stored; the list is asked for again.
PutStored(p) ==
  /\ puts' = puts \ {p}
  /\ rule' = [enabled |-> p.enabled, dry |-> p.dry]
  /\ rowReq' = TRUE
  /\ UNCHANGED <<row, asking, made>>

PutRefused(p) ==
  /\ puts' = puts \ {p}
  /\ UNCHANGED <<rule, row, asking, rowReq, made>>

\* The list is read and shown.
RowLands ==
  /\ rowReq /\ row' = rule /\ rowReq' = FALSE
  /\ UNCHANGED <<rule, asking, puts, made>>

RuleModesNext ==
  \/ ToggleEnabled \/ BackToDryRun \/ GoLive \/ ConfirmLive \/ DeclineLive
  \/ \E p \in puts : PutStored(p) \/ PutRefused(p)
  \/ RowLands

RuleModesSpec == RuleModesInit /\ [][RuleModesNext]_modeVars

\* The comment of toggleRow: "leaving dry-run is the only control here that turns
\* a simulation into real searches against the user's indexers, so it asks first".
\* A rule that was in dry run at the click of a switch does not go live by that
\* switch, unless the question was answered.
LeavesDryRunAsked ==
  [][rule.dry /\ ~rule'.dry /\ rule'.enabled
       => \E p \in puts \ puts' : p.confirmed \/ ~p.dryThen]_modeVars
=============================================================================
