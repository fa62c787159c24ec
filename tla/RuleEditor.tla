------------------------------ MODULE RuleEditor ------------------------------
(***************************************************************************)
(* The automation rules page (AutomationsPage): one panel beside the list  *)
(* shows the templates, a rule's history or the editor with a draft.  The  *)
(* editor is keyed by the rule, so opening another rule mounts it anew     *)
(* and opening the same rule replaces the draft under it.  Whether Save is *)
(* enabled is the page's state: it outlives the editor and its checks.     *)
(***************************************************************************)
EXTENDS LiveCheck

CONSTANTS
  Rules,    \* ids of saved rules
  New,      \* the draft of a rule not yet created
  Nowhere

VARIABLES
  sheet,    \* [kind, rule]: the panel
  saving,   \* the draft whose save is under way: [rule, text], or Nowhere
  judged    \* ghost: the rule that `valid` was last judged for, or Nowhere

pageVars == <<sheet, saving, judged>>
editorVars == <<checkVars, pageVars>>

Drafts == Rules \cup {New}
Closed == [kind |-> "none", rule |-> Nowhere]
Editing == sheet.kind = "editor"

RuleEditorTypeOK ==
  /\ LiveCheckTypeOK
  /\ sheet \in [kind : {"none", "template", "history", "editor"}, rule : Drafts \cup {Nowhere}]
  /\ saving \in [rule : Drafts, text : Texts] \cup {Nowhere}
  /\ judged \in Drafts \cup {Nowhere}
  /\ mounted <=> Editing

RuleEditorInit ==
  /\ LiveCheckInit
  /\ sheet = Closed /\ saving = Nowhere /\ judged = Nowhere

\* setSheet to a panel without the editor.
Show(panel) ==
  /\ sheet' = panel
  /\ IF Editing THEN Unmount ELSE UNCHANGED checkVars

OpenEditorUnreset(rule, t) ==
  /\ sheet' = [kind |-> "editor", rule |-> rule]
  /\ judged' = Nowhere
  /\ IF sheet = sheet'
     THEN text' = t /\ UNCHANGED <<mounted, due, flights, verdict, valid>>
     ELSE /\ mounted' = TRUE /\ text' = t /\ due' = t /\ verdict' = "unknown"
          /\ flights' = Cancelled \cup {[about |-> t, live |-> TRUE]}
          /\ UNCHANGED valid
  /\ UNCHANGED saving

\* openEditor: Save is enabled until the rule's own check answers.
OpenEditor(rule, t) ==
  /\ sheet' = [kind |-> "editor", rule |-> rule]
  /\ judged' = Nowhere
  /\ IF sheet = sheet'
     THEN text' = t /\ valid' = TRUE /\ UNCHANGED <<mounted, due, flights, verdict>>
     ELSE /\ mounted' = TRUE /\ text' = t /\ due' = t /\ verdict' = "unknown"
          /\ flights' = Cancelled \cup {[about |-> t, live |-> TRUE]}
          /\ valid' = TRUE
  /\ UNCHANGED saving

\* New rule, or the empty list's button.
PickTemplate ==
  /\ Show([kind |-> "template", rule |-> Nowhere])
  /\ UNCHANGED <<saving, judged>>

\* useTemplate: the draft may be anything, the seeded name is left empty when
\* it is taken.
UseTemplate(t) == sheet.kind = "template" /\ OpenEditor(New, t)

\* Edit, from the list or from the history: the rule as it is stored.
EditRow(rule, t) == t \notin Bad /\ OpenEditor(rule, t)

ShowHistory(rule) ==
  /\ Show([kind |-> "history", rule |-> rule])
  /\ UNCHANGED <<saving, judged>>

\* Cancel, Close.
CloseSheet ==
  /\ sheet # Closed /\ Show(Closed)
  /\ UNCHANGED <<saving, judged>>

\* onChange of any control of the editor.
EditDraft(t) == TypeText(t) /\ UNCHANGED pageVars

EditorDebounce == Debounce /\ UNCHANGED pageVars

\* Verdicts reach the page through onValidityChange.
EditorHears(f) ==
  /\ Answered(f) \/ Lost(f)
  /\ judged' = IF f.live THEN sheet.rule ELSE judged
  /\ UNCHANGED <<sheet, saving>>

\* Save, disabled while the draft is known to be invalid and during a save.
SaveDraft ==
  /\ Editing /\ valid /\ saving = Nowhere
  /\ saving' = [rule |-> sheet.rule, text |-> text]
  /\ UNCHANGED <<checkVars, sheet, judged>>

\* The server checks the rule itself; the panel is closed, whatever it shows by
\* now.
SaveEnds ==
  /\ saving # Nowhere /\ saving' = Nowhere
  /\ \/ saving.text \notin Bad /\ Show(Closed)
     \/ UNCHANGED <<checkVars, sheet>>
  /\ UNCHANGED judged

RuleEditorNext ==
  \/ PickTemplate \/ CloseSheet \/ EditorDebounce \/ SaveDraft \/ SaveEnds
  \/ \E t \in Texts \ {Blank} :
       \/ UseTemplate(t) \/ EditDraft(t)
       \/ \E rule \in Rules : EditRow(rule, t)
  \/ \E rule \in Rules : ShowHistory(rule)
  \/ \E f \in flights : EditorHears(f)

RuleEditorSpec == RuleEditorInit /\ [][RuleEditorNext]_editorVars

-----------------------------------------------------------------------------
(* Properties.                                                             *)

\* Save is disabled for the rule on the screen only by a verdict on that rule
\* ("validity belongs to the rule being edited, not to the page"), also when the
\* answers of a rule closed meanwhile arrive.
VerdictOfThisRule == Editing /\ ~valid => judged = sheet.rule
=============================================================================
