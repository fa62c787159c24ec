----------------------------- MODULE EditingProofs -----------------------------
(***************************************************************************)
(* Safety of the pages that edit: rows and forms, the check of a rule, the *)
(* saved views, the actions that ask, the wizard's form and the            *)
(* authentication section, for any rows, values, texts and bounds.         *)
(***************************************************************************)
EXTENDS PageProofs

(* Editable rows.                                                          *)

\* Before the first list there is nothing to edit or save; a clean row shows
\* the list.
DraftInv ==
  /\ DraftRowsTypeOK
  /\ listed = NoList => draft = NoList /\ dirty = {} /\ editing = None
                        /\ \A s \in Saves : save[s] = None
  /\ listed # NoList => draft \in Table
  /\ RowsShowList

LEMMA SettledKeeps ==
  ASSUME save \in [Saves -> Posts \cup {None}]
  PROVE  /\ Settled(save) \in [Saves -> Posts \cup {None}]
         /\ \A s \in Saves : save[s] = None => Settled(save)[s] = None
         /\ \A s \in Saves : save[s] # None => /\ Settled(save)[s] # None
                                               /\ Settled(save)[s].row = save[s].row
<1>1. \A s \in Saves : save[s] # None => [save[s] EXCEPT !.stage = "settling"] \in Posts
  BY DEF Posts, Stages
<1>2. \A s \in Saves : save[s] # None =>
        [save[s] EXCEPT !.stage = "settling"].row = save[s].row
  BY DEF Posts
<1> QED BY <1>1, <1>2, DraftAssumption DEF Settled

LEMMA AskTypesRows == DraftRowsTypeOK => AskAgain \in Table \cup {None, Asked}
BY DEF DraftRowsTypeOK, AskAgain

LEMMA DraftStep ==
  ASSUME DraftInv, [DraftRowsNext]_draftVars
  PROVE  DraftInv'
<1> USE DEF DraftInv
<1>1. ASSUME NEW r \in Rows, NEW v \in Values, Elsewhere(r, v) PROVE DraftInv'
  <2>1. stored' \in Table BY <1>1 DEF Elsewhere, DraftRowsTypeOK, Table
  <2> QED BY <1>1, <2>1 DEF Elsewhere, DraftRowsTypeOK, RowsShowList
<1>2. CASE Refetch
  BY <1>2, SettledKeeps, AskTypesRows DEF Refetch, DraftRowsTypeOK, RowsShowList
<1>3. CASE ListAnswered BY <1>3 DEF ListAnswered, DraftRowsTypeOK, RowsShowList
<1>4. CASE ListLands
  <2>1. listReq \in Table /\ listed' = listReq /\ listed' # NoList
    BY <1>4, DraftAssumption DEF ListLands, DraftRowsTypeOK
  <2>2. draft' = Merge(listReq) BY <1>4 DEF ListLands
  <2>3. draft' \in Table BY <2>1, <2>2, DraftAssumption DEF Merge, Table, DraftRowsTypeOK
  <2>4. RowsShowList' BY <2>1, <2>2, <1>4 DEF Merge, RowsShowList, ListLands
  <2> QED BY <1>4, <2>1, <2>3, <2>4, SettledKeeps DEF ListLands, DraftRowsTypeOK
<1>5. CASE ListFails BY <1>5, SettledKeeps DEF ListFails, DraftRowsTypeOK, RowsShowList
<1>6. ASSUME NEW r \in Rows, ToggleEdit(r) PROVE DraftInv'
  BY <1>6 DEF ToggleEdit, DraftRowsTypeOK, RowsShowList
<1>7. ASSUME NEW v \in Values, Edit(v) PROVE DraftInv'
  <2>1. listed # NoList /\ editing \in Rows BY <1>7, DraftAssumption DEF Edit
  <2>2. draft' \in Table BY <1>7, <2>1 DEF Edit, Table
  <2>3. \A r \in Rows \ dirty' : draft'[r] = draft[r] /\ r \notin dirty
    BY <1>7, <2>1 DEF Edit, Table
  <2> QED BY <1>7, <2>1, <2>2, <2>3 DEF Edit, DraftRowsTypeOK, RowsShowList
<1>8. ASSUME NEW s \in Saves, SaveRow(s) PROVE DraftInv'
  <2>1. listed # NoList /\ editing \in Rows BY <1>8, DraftAssumption DEF SaveRow
  <2>2. [row |-> editing, value |-> draft[editing], stage |-> "sent"] \in Posts
    BY <2>1 DEF Posts, Stages, Table
  <2> QED BY <1>8, <2>1, <2>2 DEF SaveRow, DraftRowsTypeOK, RowsShowList
<1>9. ASSUME NEW s \in Saves, SaveStored(s) PROVE DraftInv'
  <2>1. save[s] \in Posts /\ Settled(save)[s] \in Posts
    BY <1>9, SettledKeeps DEF SaveStored, DraftRowsTypeOK
  <2>2. stored' \in Table BY <1>9, <2>1 DEF SaveStored, DraftRowsTypeOK, Table, Posts
  <2>3. [Settled(save)[s] EXCEPT !.stage = "refetching"] \in Posts
    BY <2>1 DEF Posts, Stages
  <2>4. save' = [Settled(save) EXCEPT ![s] = [Settled(save)[s] EXCEPT !.stage = "refetching"]]
    BY <1>9 DEF SaveStored
  <2>5. save' \in [Saves -> Posts \cup {None}]
    BY <2>3, <2>4, SettledKeeps DEF DraftRowsTypeOK
  <2> QED BY <1>9, <2>2, <2>5, AskTypesRows DEF SaveStored, DraftRowsTypeOK, RowsShowList
<1>10. ASSUME NEW s \in Saves, SaveRefused(s) PROVE DraftInv'
  BY <1>10 DEF SaveRefused, DraftRowsTypeOK, RowsShowList
<1>11. ASSUME NEW s \in Saves, ResetDraft(s) PROVE DraftInv'
  <2>1. listed \in Table /\ draft \in Table /\ save[s].row \in Rows
    BY <1>11 DEF ResetDraft, DraftRowsTypeOK, Posts
  <2>2. draft' \in Table BY <1>11, <2>1 DEF ResetDraft, Table
  <2>3. \A r \in Rows : IF r = save[s].row THEN draft'[r] = listed[r] ELSE draft'[r] = draft[r]
    BY <1>11, <2>1 DEF ResetDraft, Table
  <2> QED BY <1>11, <2>1, <2>2, <2>3 DEF ResetDraft, DraftRowsTypeOK, RowsShowList
<1>12. CASE UNCHANGED draftVars
  BY <1>12 DEF draftVars, DraftRowsTypeOK, RowsShowList
<1> QED BY <1>1, <1>2, <1>3, <1>4, <1>5, <1>6, <1>7, <1>8, <1>9, <1>10, <1>11, <1>12
        DEF DraftRowsNext

\* A clean row shows the list, whatever order its saves and refetches came in
\* (useDraftSync: mergeDraft, resetDraft).
THEOREM CleanRowsShowList == WebSpec => []RowsShowList
<1>1. WebInit => DraftInv
  <2>1. DraftRowsInit => DraftInv
    BY DEF DraftRowsInit, DraftInv, DraftRowsTypeOK, RowsShowList
  <2> QED BY <2>1 DEF WebInit
<1>2. DraftInv /\ [WebNext]_webVars => DraftInv' BY PagesMove, DraftStep
<1>3. DraftInv => RowsShowList BY DEF DraftInv
<1> QED BY <1>1, <1>2, <1>3, PTL DEF WebSpec

\* Row r keeps its unsaved edits in this step, or its own form or save had a hand
\* in it.
RowKept(r) ==
  \/ r \in dirty' /\ (draft'[r] = draft[r] \/ editing = r)
  \/ \E s \in Saves : save[s] # None /\ save[s].row = r /\ save'[s] = None

LEMMA DirtyRowKept ==
  ASSUME DraftInv, [DraftRowsNext]_draftVars, NEW r \in dirty
  PROVE  RowKept(r)
<1> USE DEF DraftInv
<1>0. draft \in Table /\ r \in Rows BY DEF DraftRowsTypeOK
<1>1. CASE UNCHANGED <<draft, dirty>> BY <1>1 DEF RowKept
<1>2. CASE ListLands
  <2>1. draft' = Merge(listReq) /\ dirty' = dirty BY <1>2 DEF ListLands
  <2>2. draft'[r] = draft[r] BY <1>0, <2>1, DraftAssumption DEF Merge, DraftRowsTypeOK
  <2> QED BY <2>1, <2>2 DEF RowKept
<1>3. ASSUME NEW v \in Values, Edit(v) PROVE RowKept(r)
  <2>1. r \in dirty' /\ (editing # r => draft'[r] = draft[r]) BY <1>0, <1>3 DEF Edit, Table
  <2> QED BY <2>1 DEF RowKept
<1>4. ASSUME NEW s \in Saves, ResetDraft(s) PROVE RowKept(r)
  <2>1. CASE save[s].row = r
    <3>1. save'[s] = None /\ save[s] # None BY <1>4 DEF ResetDraft, DraftRowsTypeOK
    <3> QED BY <2>1, <3>1 DEF RowKept
  <2>2. CASE save[s].row # r
    <3>1. r \in dirty' /\ draft'[r] = draft[r] BY <1>0, <1>4, <2>2 DEF ResetDraft, Table
    <3> QED BY <3>1 DEF RowKept
  <2> QED BY <2>1, <2>2
<1> QED BY <1>1, <1>2, <1>3, <1>4
        DEF DraftRowsNext, draftVars, Elsewhere, Refetch, ListAnswered, ListFails,
            ToggleEdit, SaveRow, SaveStored, SaveRefused

\* Nothing but its own form and its own save touches a row with unsaved edits.
THEOREM DirtyRowsAreKept == WebSpec => OthersKeep
<1>1. WebInit => DraftInv
  <2>1. DraftRowsInit => DraftInv
    BY DEF DraftRowsInit, DraftInv, DraftRowsTypeOK, RowsShowList
  <2> QED BY <2>1 DEF WebInit
<1>2. DraftInv /\ [WebNext]_webVars => DraftInv' BY PagesMove, DraftStep
<1>3. DraftInv /\ [WebNext]_webVars => \A r \in dirty : RowKept(r)
  BY PagesMove, DirtyRowKept
<1>4. DraftInv /\ [WebNext]_webVars =>
        [\A r \in dirty :
           \/ r \in dirty' /\ (draft'[r] = draft[r] \/ editing = r)
           \/ \E s \in Saves : save[s] # None /\ save[s].row = r /\ save'[s] = None]_draftVars
  BY <1>3 DEF RowKept
<1> QED BY <1>1, <1>2, <1>4, PTL DEF WebSpec, OthersKeep

-----------------------------------------------------------------------------
(* Settings forms.                                                         *)

\* What a guarded form holds, sends and is answered has been on the server.
LoadedInv ==
  /\ Guarded => /\ Unloaded \notin {conf, seen, confReq}
                /\ (filled => form # Unloaded) /\ (seen # Nothing => filled)
                /\ \A p \in posts : p.value # Unloaded
  /\ \A p \in posts : p = [value |-> p.value, stage |-> p.stage]

LEMMA LoadedStep ==
  ASSUME LoadedInv, [ConfigFormsNext]_formVars
  PROVE  LoadedInv'
<1> USE FormsAssumption DEF LoadedInv, Guarded
<1>1. CASE ConfRefetch \/ ConfAnswered \/ ConfFails
  BY <1>1 DEF ConfRefetch, ConfAnswered, ConfFails, ConfAskAgain
<1>2. CASE ConfLands BY <1>2 DEF ConfLands, Fill
<1>3. ASSUME NEW v \in Settings, ConfElsewhere(v) \/ Type(v) PROVE LoadedInv'
  BY <1>3 DEF ConfElsewhere, Type
<1>4. CASE TypeOnce BY <1>4 DEF TypeOnce
<1>5. CASE Submit BY <1>5 DEF Submit, MaySave, Payload
<1>6. ASSUME NEW p \in posts, Stored(p) \/ Refused(p) PROVE LoadedInv'
  BY <1>6 DEF Stored, Refused, ConfAskAgain
<1>7. CASE UNCHANGED formVars BY <1>7 DEF formVars
<1> QED BY <1>1, <1>2, <1>3, <1>4, <1>5, <1>6, <1>7 DEF ConfigFormsNext

\* A form shown only after its data never overwrites the stored record with
\* fields that were not loaded (MalSection, the retention of SchedulesPage).
THEOREM OnlyLoadedIsStored == WebSpec => []LoadedBeforeStored
<1>1. WebInit => LoadedInv
  <2>1. ConfigFormsInit => LoadedInv
    BY FormsAssumption DEF ConfigFormsInit, LoadedInv
  <2> QED BY <2>1 DEF WebInit
<1>2. LoadedInv /\ [WebNext]_webVars => LoadedInv' BY PagesMove, LoadedStep
<1>3. LoadedInv => LoadedBeforeStored BY DEF LoadedInv, LoadedBeforeStored
<1> QED BY <1>1, <1>2, <1>3, PTL DEF WebSpec

-----------------------------------------------------------------------------
(* The check while typing, in the cron field and in the rule editor.       *)

\* A request that still counts is about the debounced text of a field that is
\* there; without one the verdict is about that text.
CheckInv ==
  /\ flights \subseteq [about : Texts, live : BOOLEAN]
  /\ \A f \in flights : f.live => mounted /\ f.about = due
  /\ mounted /\ (\A f \in flights : ~f.live) =>
       /\ verdict \in {Judge(due), "unknown"}
       /\ ~valid => due \in Bad
  /\ due \in Texts /\ text \in Texts

\* The rule editor's Save is disabled by a verdict on the rule it shows, and the
\* cron field is on another page.
EditorInv ==
  /\ VerdictOfThisRule
  /\ page = "cron" => ~Editing
  /\ CheckInv

LEMMA CancelledIsDead ==
  CheckInv => /\ Cancelled \subseteq [about : Texts, live : BOOLEAN]
              /\ \A f \in Cancelled : ~f.live
<1> SUFFICES ASSUME CheckInv, NEW g \in flights
             PROVE  LET f == [g EXCEPT !.live = FALSE]
                    IN f \in [about : Texts, live : BOOLEAN] /\ ~f.live
  BY DEF Cancelled
<1> QED BY DEF CheckInv

\* A new debounced text has one request that counts.
LEMMA FreshCheck ==
  ASSUME CheckInv, NEW t \in Texts, mounted' = TRUE, due' = t, text' \in Texts,
         \/ flights' = Cancelled \cup {[about |-> t, live |-> TRUE]}
         \/ flights' = Cancelled /\ verdict' = "unknown" /\ valid' = TRUE
  PROVE  CheckInv'
<1> DEFINE sent == [about |-> t, live |-> TRUE]
<1>1. sent \in [about : Texts, live : BOOLEAN] /\ sent.live /\ sent.about = t OBVIOUS
<1>2. CASE flights' = Cancelled \cup {sent}
  <2> HIDE DEF sent
  <2> QED BY <1>1, <1>2, CancelledIsDead DEF CheckInv
<1>3. CASE flights' = Cancelled /\ verdict' = "unknown" /\ valid' = TRUE
  BY <1>3, CancelledIsDead DEF CheckInv
<1> QED BY <1>2, <1>3

LEMMA UnmountedCheck ==
  ASSUME CheckInv, Unmount
  PROVE  CheckInv'
BY CancelledIsDead DEF CheckInv, Unmount

LEMMA HeardCheck ==
  ASSUME CheckInv, NEW f \in flights, Answered(f) \/ Lost(f)
  PROVE  CheckInv'
<1> USE DEF CheckInv, Answered, Lost, Hear
<1>1. CASE f.live
  <2>1. \A g \in flights' : g.live => mounted' /\ g.about = due' OBVIOUS
  <2>2. verdict' \in {Judge(due), "unknown"} /\ (~valid' => due \in Bad) /\ due' = due
    BY <1>1 DEF Judge
  <2> QED BY <2>1, <2>2 DEF Judge
<1>2. CASE ~f.live
  BY <1>2 DEF Judge
<1> QED BY <1>1, <1>2

LEMMA CheckStep ==
  ASSUME CheckInv, LiveCheckNext
  PROVE  CheckInv'
<1>1. ASSUME NEW t \in Texts, OpenField(t) PROVE CheckInv'
  BY <1>1, FreshCheck DEF OpenField, Mount, Check
<1>2. ASSUME NEW t \in Texts, TypeText(t) PROVE CheckInv'
  BY <1>2 DEF TypeText, CheckInv, Judge
<1>3. CASE CloseField BY <1>3, UnmountedCheck DEF CloseField
<1>4. CASE Debounce
  <2>1. text \in Texts /\ mounted' = mounted /\ mounted BY <1>4 DEF Debounce, CheckInv
  <2> QED BY <1>4, <2>1, FreshCheck DEF Debounce, Check
<1>5. ASSUME NEW f \in flights, Answered(f) \/ Lost(f) PROVE CheckInv'
  BY <1>5, HeardCheck
<1> QED BY <1>1, <1>2, <1>3, <1>4, <1>5 DEF LiveCheckNext

LEMMA CheckStutters == CheckInv /\ UNCHANGED checkVars => CheckInv'
BY DEF CheckInv, checkVars, Judge

LEMMA ShownPanel ==
  ASSUME CheckInv, NEW panel, panel.kind # "editor", Show(panel)
  PROVE  CheckInv' /\ ~Editing'
<1>1. ~Editing' BY DEF Show, Editing
<1> QED BY <1>1, UnmountedCheck, CheckStutters DEF Show

LEMMA OpenedEditor ==
  ASSUME CheckInv, NEW rule, NEW t \in Texts, OpenEditor(rule, t)
  PROVE  CheckInv' /\ valid' = TRUE
<1>1. valid' = TRUE BY DEF OpenEditor
<1>2. CASE sheet = sheet'
  <2>1. text' = t /\ UNCHANGED <<mounted, due, flights, verdict>> BY <1>2 DEF OpenEditor
  <2> QED BY <1>1, <2>1 DEF CheckInv, Judge
<1>3. CASE sheet # sheet'
  <2>1. /\ mounted' = TRUE /\ text' = t /\ due' = t
        /\ flights' = Cancelled \cup {[about |-> t, live |-> TRUE]}
    BY <1>3 DEF OpenEditor
  <2> QED BY <1>1, <2>1, FreshCheck
<1> QED BY <1>2, <1>3

LEMMA EditorStep ==
  ASSUME CheckInv, VerdictOfThisRule, RuleEditorNext
  PROVE  CheckInv' /\ VerdictOfThisRule'
<1> DEFINE Good == CheckInv' /\ VerdictOfThisRule'
<1> USE DEF VerdictOfThisRule
<1>1. CASE PickTemplate BY <1>1, ShownPanel DEF PickTemplate
<1>2. CASE CloseSheet BY <1>2, ShownPanel DEF CloseSheet, Closed
<1>3. ASSUME NEW rule \in Rules, ShowHistory(rule) PROVE Good
  BY <1>3, ShownPanel DEF ShowHistory
<1>4. ASSUME NEW t \in Texts, NEW rule, OpenEditor(rule, t) PROVE Good
  BY <1>4, OpenedEditor
<1>5. ASSUME NEW t \in Texts, EditDraft(t) PROVE Good
  BY <1>5 DEF EditDraft, TypeText, CheckInv, Judge, pageVars, Editing
<1>6. CASE EditorDebounce
  <2>1. text \in Texts /\ mounted' = mounted /\ mounted
    BY <1>6 DEF EditorDebounce, Debounce, CheckInv
  <2>2. CheckInv' BY <1>6, <2>1, FreshCheck DEF EditorDebounce, Debounce, Check
  <2>3. sheet' = sheet /\ judged' = judged /\ (valid' = TRUE \/ valid' = valid)
    BY <1>6 DEF EditorDebounce, Debounce, Check, pageVars
  <2> QED BY <2>2, <2>3 DEF Editing
<1>7. ASSUME NEW f \in flights, EditorHears(f) PROVE Good
  <2>1. CheckInv' BY <1>7, HeardCheck DEF EditorHears
  <2>2. sheet' = sheet BY <1>7 DEF EditorHears
  <2>3. CASE f.live BY <1>7, <2>1, <2>2, <2>3 DEF EditorHears
  <2>4. CASE ~f.live
    <3>1. valid' = valid /\ judged' = judged
      BY <1>7, <2>4 DEF EditorHears, Answered, Lost, Hear
    <3> QED BY <2>1, <2>2, <3>1 DEF Editing
  <2> QED BY <2>3, <2>4
<1>8. CASE SaveDraft BY <1>8, CheckStutters DEF SaveDraft, checkVars, Editing
<1>9. CASE SaveEnds
  <2>1. CASE Show(Closed) BY <2>1, ShownPanel DEF Closed
  <2>2. CASE UNCHANGED <<checkVars, sheet>>
    BY <1>9, <2>2, CheckStutters DEF SaveEnds, checkVars, Editing
  <2> QED BY <1>9, <2>1, <2>2 DEF SaveEnds
<1> QED BY <1>1, <1>2, <1>3, <1>4, <1>5, <1>6, <1>7, <1>8, <1>9
        DEF RuleEditorNext, UseTemplate, EditRow

LEMMA ChecksInvariance == WebSpec => []EditorInv
<1>1. WebInit => EditorInv
  <2>1. RuleEditorInit => VerdictOfThisRule /\ ~Editing /\ CheckInv
    BY TextsAssumption
       DEF RuleEditorInit, LiveCheckInit, Closed, VerdictOfThisRule, Editing, CheckInv
  <2> QED BY <2>1 DEF WebInit, EditorInv
<1>2. EditorInv /\ [WebNext]_webVars => EditorInv'
  <2> SUFFICES ASSUME EditorInv, [WebNext]_webVars PROVE EditorInv' OBVIOUS
  <2>1. CASE page = "rules" /\ RuleEditorNext /\ page' = page
    BY <2>1, EditorStep DEF EditorInv
  <2>2. CASE page = "cron" /\ LiveCheckNext /\ UNCHANGED <<pageVars, page>>
    <3>1. CheckInv' BY <2>2, CheckStep DEF EditorInv
    <3> QED BY <2>2, <3>1 DEF EditorInv, VerdictOfThisRule, Editing, pageVars
  <2>3. CASE UNCHANGED <<editorVars, page>>
    BY <2>3, CheckStutters
       DEF EditorInv, VerdictOfThisRule, Editing, editorVars, checkVars, pageVars
  <2> QED BY <2>1, <2>2, <2>3, PagesMove
<1> QED BY <1>1, <1>2, PTL DEF WebSpec

\* A settled field is judged by a verdict on its own text, in whatever order the
\* answers come (the cleanup of the effects in CronPreview and AutomationEditor).
THEOREM VerdictsSettle == WebSpec => []SettledVerdict
<1>1. EditorInv => SettledVerdict BY DEF EditorInv, CheckInv, SettledVerdict
<1> QED BY <1>1, ChecksInvariance, PTL

\* Save is disabled for the rule on the screen only by a verdict on it
\* (AutomationsPage: openEditor resets the validity).
THEOREM VerdictsBelongToRules == WebSpec => []VerdictOfThisRule
<1>1. EditorInv => VerdictOfThisRule BY DEF EditorInv
<1> QED BY <1>1, ChecksInvariance, PTL

-----------------------------------------------------------------------------
(* Saved views.                                                            *)

\* An answer under way is the server's list, unless that was changed elsewhere.
ViewsInv ==
  /\ server \in Known
  /\ \A p \in sending : p.next \in Lists
  /\ cache \in Known /\ local \in Lists
  /\ viewReq \notin {NoRequest, ViewsAsked} /\ ~behind => viewReq = server
  /\ viewReq \in Known \cup {NoRequest, ViewsAsked}
  /\ \A p \in sending : p.before \in Known
  /\ SettlesOnServer

LEMMA MutateKeeps ==
  ASSUME ViewsInv, NEW next \in Lists, Mutate(next)
  PROVE  ViewsInv'
<1> DEFINE one == [next |-> next, before |-> cache, had |-> loaded]
<1>1. /\ sending' = sending \cup {one} /\ viewReq' = NoRequest /\ cache' = next
      /\ UNCHANGED <<server, local>>
  BY DEF Mutate
<1>2. one.next \in Lists /\ one.before \in Known BY DEF ViewsInv
<1> HIDE DEF one
<1> QED BY <1>1, <1>2 DEF ViewsInv, SettlesOnServer, Known

LEMMA ViewsStep ==
  ASSUME ViewsInv, [SavedViewsNext]_viewVars
  PROVE  ViewsInv'
<1> USE ListsAssumption DEF ViewsInv
<1>1. ASSUME NEW n \in Names, SaveView(n) \/ DeleteView(n) PROVE ViewsInv'
  <2>1. CASE cache # NoViews
    BY <1>1, <2>1, MutateKeeps DEF SaveView, DeleteView, Current, Lists, Known
  <2>2. CASE cache = NoViews
    BY <1>1, <2>2, MutateKeeps DEF SaveView, DeleteView, Current, Lists
  <2> QED BY <2>1, <2>2
<1>2. CASE Migrate BY <1>2, MutateKeeps DEF Migrate, SettlesOnServer
<1>3. CASE ViewsAnswered
  <2>1. NoRequest \notin Known BY DEF Known, Lists
  <2> QED BY <1>3, <2>1 DEF ViewsAnswered, SettlesOnServer
<1>4. CASE ViewsLand
  BY <1>4 DEF ViewsLand, SetCache, SettlesOnServer, Known
<1>5. CASE ViewsFail BY <1>5 DEF ViewsFail, SettlesOnServer
<1>6. CASE Reopen BY <1>6 DEF Reopen, SettlesOnServer, Known
<1>7. ASSUME NEW p \in sending, ViewsStored(p) PROVE ViewsInv'
  BY <1>7 DEF ViewsStored, SettlesOnServer, Known
<1>8. ASSUME NEW p \in sending, ViewsLost(p) PROVE ViewsInv'
  BY <1>8 DEF ViewsLost, SetCache, SettlesOnServer, Known
<1>9. ASSUME NEW l \in Lists, ViewsElsewhere(l) PROVE ViewsInv'
  BY <1>9 DEF ViewsElsewhere, SettlesOnServer, Known
<1>10. CASE UNCHANGED viewVars BY <1>10 DEF viewVars, SettlesOnServer
<1> QED BY <1>1, <1>2, <1>3, <1>4, <1>5, <1>6, <1>7, <1>8, <1>9, <1>10 DEF SavedViewsNext

\* Optimistic lists, rollbacks and late answers end in the server's list
\* (onMutate, onError and onSettled of SavedViews).
THEOREM ViewsSettle == WebSpec => []SettlesOnServer
<1>1. WebInit => ViewsInv
  <2>1. SavedViewsInit => ViewsInv
    BY ListsAssumption DEF SavedViewsInit, ViewsInv, SettlesOnServer, Known, Lists
  <2> QED BY <2>1 DEF WebInit
<1>2. ViewsInv /\ [WebNext]_webVars => ViewsInv' BY PagesMove, ViewsStep
<1>3. ViewsInv => SettlesOnServer BY DEF ViewsInv
<1> QED BY <1>1, <1>2, <1>3, PTL DEF WebSpec

-----------------------------------------------------------------------------
(* Actions that ask.                                                       *)

\* What is in the dialog was typed into the open question, which holds the boxes
\* that are ticked.
DialogInv ==
  /\ IF request = NoQuestion THEN typed = "" ELSE typed = entered
  /\ request # NoQuestion => request.boxes = ticked

\* What an action that starts in this step was asked with.
StartsRight ==
  \A a \in Started :
    /\ a.kind \in DOMAIN Phrase => entered = Phrase[a.kind]
    /\ a.kind = "clear_stuck" => a.clears = Clears(ticked)

LEMMA Launched ==
  ASSUME NEW kind, NEW clears, Launch(kind, clears)
  PROVE  \A a \in Started : a.kind = kind /\ a.clears = clears
<1> DEFINE one == [kind |-> kind, clears |-> clears]
<1>1. one.kind = kind /\ one.clears = clears OBVIOUS
<1>2. running' = running \cup {one} BY DEF Launch
<1> HIDE DEF one
<1> QED BY <1>1, <1>2 DEF Started

LEMMA DialogStep ==
  ASSUME DialogInv, [ManualNext]_manualVars
  PROVE  DialogInv' /\ StartsRight
<1> DEFINE Good == DialogInv' /\ StartsRight
<1> USE DEF DialogInv, StartsRight
<1>1. ASSUME NEW box \in Boxes, Tick(box) PROVE Good BY <1>1 DEF Tick, Started
<1>2. ASSUME NEW kind \in Direct, RunDirect(kind) PROVE Good
  <2>1. \A a \in Started : a.kind = "sync" BY <1>2, Launched DEF RunDirect, Direct
  <2> QED BY <1>2, <2>1 DEF RunDirect, Phrase
<1>3. ASSUME NEW kind \in Questions, Ask(kind) PROVE Good BY <1>3 DEF Ask, Started
<1>4. ASSUME NEW v \in Written, WritePolicy(v) PROVE Good BY <1>4 DEF WritePolicy, Started
<1>5. CASE SavePolicy
  <2>1. \A a \in Started : a.kind = "save_policy" BY <1>5, Launched DEF SavePolicy
  <2> QED BY <1>5, <2>1 DEF SavePolicy, Phrase
<1>6. ASSUME NEW kind \in DOMAIN Phrase, Typing(Phrase[kind]) PROVE Good
  BY <1>6 DEF Typing, Started
<1>7. CASE Confirm
  <2> DEFINE clears == IF request.kind = "clear_stuck" THEN Clears(request.boxes) ELSE {}
  <2>0. Launch(request.kind, clears) BY <1>7, Zenon DEF Confirm
  <2>1. /\ request # NoQuestion /\ PhraseOk
        /\ request' = NoQuestion /\ typed' = "" /\ UNCHANGED <<ticked, entered>>
    <3> HIDE DEF DialogInv, StartsRight
    <3> QED BY <1>7 DEF Confirm, CloseDialog
  <2>2. \A a \in Started : a.kind = request.kind /\ a.clears = clears
    <3> HIDE DEF clears, DialogInv, StartsRight
    <3> QED BY <2>0, Launched
  <2> QED BY <2>1, <2>2 DEF PhraseOk
<1>8. CASE Dismiss BY <1>8 DEF Dismiss, CloseDialog, Started
<1>9. ASSUME NEW a \in running, ActionEnds(a) PROVE Good BY <1>9 DEF ActionEnds, Started
<1>10. CASE UNCHANGED manualVars BY <1>10 DEF manualVars, Started
<1> QED BY <1>1, <1>2, <1>3, <1>4, <1>5, <1>6, <1>7, <1>8, <1>9, <1>10 DEF ManualNext

LEMMA DialogInvariance == WebSpec => []DialogInv /\ [][StartsRight]_manualVars
<1>1. WebInit => DialogInv
  <2>1. ManualInit => DialogInv BY DEF ManualInit, DialogInv
  <2> QED BY <2>1 DEF WebInit
<1>2. DialogInv /\ [WebNext]_webVars => DialogInv' /\ [StartsRight]_manualVars
  BY PagesMove, DialogStep
<1> QED BY <1>1, <1>2, PTL DEF WebSpec

\* A reset and a clearing run only after their own phrase was typed into their own
\* question (ConfirmDialog).
THEOREM ResetsAreTyped == WebSpec => EachResetIsTyped
<1>1. [StartsRight]_manualVars =>
        [\A a \in Started : a.kind \in DOMAIN Phrase => entered = Phrase[a.kind]]_manualVars
  BY DEF StartsRight
<1> QED BY <1>1, DialogInvariance, PTL DEF EachResetIsTyped

\* The clearing does what is ticked when it starts, though its callback was made
\* when it was asked for (SyncQueuePage: clear stuck).
THEOREM ClearingIsTicked == WebSpec => ClearsWhatIsTicked
<1>1. [StartsRight]_manualVars =>
        [\A a \in Started : a.kind = "clear_stuck" => a.clears = Clears(ticked)]_manualVars
  BY DEF StartsRight
<1> QED BY <1>1, DialogInvariance, PTL DEF ClearsWhatIsTicked

-----------------------------------------------------------------------------
(* The wizard's form.                                                      *)

\* While the form is under way no box changes, so what is to be synchronised is
\* not skipped.
PostInv ==
  /\ post \in [kind : {"none", "wizard", "sync"}, urls : SUBSET Apps, sources : SUBSET Apps]
  /\ picked \subseteq Apps
  /\ post.kind = "wizard" => post.sources \cap skipped = {}
  /\ SyncsWhatItStored

LEMMA NoPostType ==
  /\ NoPost \in [kind : {"none", "wizard", "sync"}, urls : SUBSET Apps, sources : SUBSET Apps]
  /\ NoPost.kind = "none"
BY DEF NoPost

LEMMA PostStep ==
  ASSUME PostInv, [SetupFormNext]_setupVars
  PROVE  PostInv'
<1> USE DEF PostInv, SyncsWhatItStored
<1>1. ASSUME NEW p, PayloadLands(p) PROVE PostInv' BY <1>1 DEF PayloadLands
<1>2. ASSUME NEW f \in Fields, NEW v, TypeField(f, v) PROVE PostInv'
  BY <1>2 DEF TypeField
<1>3. ASSUME NEW a \in Apps, SkipApp(a) \/ PickApp(a) PROVE PostInv'
  BY <1>3, NoPostType DEF SkipApp, PickApp, Idle, Flip
<1>4. CASE AskSync BY <1>4 DEF AskSync
<1>5. CASE SubmitForm BY <1>5 DEF SubmitForm, Sources
<1>6. CASE FormStored
  <2>1. configured' = configured \cup post.urls /\ UNCHANGED <<skipped, picked>>
        /\ post.sources \subseteq post.urls
    BY <1>6 DEF FormStored
  <2>2. CASE post' = NoPost BY <2>1, <2>2, NoPostType
  <2>3. CASE post' = [post EXCEPT !.kind = "sync"] BY <2>1, <2>3
  <2> QED BY <1>6, <2>2, <2>3 DEF FormStored
<1>7. CASE PostFails BY <1>7, NoPostType DEF PostFails
<1>8. CASE SyncStarted BY <1>8, NoPostType DEF SyncStarted
<1>9. CASE UNCHANGED setupVars BY <1>9 DEF setupVars
<1> QED BY <1>1, <1>2, <1>3, <1>4, <1>5, <1>6, <1>7, <1>8, <1>9 DEF SetupFormNext

\* The initial sync starts only what the wizard has just stored (SetupPage:
\* setupSources).
THEOREM WizardSyncsStored == WebSpec => []SyncsWhatItStored
<1>1. WebInit => PostInv
  <2>1. SetupFormInit => PostInv
    BY NoPostType DEF SetupFormInit, PostInv, SyncsWhatItStored
  <2> QED BY <2>1 DEF WebInit
<1>2. PostInv /\ [WebNext]_webVars => PostInv' BY PagesMove, PostStep
<1>3. PostInv => SyncsWhatItStored BY DEF PostInv
<1> QED BY <1>1, <1>2, <1>3, PTL DEF WebSpec

-----------------------------------------------------------------------------
(* The authentication section.                                             *)

TokenCall(c) == calls[c] # NoCall /\ calls[c].op \in TokenOps

\* The token on the screen is the server's, or the answer of the token call under
\* way will change it; the tab is signed in, or a password call will do so.
TokenInv ==
  /\ calls \in [AuthCalls -> Call \cup {NoCall}]
  /\ made \in 0 .. MaxTokens
  /\ ~spoiled =>
       /\ \A c, d \in AuthCalls : TokenCall(c) /\ TokenCall(d) => c = d
       /\ \A c \in AuthCalls : At(c, "stored") =>
            /\ calls[c].op = "rotate" => calls[c].got = token
            /\ calls[c].op = "revoke" => token = 0
       /\ issued \in {0, token} \/ \E c \in AuthCalls : TokenCall(c) /\ At(c, "stored")
       /\ \/ guarded => signedIn
          \/ \E c \in AuthCalls :
               calls[c] # NoCall /\ calls[c].op = "password" /\ calls[c].at \in {"stored", "login"}

LEMMA CallGoesOn ==
  ASSUME TokenInv, NEW c \in AuthCalls, calls[c] # NoCall, NEW step \in CallSteps,
         NEW got \in 0 .. MaxTokens, To(c, step, got)
  PROVE  /\ calls' \in [AuthCalls -> Call \cup {NoCall}]
         /\ calls'[c] # NoCall /\ calls'[c].op = calls[c].op
         /\ calls'[c].at = step /\ calls'[c].got = got
         /\ \A d \in AuthCalls \ {c} : calls'[d] = calls[d]
<1>1. calls[c] \in Call BY DEF TokenInv
<1> DEFINE moved == [calls[c] EXCEPT !.at = step, !.got = got]
<1>2. moved \in Call /\ moved.op = calls[c].op /\ moved.at = step /\ moved.got = got
  BY <1>1 DEF Call
<1>3. calls' = [calls EXCEPT ![c] = moved] BY DEF To
<1> HIDE DEF moved
<1> QED BY <1>2, <1>3, AuthAssumption DEF TokenInv

LEMMA CallIsOver ==
  ASSUME TokenInv, NEW c \in AuthCalls, Over(c)
  PROVE  /\ calls' \in [AuthCalls -> Call \cup {NoCall}] /\ calls'[c] = NoCall
         /\ \A d \in AuthCalls \ {c} : calls'[d] = calls[d]
BY DEF TokenInv, Over

\* The server has stored the only token call, whose answer is the new token.
LEMMA StoredToken ==
  ASSUME TokenInv, NEW c \in AuthCalls, calls[c] # NoCall, calls[c].at = "sent",
         calls' \in [AuthCalls -> Call \cup {NoCall}], calls'[c] # NoCall,
         calls'[c].op \in TokenOps, calls'[c].at = "stored", calls'[c].got = token',
         calls'[c].op = "revoke" => token' = 0,
         \A d \in AuthCalls \ {c} : calls'[d] = calls[d],
         ~spoiled => \A d \in AuthCalls \ {c} : ~TokenCall(d),
         made' \in 0 .. MaxTokens, UNCHANGED <<guarded, signedIn, spoiled>>
  PROVE  TokenInv'
<1>1. TokenCall(c)' /\ At(c, "stored")' BY DEF TokenCall, At
<1>2. ~spoiled => \A d \in AuthCalls \ {c} : ~TokenCall(d)' BY DEF TokenCall
<1>3. ~spoiled => \A d \in AuthCalls \ {c} :
        At(d, "stored")' => calls'[d].op \notin TokenOps
  BY <1>2 DEF TokenCall, At
<1>4. ~spoiled => (guarded => signedIn) \/
         \E d \in AuthCalls : /\ calls'[d] # NoCall /\ calls'[d].op = "password"
                              /\ calls'[d].at \in {"stored", "login"}
  BY DEF TokenInv
<1> QED BY <1>1, <1>2, <1>3, <1>4 DEF TokenInv, TokenOps

LEMMA TokenStep ==
  ASSUME TokenInv, [AuthNext]_authVars
  PROVE  TokenInv'
<1>1. ASSUME NEW f \in PasswordFields, TypePassword(f) PROVE TokenInv'
  BY <1>1 DEF TypePassword, TokenInv, TokenCall, At
<1>2. ASSUME NEW c \in AuthCalls, NEW op \in Ops, Press(c, op) PROVE TokenInv'
  <2> DEFINE one == [op |-> op, at |-> "sent", got |-> 0]
  <2>1. one \in Call /\ one.op = op /\ one.at = "sent"
    BY AuthAssumption DEF Call, CallSteps
  <2>2. /\ calls[c] = NoCall /\ calls' = [calls EXCEPT ![c] = one]
        /\ spoiled' = (spoiled \/ (op \in TokenOps /\ TokenCallBeside(c)))
        /\ UNCHANGED <<token, made, guarded, signedIn, issued>>
    BY <1>2 DEF Press
  <2> HIDE DEF one
  <2>3. calls' \in [AuthCalls -> Call \cup {NoCall}] /\ calls'[c] = one
        /\ \A d \in AuthCalls \ {c} : calls'[d] = calls[d]
    BY <2>1, <2>2 DEF TokenInv
  <2>4. ~spoiled' => ~spoiled /\ (op \in TokenOps => \A d \in AuthCalls \ {c} : ~TokenCall(d))
    BY <2>2 DEF TokenCallBeside, TokenCall
  <2> QED BY <2>1, <2>2, <2>3, <2>4 DEF TokenInv, TokenCall, At
<1>3. ASSUME NEW c \in AuthCalls, StoreAuth(c) PROVE TokenInv'
  <2>1. calls[c] # NoCall /\ calls[c] \in Call /\ calls[c].at = "sent"
        /\ UNCHANGED <<issued, spoiled>>
    BY <1>3 DEF StoreAuth, At, TokenInv
  <2>2. CASE calls[c].op = "rotate"
    <3>1. made' = made + 1 /\ token' = made + 1 /\ made + 1 \in 0 .. MaxTokens
          /\ To(c, "stored", made + 1) /\ UNCHANGED <<guarded, signedIn>>
      BY <1>3, <2>2, AuthAssumption DEF StoreAuth, TokenInv
    <3> HIDE DEF To
    <3>2. TokenCall(c) BY <2>1, <2>2 DEF TokenCall, TokenOps
    <3>3. /\ calls' \in [AuthCalls -> Call \cup {NoCall}]
          /\ calls'[c] # NoCall /\ calls'[c].op = "rotate"
          /\ calls'[c].at = "stored" /\ calls'[c].got = token'
          /\ \A d \in AuthCalls \ {c} : calls'[d] = calls[d]
      BY <2>1, <2>2, <3>1, CallGoesOn DEF CallSteps
    <3>4. ~spoiled => \A d \in AuthCalls \ {c} : ~TokenCall(d) BY <3>2 DEF TokenInv
    <3> QED BY <2>1, <3>1, <3>3, <3>4, StoredToken DEF TokenOps
  <2>3. CASE calls[c].op = "revoke"
    <3>1. token' = 0 /\ To(c, "stored", 0) /\ UNCHANGED <<made, guarded, signedIn>>
      BY <1>3, <2>3 DEF StoreAuth
    <3>2. TokenCall(c) BY <2>1, <2>3 DEF TokenCall, TokenOps
    <3>3. /\ calls' \in [AuthCalls -> Call \cup {NoCall}]
          /\ calls'[c] # NoCall /\ calls'[c].op = "revoke"
          /\ calls'[c].at = "stored" /\ calls'[c].got = 0
          /\ \A d \in AuthCalls \ {c} : calls'[d] = calls[d]
      BY <2>1, <2>3, <3>1, CallGoesOn, AuthAssumption DEF CallSteps
    <3>4. ~spoiled => \A d \in AuthCalls \ {c} : ~TokenCall(d) BY <3>2 DEF TokenInv
    <3> QED BY <2>1, <3>1, <3>3, <3>4, StoredToken DEF TokenInv, TokenOps
  <2>4. CASE calls[c].op = "password"
    <3>1. signedIn' = FALSE /\ To(c, "stored", 0) /\ UNCHANGED <<token, made>>
      BY <1>3, <2>4 DEF StoreAuth
    <3> QED BY <2>1, <2>4, <3>1, CallGoesOn, AuthAssumption
            DEF TokenInv, TokenCall, At, CallSteps, TokenOps
  <2>5. CASE calls[c].op = "disable"
    <3>1. guarded' = FALSE /\ To(c, "stored", 0) /\ UNCHANGED <<token, made, signedIn>>
      BY <1>3, <2>5 DEF StoreAuth
    <3> QED BY <2>1, <2>5, <3>1, CallGoesOn, AuthAssumption
            DEF TokenInv, TokenCall, At, CallSteps, TokenOps
  <2> QED BY <2>1, <2>2, <2>3, <2>4, <2>5 DEF Call, Ops, TokenOps
<1>4. ASSUME NEW c \in AuthCalls, AnswerAuth(c) PROVE TokenInv'
  <2> DEFINE after == IF calls[c].op = "password" THEN "login" ELSE "status"
  <2>1. calls[c] # NoCall /\ calls[c] \in Call /\ calls[c].at = "stored"
        /\ UNCHANGED <<token, made, guarded, signedIn, spoiled>>
    BY <1>4 DEF AnswerAuth, At, TokenInv
  <2>2. issued' = Issued(calls[c]) /\ To(c, after, 0) BY <1>4 DEF AnswerAuth
  <2>3. /\ calls' \in [AuthCalls -> Call \cup {NoCall}]
        /\ calls'[c] # NoCall /\ calls'[c].op = calls[c].op /\ calls'[c].at = after
        /\ \A d \in AuthCalls \ {c} : calls'[d] = calls[d]
    BY <2>1, <2>2, CallGoesOn, AuthAssumption DEF CallSteps
  <2>4. ~spoiled /\ TokenCall(c) => issued' \in {0, token}
    BY <2>1, <2>2 DEF TokenInv, TokenCall, TokenOps, At, Issued
  <2>5. ~TokenCall(c) => issued' = issued
    BY <2>1, <2>2 DEF TokenCall, TokenOps, Issued
  <2>6. ~spoiled => issued' \in {0, token}
                    \/ \E d \in AuthCalls \ {c} : TokenCall(d) /\ At(d, "stored")
    BY <2>1, <2>4, <2>5 DEF TokenInv
  <2> QED BY <2>1, <2>3, <2>6 DEF TokenInv, TokenCall, At
<1>5. ASSUME NEW c \in AuthCalls, LogInAgain(c) PROVE TokenInv'
  <2>1. calls[c] # NoCall /\ calls[c].at = "login" /\ signedIn' = TRUE /\ To(c, "status", 0)
        /\ UNCHANGED <<token, made, guarded, issued, spoiled>>
    BY <1>5 DEF LogInAgain, At
  <2> QED BY <2>1, CallGoesOn, AuthAssumption DEF TokenInv, TokenCall, At, CallSteps
<1>6. ASSUME NEW c \in AuthCalls, AuthFails(c) PROVE TokenInv'
  <2>1. calls[c] # NoCall /\ calls[c] \in Call BY <1>6 DEF AuthFails, TokenInv
  <2>2. ~spoiled' => ~spoiled /\ (calls[c].at = "sent" \/ calls[c].op = "disable")
    BY <1>6 DEF AuthFails
  <2>3. UNCHANGED <<token, made, guarded, signedIn, issued>> /\ Over(c)
    BY <1>6 DEF AuthFails
  <2> QED BY <2>1, <2>2, <2>3, CallIsOver DEF TokenInv, TokenCall, At, TokenOps
<1>7. CASE ReadStatus
  <2>1. UNCHANGED <<token, made, guarded, signedIn, issued, spoiled>> BY <1>7 DEF ReadStatus
  <2>2. CASE UNCHANGED calls BY <2>1, <2>2 DEF TokenInv, TokenCall, At
  <2>3. ASSUME NEW c \in AuthCalls, At(c, "status"), Over(c) PROVE TokenInv'
    BY <2>1, <2>3, CallIsOver DEF TokenInv, TokenCall, At
  <2> QED BY <1>7, <2>2, <2>3 DEF ReadStatus
<1>8. CASE UNCHANGED authVars BY <1>8 DEF authVars, TokenInv, TokenCall, At
<1> QED BY <1>1, <1>2, <1>3, <1>4, <1>5, <1>6, <1>7, <1>8
        DEF AuthNext, SavePassword, RotateToken, RevokeToken, DisableAuth, Ops, TokenOps

\* When no call is under way, the token on the screen is the server's and the tab
\* is signed in when it has to be (AuthSection).
THEOREM SectionKeepsAccess == WebSpec => []SectionLeavesAccess
<1>1. WebInit => TokenInv
  <2>1. AuthInit => TokenInv
    BY AuthAssumption DEF AuthInit, TokenInv, TokenCall, At
  <2> QED BY <2>1 DEF WebInit
<1>2. TokenInv /\ [WebNext]_webVars => TokenInv' BY PagesMove, TokenStep
<1>3. TokenInv => SectionLeavesAccess BY DEF TokenInv, SectionLeavesAccess, CallsOver, At, TokenCall
<1> QED BY <1>1, <1>2, <1>3, PTL DEF WebSpec

-----------------------------------------------------------------------------
(* The sentence.                                                           *)

LEMMA FineFiles ==
  ASSUME NEW i \in Library
  PROVE  /\ i.kind \in {"movies", "series"} /\ i.files \in SUBSET Files /\ i.files # {}
         /\ i.kind = "movies" => \E f \in Files : i.files = {f}
BY DEF Library, Items

LEMMA SelectsAsItSays ==
  ASSUME Valid, params.media \in {"movies", "series"}, ~params.gate, NEW i \in Library
  PROVE  LooksAt(i) <=> Selects(i)
<1>1. i.kind \in {"movies", "series"} BY FineFiles
<1>2. params.media = "movies" => params.statuses = {} BY DEF Valid
<1> QED BY <1>1, <1>2 DEF LooksAt, Selects

\* The sentence of any draft about one kind of media names what the run selects:
\* the phrases of automationSummary against the queries of automation_rules.
LEMMA TypedSentencesFit == RuleDraftTypeOK => SentenceFits
<1> SUFFICES ASSUME RuleDraftTypeOK, Valid, params.media # "both", ~params.gate,
                    NEW a \in Acts, NEW i \in Library
             PROVE  Says(a, i) <=> Does(a, i)
  BY DEF SentenceFits
<1>1. params.media \in {"movies", "series"} BY DEF RuleDraftTypeOK
<1>2. PICK k \in DOMAIN params.actions : a = params.actions[k] BY DEF Acts
<1>3. a \in [type : Types, when : Whens]
  <2> DEFINE S == [type : Types, when : Whens]
  <2>1. params.actions \in Seq(S) BY DEF RuleDraftTypeOK
  <2> HIDE DEF S
  <2>2. a \in S BY <1>2, <2>1
  <2> QED BY <2>2 DEF S
<1>4. a.type \in Types /\ a.when \in Whens BY <1>3
<1>5. ~params.fresh BY DEF Valid
<1>6. a.type \in Searches => a.when = "non_conforming" BY <1>2 DEF Valid
<1>7. a.type = "search_upgrade" => params.strict BY <1>2 DEF Valid, Has
<1>8. LooksAt(i) => i.kind = params.media BY <1>1 DEF LooksAt
<1>9. LooksAt(i) <=> Selects(i) BY <1>1, SelectsAsItSays
<1>10. "missing" \in i.files => ~AllFine(i) BY DEF AllFine, Fine
<1>11. CASE a.type = "search_missing"
  BY <1>5, <1>6, <1>9, <1>10, <1>11 DEF Says, Does, Condition, Concerns, Searches
<1>12. CASE a.type = "search_upgrade"
  <2>1. /\ ~Fine("below")
        /\ (\E f \in i.files \ {"missing"} : ~Fine(f)) <=> "below" \in i.files
    BY <1>7, <1>12, FineFiles DEF Fine, Files
  <2>2. "below" \in i.files => ~AllFine(i) BY <2>1 DEF AllFine
  <2> QED BY <1>5, <1>6, <1>9, <1>12, <2>1, <2>2 DEF Says, Does, Condition, Concerns, Searches
<1>13. CASE a.type \in {"tag", "set_monitored"}
  <2>1. LooksAt(i) => (Condition("conforming", i) <=> AllFine(i))
    BY <1>1, <1>8, FineFiles DEF Condition, AllFine
  <2>2. Condition("non_conforming", i) <=> ~AllFine(i) BY DEF Condition
  <2>3. LooksAt(i) => (Condition(a.when, i) <=> (AllFine(i) <=> a.when = "conforming"))
    BY <1>4, <2>1, <2>2 DEF Whens
  <2> QED BY <1>5, <1>9, <1>13, <2>3 DEF Says, Does, Concerns, Searches
<1> QED BY <1>4, <1>11, <1>12, <1>13 DEF Types, Searches

-----------------------------------------------------------------------------
(* The types of the pages that edit.                                       *)

LEMMA FormTypes == ConfigFormsTypeOK /\ [ConfigFormsNext]_formVars => ConfigFormsTypeOK'
<1> SUFFICES ASSUME ConfigFormsTypeOK, [ConfigFormsNext]_formVars PROVE ConfigFormsTypeOK'
  OBVIOUS
<1> USE DEF ConfigFormsTypeOK
<1>1. CASE ConfRefetch \/ ConfAnswered \/ ConfFails
  BY <1>1 DEF ConfRefetch, ConfAnswered, ConfFails, ConfAskAgain
<1>2. CASE ConfLands BY <1>2 DEF ConfLands, Fill
<1>3. ASSUME NEW v \in Settings, ConfElsewhere(v) \/ Type(v) PROVE ConfigFormsTypeOK'
  BY <1>3 DEF ConfElsewhere, Type
<1>4. CASE TypeOnce BY <1>4 DEF TypeOnce
<1>5. CASE Submit BY <1>5 DEF Submit, Payload
<1>6. ASSUME NEW p \in posts, Stored(p) PROVE ConfigFormsTypeOK'
  <2>1. [p EXCEPT !.stage = "refetching"] \in [value : Settings \cup {Unloaded, Nothing},
                                              stage : {"sent", "refetching"}]
    OBVIOUS
  <2>2. conf' \in Settings \cup {Unloaded} BY <1>6 DEF Stored
  <2> QED BY <1>6, <2>1, <2>2 DEF Stored, ConfAskAgain
<1>7. ASSUME NEW p \in posts, Refused(p) PROVE ConfigFormsTypeOK' BY <1>7 DEF Refused
<1>8. CASE UNCHANGED formVars BY <1>8 DEF formVars
<1> QED BY <1>1, <1>2, <1>3, <1>4, <1>5, <1>6, <1>7, <1>8 DEF ConfigFormsNext

LEMMA CancelledType ==
  LiveCheckTypeOK => Cancelled \in SUBSET [about : Texts, live : BOOLEAN]
<1> SUFFICES ASSUME LiveCheckTypeOK, NEW f \in flights
             PROVE  [f EXCEPT !.live = FALSE] \in [about : Texts, live : BOOLEAN]
  BY DEF Cancelled
<1> QED BY DEF LiveCheckTypeOK

\* A check of text t, an end of the field, and an answer.
LEMMA CheckedType ==
  ASSUME LiveCheckTypeOK, NEW t \in Texts, Check(t)
  PROVE  /\ flights' \in SUBSET [about : Texts, live : BOOLEAN]
         /\ verdict' \in {"good", "bad", "unknown"} /\ valid' \in BOOLEAN
<1>1. [about |-> t, live |-> TRUE] \in [about : Texts, live : BOOLEAN] OBVIOUS
<1> QED BY <1>1, CancelledType DEF Check, LiveCheckTypeOK

LEMMA UnmountType == LiveCheckTypeOK /\ Unmount => LiveCheckTypeOK'
BY CancelledType DEF Unmount, LiveCheckTypeOK

LEMMA HeardType ==
  ASSUME LiveCheckTypeOK, NEW f \in flights, Answered(f) \/ Lost(f)
  PROVE  LiveCheckTypeOK'
BY DEF Answered, Lost, Hear, Judge, LiveCheckTypeOK

LEMMA CheckTypes == LiveCheckTypeOK /\ LiveCheckNext => LiveCheckTypeOK'
<1> SUFFICES ASSUME LiveCheckTypeOK, LiveCheckNext PROVE LiveCheckTypeOK' OBVIOUS
<1>1. ASSUME NEW t \in Texts, OpenField(t) PROVE LiveCheckTypeOK'
  BY <1>1, CheckedType DEF OpenField, Mount, LiveCheckTypeOK
<1>2. ASSUME NEW t \in Texts, TypeText(t) PROVE LiveCheckTypeOK'
  BY <1>2 DEF TypeText, LiveCheckTypeOK
<1>3. CASE CloseField BY <1>3, UnmountType DEF CloseField
<1>4. CASE Debounce
  <2>1. text \in Texts BY DEF LiveCheckTypeOK
  <2> QED BY <1>4, <2>1, CheckedType DEF Debounce, LiveCheckTypeOK
<1>5. ASSUME NEW f \in flights, Answered(f) \/ Lost(f) PROVE LiveCheckTypeOK'
  BY <1>5, HeardType
<1> QED BY <1>1, <1>2, <1>3, <1>4, <1>5 DEF LiveCheckNext

\* The editor is open on a rule.
EditorTyped == RuleEditorTypeOK /\ (Editing => sheet.rule \in Drafts)

LEMMA ShownTypes ==
  ASSUME EditorTyped, NEW panel, Show(panel), panel.kind \in {"none", "template", "history"},
         panel \in [kind : {"none", "template", "history", "editor"}, rule : Drafts \cup {Nowhere}],
         saving' \in [rule : Drafts, text : Texts] \cup {Nowhere},
         judged' \in Drafts \cup {Nowhere}
  PROVE  EditorTyped'
<1>1. sheet' = panel /\ ~Editing' BY DEF Show, Editing
<1>2. CASE Editing
  <2>1. Unmount BY <1>2 DEF Show
  <2>2. LiveCheckTypeOK' /\ mounted' = FALSE
    BY <2>1, UnmountType DEF EditorTyped, RuleEditorTypeOK, Unmount
  <2> QED BY <1>1, <2>2 DEF EditorTyped, RuleEditorTypeOK
<1>3. CASE ~Editing
  <2>1. UNCHANGED checkVars /\ mounted = FALSE
    BY <1>3 DEF Show, EditorTyped, RuleEditorTypeOK, LiveCheckTypeOK
  <2> QED BY <1>1, <2>1 DEF EditorTyped, RuleEditorTypeOK, LiveCheckTypeOK, checkVars
<1> QED BY <1>2, <1>3

LEMMA OpenedTypes ==
  ASSUME EditorTyped, NEW rule \in Drafts, NEW t \in Texts, OpenEditor(rule, t)
  PROVE  EditorTyped'
<1> USE DEF EditorTyped, RuleEditorTypeOK, LiveCheckTypeOK
<1>1. /\ sheet' \in [kind : {"none", "template", "history", "editor"}, rule : Drafts \cup {Nowhere}]
      /\ Editing' /\ sheet'.rule \in Drafts /\ judged' = Nowhere /\ saving' = saving
  BY DEF OpenEditor, Editing
<1>2. CASE sheet = sheet'
  <2>1. text' = t /\ valid' = TRUE /\ UNCHANGED <<mounted, due, flights, verdict>>
    BY <1>2 DEF OpenEditor
  <2>2. Editing BY <1>1, <1>2 DEF Editing
  <2> QED BY <1>1, <2>1, <2>2
<1>3. CASE sheet # sheet'
  <2>1. /\ mounted' = TRUE /\ text' = t /\ due' = t /\ verdict' = "unknown" /\ valid' = TRUE
        /\ flights' = Cancelled \cup {[about |-> t, live |-> TRUE]}
    BY <1>3 DEF OpenEditor
  <2>2. [about |-> t, live |-> TRUE] \in [about : Texts, live : BOOLEAN] OBVIOUS
  <2>3. Cancelled \in SUBSET [about : Texts, live : BOOLEAN] BY CancelledType
  <2> QED BY <1>1, <2>1, <2>2, <2>3
<1> QED BY <1>2, <1>3

LEMMA EditorTypes == EditorTyped /\ RuleEditorNext => EditorTyped'
<1> SUFFICES ASSUME EditorTyped, RuleEditorNext PROVE EditorTyped' OBVIOUS
<1>1. /\ saving \in [rule : Drafts, text : Texts] \cup {Nowhere} /\ judged \in Drafts \cup {Nowhere}
      /\ LiveCheckTypeOK /\ sheet.rule \in Drafts \cup {Nowhere}
  BY DEF EditorTyped, RuleEditorTypeOK
<1>2. Closed \in [kind : {"none", "template", "history", "editor"}, rule : Drafts \cup {Nowhere}]
      /\ Closed.kind = "none"
  BY DEF Closed
<1>3. CASE PickTemplate
  <2> DEFINE panel == [kind |-> "template", rule |-> Nowhere]
  <2>1. panel \in [kind : {"none", "template", "history", "editor"}, rule : Drafts \cup {Nowhere}]
        /\ panel.kind = "template"
    OBVIOUS
  <2>2. Show(panel) /\ UNCHANGED <<saving, judged>> BY <1>3 DEF PickTemplate
  <2> HIDE DEF panel
  <2> QED BY <1>1, <2>1, <2>2, ShownTypes
<1>4. CASE CloseSheet BY <1>1, <1>2, <1>4, ShownTypes DEF CloseSheet
<1>5. ASSUME NEW rule \in Rules, ShowHistory(rule) PROVE EditorTyped'
  <2> DEFINE panel == [kind |-> "history", rule |-> rule]
  <2>1. panel \in [kind : {"none", "template", "history", "editor"}, rule : Drafts \cup {Nowhere}]
        /\ panel.kind = "history"
    BY DEF Drafts
  <2>2. Show(panel) /\ UNCHANGED <<saving, judged>> BY <1>5 DEF ShowHistory
  <2> HIDE DEF panel
  <2> QED BY <1>1, <2>1, <2>2, ShownTypes
<1>6. ASSUME NEW t \in Texts, UseTemplate(t) PROVE EditorTyped'
  <2>1. New \in Drafts BY DEF Drafts
  <2> QED BY <1>6, <2>1, OpenedTypes DEF UseTemplate
<1>7. ASSUME NEW t \in Texts, NEW rule \in Rules, EditRow(rule, t) PROVE EditorTyped'
  <2>1. rule \in Drafts BY DEF Drafts
  <2> QED BY <1>7, <2>1, OpenedTypes DEF EditRow
<1>8. ASSUME LiveCheckTypeOK', mounted' = mounted, UNCHANGED <<sheet, saving>>,
             judged' \in Drafts \cup {Nowhere}
      PROVE  EditorTyped'
  BY <1>8 DEF EditorTyped, RuleEditorTypeOK, Editing
<1>9. ASSUME NEW t \in Texts, EditDraft(t) PROVE EditorTyped'
  <2>1. LiveCheckTypeOK' BY <1>1, <1>9 DEF EditDraft, TypeText, LiveCheckTypeOK
  <2> QED BY <1>1, <1>8, <1>9, <2>1 DEF EditDraft, TypeText, pageVars
<1>10. CASE EditorDebounce
  <2>1. text \in Texts BY <1>1 DEF LiveCheckTypeOK
  <2>2. LiveCheckTypeOK'
    BY <1>1, <1>10, <2>1, CheckedType DEF EditorDebounce, Debounce, LiveCheckTypeOK
  <2> QED BY <1>1, <1>8, <1>10, <2>2 DEF EditorDebounce, Debounce, pageVars
<1>11. ASSUME NEW f \in flights, EditorHears(f) PROVE EditorTyped'
  <2>1. LiveCheckTypeOK' BY <1>1, <1>11, HeardType DEF EditorHears
  <2> QED BY <1>1, <1>8, <1>11, <2>1 DEF EditorHears, Answered, Lost, Hear
<1>12. CASE SaveDraft
  <2>1. sheet.rule \in Drafts /\ text \in Texts
    BY <1>1, <1>12 DEF SaveDraft, EditorTyped, LiveCheckTypeOK
  <2>2. saving' = [rule |-> sheet.rule, text |-> text] /\ UNCHANGED <<checkVars, sheet, judged>>
    BY <1>12 DEF SaveDraft
  <2> QED BY <2>1, <2>2 DEF EditorTyped, RuleEditorTypeOK, LiveCheckTypeOK, checkVars, Editing
<1>13. CASE SaveEnds
  <2>1. saving' = Nowhere /\ judged' = judged BY <1>13 DEF SaveEnds
  <2>2. CASE Show(Closed) BY <1>1, <1>2, <2>1, <2>2, ShownTypes
  <2>3. CASE UNCHANGED <<checkVars, sheet>>
    BY <2>1, <2>3 DEF EditorTyped, RuleEditorTypeOK, LiveCheckTypeOK, checkVars, Editing
  <2> QED BY <1>13, <2>2, <2>3 DEF SaveEnds
<1> QED BY <1>3, <1>4, <1>5, <1>6, <1>7, <1>9, <1>10, <1>11, <1>12, <1>13 DEF RuleEditorNext

LEMMA ViewTypes == SavedViewsTypeOK /\ [SavedViewsNext]_viewVars => SavedViewsTypeOK'
<1> SUFFICES ASSUME SavedViewsTypeOK, [SavedViewsNext]_viewVars PROVE SavedViewsTypeOK' OBVIOUS
<1> USE DEF SavedViewsTypeOK
<1>1. ASSUME NEW next \in Lists, Mutate(next), UNCHANGED changed \/ changed' = TRUE,
             migrated' \in BOOLEAN
      PROVE  SavedViewsTypeOK'
  <2> DEFINE one == [next |-> next, before |-> cache, had |-> loaded]
  <2>1. one \in [next : Lists, before : Known, had : BOOLEAN] OBVIOUS
  <2>2. /\ sending' = sending \cup {one} /\ cache' = next /\ loaded' = TRUE
        /\ changed' = TRUE /\ viewReq' = NoRequest /\ UNCHANGED <<server, local, behind>>
    BY <1>1 DEF Mutate
  <2> HIDE DEF one
  <2> QED BY <1>1, <2>1, <2>2 DEF Known
<1>2. Current \in Lists BY DEF Current, Known
<1>3. ASSUME NEW n \in Names, SaveView(n) \/ DeleteView(n) PROVE SavedViewsTypeOK'
  <2>1. Current \cup {n} \in Lists /\ Current \ {n} \in Lists BY <1>2 DEF Lists
  <2>2. changed' = TRUE BY <1>3 DEF SaveView, DeleteView, Mutate
  <2> QED BY <1>1, <1>3, <2>1, <2>2 DEF SaveView, DeleteView
<1>4. CASE Migrate
  <2>1. CASE migrated' = TRUE /\ Mutate(local)
    <3>1. changed' = TRUE BY <2>1 DEF Mutate
    <3> QED BY <1>1, <2>1, <3>1
  <2>2. CASE changed' = FALSE
             /\ UNCHANGED <<server, cache, loaded, viewReq, sending, local, migrated, behind>>
    BY <2>2
  <2> QED BY <1>4, <2>1, <2>2 DEF Migrate
<1>5. CASE ViewsAnswered BY <1>5 DEF ViewsAnswered
<1>6. CASE ViewsLand BY <1>6 DEF ViewsLand, SetCache
<1>7. CASE ViewsFail BY <1>7 DEF ViewsFail
<1>8. CASE Reopen BY <1>8 DEF Reopen, Known
<1>9. ASSUME NEW p \in sending, ViewsStored(p) PROVE SavedViewsTypeOK'
  BY <1>9 DEF ViewsStored, Known
<1>10. ASSUME NEW p \in sending, ViewsLost(p) PROVE SavedViewsTypeOK'
  BY <1>10 DEF ViewsLost, SetCache, Known
<1>11. ASSUME NEW l \in Lists, ViewsElsewhere(l) PROVE SavedViewsTypeOK'
  BY <1>11 DEF ViewsElsewhere, Known
<1>12. CASE UNCHANGED viewVars BY <1>12 DEF viewVars
<1> QED BY <1>3, <1>4, <1>5, <1>6, <1>7, <1>8, <1>9, <1>10, <1>11, <1>12 DEF SavedViewsNext

LEMMA ManualTypes == ManualTypeOK /\ [ManualNext]_manualVars => ManualTypeOK'
<1> SUFFICES ASSUME ManualTypeOK, [ManualNext]_manualVars PROVE ManualTypeOK' OBVIOUS
<1> DEFINE Named == Questions \cup Direct \cup {"save_policy"}
           Actions == [kind : Named, clears : SUBSET Boxes]
<1> USE DEF ManualTypeOK
<1>1. ASSUME NEW kind \in Named, NEW clears \in SUBSET Boxes, Launch(kind, clears)
      PROVE  running' \in SUBSET Actions
  <2> DEFINE one == [kind |-> kind, clears |-> clears]
  <2>1. one \in Actions OBVIOUS
  <2>2. running' = running \cup {one} BY <1>1 DEF Launch
  <2> HIDE DEF one
  <2> QED BY <2>1, <2>2
<1>2. ASSUME NEW box \in Boxes, Tick(box) PROVE ManualTypeOK' BY <1>2 DEF Tick
<1>3. ASSUME NEW kind \in Direct, RunDirect(kind) PROVE ManualTypeOK' BY <1>1, <1>3 DEF RunDirect
<1>4. ASSUME NEW kind \in Questions, Ask(kind) PROVE ManualTypeOK' BY <1>4 DEF Ask
<1>5. ASSUME NEW v \in Written, WritePolicy(v) PROVE ManualTypeOK' BY <1>5 DEF WritePolicy
<1>6. CASE SavePolicy BY <1>1, <1>6 DEF SavePolicy
<1>7. ASSUME NEW kind \in DOMAIN Phrase, Typing(Phrase[kind]) PROVE ManualTypeOK'
  <2>1. kind \in {"reset_mal", "reset", "clear_stuck"} BY DEF Phrase
  <2>2. /\ Phrase["reset_mal"] = "RESET_MAL" /\ Phrase["reset"] = "RESET"
        /\ Phrase["clear_stuck"] = "CLEAR_STUCK"
    BY DEF Phrase
  <2> QED BY <1>7, <2>1, <2>2 DEF Typing
<1>8. CASE Confirm
  <2> DEFINE clears == IF request.kind = "clear_stuck" THEN Clears(request.boxes) ELSE {}
  <2>1. request \in [kind : Questions, boxes : SUBSET Boxes] BY <1>8 DEF Confirm
  <2>2. clears \in SUBSET Boxes /\ request.kind \in Named BY <2>1 DEF Clears
  <2>3. Launch(request.kind, clears) /\ CloseDialog /\ UNCHANGED <<ticked, entered, policy, error>>
    BY <1>8 DEF Confirm
  <2> HIDE DEF clears
  <2> QED BY <1>1, <2>2, <2>3 DEF CloseDialog
<1>9. CASE Dismiss BY <1>9 DEF Dismiss, CloseDialog
<1>10. ASSUME NEW a \in running, ActionEnds(a) PROVE ManualTypeOK' BY <1>10 DEF ActionEnds, Written
<1>11. CASE UNCHANGED manualVars BY <1>11 DEF manualVars
<1> QED BY <1>2, <1>3, <1>4, <1>5, <1>6, <1>7, <1>8, <1>9, <1>10, <1>11 DEF ManualNext

\* An action of a rule, and the first of a draft's actions that tags.
ActionType == [type : Types, when : Whens]

LEMMA FirstTag ==
  ASSUME NEW s \in Seq(ActionType), \E k \in DOMAIN s : s[k].type = "tag"
  PROVE  \E k \in DOMAIN s : s[k].type = "tag" /\ \A j \in 1 .. (k - 1) : s[j].type # "tag"
<1> DEFINE T == {k \in DOMAIN s : s[k].type = "tag"}
<1>1. DOMAIN s = 1 .. Len(s) /\ Len(s) \in Nat BY LenProperties
<1>2. T \subseteq Nat /\ T # {} BY <1>1
<1>3. PICK k \in T : \A j \in T : k <= j
  <2> HIDE DEF T
  <2> QED BY <1>2, LeastNumber
<1>4. ASSUME NEW j \in 1 .. (k - 1) PROVE s[j].type # "tag"
  <2>1. k \in 1 .. Len(s) BY <1>1
  <2>2. j \in DOMAIN s /\ ~(k <= j) BY <1>1, <2>1
  <2> QED BY <1>3, <2>2
<1> QED BY <1>3, <1>4

LEMMA RuleTypes == RuleDraftTypeOK /\ [RuleDraftNext]_ruleVars => RuleDraftTypeOK'
<1> SUFFICES ASSUME RuleDraftTypeOK, [RuleDraftNext]_ruleVars PROVE RuleDraftTypeOK' OBVIOUS
<1> DEFINE Drafted(s) == [media : {"movies", "series", "both"}, filters : SUBSET Narrowings,
                          statuses : SUBSET SeriesStatuses, strict : BOOLEAN, gate : BOOLEAN,
                          fresh : BOOLEAN, actions : s]
           acts == params.actions
<1>1. params \in Drafted(Seq(ActionType)) /\ (params.media = "movies" => params.statuses = {})
  BY DEF RuleDraftTypeOK, ActionType
<1>2. SUFFICES /\ params' \in Drafted(Seq(ActionType))
               /\ params'.media = "movies" => params'.statuses = {}
  BY DEF RuleDraftTypeOK, ActionType
<1>3. acts \in Seq(ActionType) BY <1>1
<1>4. ASSUME NEW s \in Seq(ActionType), params' = [params EXCEPT !.actions = s] PROVE <1>2!1
  <2> DEFINE A == Seq(ActionType)
  <2>1. s \in A /\ params \in Drafted(A) BY <1>1
  <2> HIDE DEF A
  <2>2. [params EXCEPT !.actions = s] \in Drafted(A) BY <2>1
  <2>3. /\ [params EXCEPT !.actions = s].media = params.media
        /\ [params EXCEPT !.actions = s].statuses = params.statuses
    BY <2>1
  <2> QED BY <1>1, <1>4, <2>2, <2>3 DEF A
<1>5. ASSUME \/ \E m \in {"movies", "series", "both"} : SetMedia(m)
             \/ \E fs \in SUBSET Narrowings : SetFilter(fs)
             \/ \E ss \in SUBSET SeriesStatuses : SetStatuses(ss)
             \/ \E b \in BOOLEAN : SetRequirement(b) \/ SetGate(b) \/ SetFresh(b)
      PROVE  <1>2!1
  <2> DEFINE A == Seq(ActionType)
  <2>1. params \in Drafted(A) BY <1>1
  <2> HIDE DEF A
  <2>2. params' \in Drafted(A) /\ (params'.media = "movies" => params'.statuses = {})
    BY <1>1, <1>5, <2>1 DEF SetMedia, SetFilter, SetStatuses, SetRequirement, SetGate, SetFresh
  <2> QED BY <2>2 DEF A
<1>6. ASSUME NEW type \in Types, NEW when \in Whens, ToggleAction(type, when) PROVE <1>2!1
  <2>1. CASE Has(type)
    <3>1. Kept(acts, [type : Types \ {type}, when : Whens]) \in Seq(ActionType)
      <4>1. ActionType \cap [type : Types \ {type}, when : Whens] \subseteq ActionType OBVIOUS
      <4> QED BY <1>3, <4>1, KeptType
    <3>2. params' = [params EXCEPT !.actions = Kept(acts, [type : Types \ {type}, when : Whens])]
      BY <1>1, <1>6, <2>1 DEF ToggleAction
    <3> QED BY <1>4, <3>1, <3>2
  <2>2. CASE ~Has(type)
    <3>1. Act(type, when) \in ActionType BY DEF Act, ActionType
    <3>2. Append(acts, Act(type, when)) \in Seq(ActionType) BY <1>3, <3>1
    <3>3. params' = [params EXCEPT !.actions = Append(acts, Act(type, when))]
      BY <1>1, <1>6, <2>2 DEF ToggleAction
    <3> QED BY <1>4, <3>2, <3>3
  <2> QED BY <2>1, <2>2
<1>7. ASSUME NEW when \in Whens, PatchTag(when) PROVE <1>2!1
  <2> DEFINE First == CHOOSE k \in DOMAIN acts :
                        /\ acts[k].type = "tag"
                        /\ \A j \in 1 .. (k - 1) : acts[j].type # "tag"
  <2>1. First \in DOMAIN acts BY <1>3, <1>7, FirstTag DEF PatchTag, Has
  <2>2. params' = [params EXCEPT !.actions[First].when = when] BY <1>7 DEF PatchTag
  <2> HIDE DEF First
  <2>3. acts[First] \in ActionType BY <1>3, <2>1
  <2> DEFINE now == [acts[First] EXCEPT !.when = when]
  <2>4. now \in ActionType BY <2>3 DEF ActionType
  <2>5. params' = [params EXCEPT !.actions = [acts EXCEPT ![First] = now]] BY <1>1, <2>2
  <2> HIDE DEF now
  <2>6. First \in 1 .. Len(acts) BY <1>3, <2>1, LenProperties
  <2>7. [acts EXCEPT ![First] = now] \in Seq(ActionType)
    BY <1>3, <2>4, <2>6, ExceptSeq
  <2> HIDE DEF acts
  <2> QED BY <1>4, <2>5, <2>7
<1>8. CASE UNCHANGED ruleVars BY <1>1, <1>8 DEF ruleVars
<1>9. /\ Searches \cup {"tag"} \subseteq Types /\ "set_monitored" \in Types
      /\ "non_conforming" \in Whens /\ "conforming" \in Whens
  BY DEF Types, Whens
<1> QED BY <1>5, <1>6, <1>7, <1>8, <1>9 DEF RuleDraftNext

LEMMA SetupTypes == SetupFormTypeOK /\ [SetupFormNext]_setupVars => SetupFormTypeOK'
<1> SUFFICES ASSUME SetupFormTypeOK, [SetupFormNext]_setupVars PROVE SetupFormTypeOK' OBVIOUS
<1> USE DEF SetupFormTypeOK
<1>1. ASSUME NEW p \in [Fields -> Given \cup {Empty}], PayloadLands(p) PROVE SetupFormTypeOK'
  <2>1. fields' \in [Fields -> Typed \cup Given \cup {Empty}] BY <1>1 DEF PayloadLands
  <2> QED BY <1>1, <2>1 DEF PayloadLands
<1>2. ASSUME NEW f \in Fields, NEW v \in Typed \cup {Empty}, TypeField(f, v)
      PROVE  SetupFormTypeOK'
  BY <1>2 DEF TypeField
<1>3. ASSUME NEW a \in Apps, SkipApp(a) \/ PickApp(a) PROVE SetupFormTypeOK'
  BY <1>3 DEF SkipApp, PickApp, Flip
<1>4. CASE AskSync BY <1>4 DEF AskSync
<1>5. CASE SubmitForm BY <1>5 DEF SubmitForm, Sources
<1>6. CASE FormStored
  <2>1. post' \in [kind : {"none", "wizard", "sync"}, urls : SUBSET Apps, sources : SUBSET Apps]
    BY <1>6, NoPostType DEF FormStored
  <2> QED BY <1>6, <2>1 DEF FormStored
<1>7. CASE PostFails \/ SyncStarted BY <1>7, NoPostType DEF PostFails, SyncStarted
<1>8. CASE UNCHANGED setupVars BY <1>8 DEF setupVars
<1> QED BY <1>1, <1>2, <1>3, <1>4, <1>5, <1>6, <1>7, <1>8 DEF SetupFormNext

\* A token that is answered is one that was made.
LEMMA AuthTypes ==
  ASSUME TokenInv, AuthTypeOK, [AuthNext]_authVars
  PROVE  AuthTypeOK'
<1> USE DEF AuthTypeOK
<1>1. calls' \in [AuthCalls -> Call \cup {NoCall}] /\ made' \in 0 .. MaxTokens
  BY TokenStep DEF TokenInv
<1>2. 0 \in 0 .. MaxTokens BY AuthAssumption
<1>3. ASSUME NEW f \in PasswordFields, TypePassword(f) PROVE AuthTypeOK'
  BY <1>3 DEF TypePassword
<1>4. ASSUME NEW c \in AuthCalls, NEW op, Press(c, op) PROVE AuthTypeOK'
  <2>1. spoiled' \in BOOLEAN BY <1>4 DEF Press, TokenCallBeside
  <2> QED BY <1>1, <1>4, <2>1 DEF Press
<1>5. ASSUME NEW c \in AuthCalls, StoreAuth(c) PROVE AuthTypeOK'
  <2>1. token' \in 0 .. MaxTokens
    <3>1. CASE calls[c].op = "rotate"
      <4>1. token' = made + 1 /\ made < MaxTokens BY <1>5, <3>1 DEF StoreAuth
      <4> QED BY <4>1, AuthAssumption
    <3>2. CASE calls[c].op = "revoke" BY <1>2, <1>5, <3>2 DEF StoreAuth
    <3>3. CASE calls[c].op \notin TokenOps
      BY <1>5, <3>3 DEF StoreAuth, TokenOps
    <3> QED BY <3>1, <3>2, <3>3 DEF TokenOps
  <2>2. guarded' \in BOOLEAN /\ signedIn' \in BOOLEAN BY <1>5 DEF StoreAuth
  <2> QED BY <1>1, <1>5, <2>1, <2>2 DEF StoreAuth
<1>6. ASSUME NEW c \in AuthCalls, AnswerAuth(c) PROVE AuthTypeOK'
  <2>1. calls[c] \in Call BY <1>6 DEF AnswerAuth, At
  <2>2. issued' \in 0 .. MaxTokens BY <1>2, <1>6, <2>1 DEF AnswerAuth, Issued, Call
  <2> QED BY <1>1, <1>6, <2>2 DEF AnswerAuth
<1>7. ASSUME NEW c \in AuthCalls, LogInAgain(c) PROVE AuthTypeOK'
  BY <1>1, <1>7 DEF LogInAgain, PasswordFields
<1>8. ASSUME NEW c \in AuthCalls, AuthFails(c) PROVE AuthTypeOK'
  <2>1. spoiled' \in BOOLEAN BY <1>8 DEF AuthFails
  <2> QED BY <1>1, <1>8, <2>1 DEF AuthFails
<1>9. CASE ReadStatus
  <2>1. status' \in Status BY <1>9 DEF ReadStatus, Status
  <2> QED BY <1>1, <1>9, <2>1 DEF ReadStatus
<1>10. CASE UNCHANGED authVars BY <1>10 DEF authVars
<1> QED BY <1>3, <1>4, <1>5, <1>6, <1>7, <1>8, <1>9, <1>10
        DEF AuthNext, SavePassword, RotateToken, RevokeToken, DisableAuth

\* The templates and the stored rules are rules.
LEMMA StartsAreRules == RuleDraftInit => RuleDraftTypeOK
<1> DEFINE Drafted == [media : {"movies", "series", "both"}, filters : SUBSET Narrowings,
                       statuses : SUBSET SeriesStatuses, strict : BOOLEAN, gate : BOOLEAN,
                       fresh : BOOLEAN, actions : Seq(ActionType)]
           Fits(p) == p \in Drafted /\ (p.media = "movies" => p.statuses = {})
<1>1. ASSUME NEW media \in {"movies", "series", "both"}, NEW statuses \in SUBSET SeriesStatuses,
             media = "movies" => statuses = {},
             NEW strict \in BOOLEAN, NEW options, NEW actions \in Seq(ActionType)
      PROVE  Fits(Rule(media, statuses, strict, options, actions))
  <2> DEFINE A == Seq(ActionType)
  <2>1. actions \in A OBVIOUS
  <2> HIDE DEF A
  <2>2. Rule(media, statuses, strict, options, actions)
          \in [media : {"movies", "series", "both"}, filters : SUBSET Narrowings,
               statuses : SUBSET SeriesStatuses, strict : BOOLEAN, gate : BOOLEAN,
               fresh : BOOLEAN, actions : A]
    BY <2>1 DEF Rule
  <2>3. /\ Rule(media, statuses, strict, options, actions).media = media
        /\ Rule(media, statuses, strict, options, actions).statuses = statuses
    BY DEF Rule
  <2> QED BY <1>1, <2>2, <2>3 DEF A
<1>2. ASSUME NEW type \in Types PROVE Falls(type) \in ActionType /\ Meets(type) \in ActionType
  BY DEF Falls, Meets, Act, ActionType, Whens
<1>3. {"search_missing", "search_upgrade", "tag", "set_monitored"} = Types BY DEF Types, Searches
<1>4. ASSUME NEW a \in ActionType, NEW b \in ActionType
      PROVE  <<a>> \in Seq(ActionType) /\ <<a, b>> \in Seq(ActionType)
  OBVIOUS
<1>5. {} \in SUBSET SeriesStatuses /\ {Ended} \in SUBSET SeriesStatuses BY StatusAssumption
<1> HIDE DEF Fits
<1>6. ASSUME NEW options \in {{"gate"}, {"gate", "fresh"}}
      PROVE  Fits(Rule("both", {}, TRUE, options, <<Falls("search_missing"), Falls("search_upgrade")>>))
  BY <1>1, <1>2, <1>3, <1>4, <1>5
<1>7. ASSUME NEW strict \in BOOLEAN, NEW type \in Types
      PROVE  Fits(Rule("both", {}, strict, {}, <<Falls(type)>>))
  BY <1>1, <1>2, <1>4, <1>5
<1>8. /\ Fits(Rule("series", {Ended}, TRUE, {}, <<Meets("tag")>>))
      /\ Fits(Rule("series", {Ended}, TRUE, {}, <<Meets("tag"), Meets("set_monitored")>>))
      /\ Fits(Rule("series", {}, TRUE, {}, <<Falls("tag")>>))
      /\ Fits(Rule("series", {Ended}, FALSE, {}, <<Falls("tag")>>))
      /\ Fits(Rule("movies", {}, TRUE, {}, <<Meets("tag"), Meets("set_monitored")>>))
      /\ Fits(Rule("series", {}, TRUE, {}, <<Meets("tag"), Falls("tag")>>))
  <2>1. /\ Falls("tag") \in ActionType /\ Meets("tag") \in ActionType
        /\ Meets("set_monitored") \in ActionType
    BY <1>2, <1>3
  <2>2. /\ <<Meets("tag")>> \in Seq(ActionType) /\ <<Falls("tag")>> \in Seq(ActionType)
        /\ <<Meets("tag"), Meets("set_monitored")>> \in Seq(ActionType)
        /\ <<Meets("tag"), Falls("tag")>> \in Seq(ActionType)
    BY <1>4, <2>1
  <2> QED BY <1>1, <1>5, <2>2
<1>9. ASSUME params \in Starts PROVE Fits(params)
  <2>1. /\ "search_upgrade" \in Types /\ "search_missing" \in Types /\ "tag" \in Types
        /\ TRUE \in BOOLEAN /\ FALSE \in BOOLEAN
    BY <1>3
  <2> DEFINE Gated == {Rule("both", {}, TRUE, opts, <<Falls("search_missing"), Falls("search_upgrade")>>) :
                         opts \in {{"gate"}, {"gate", "fresh"}}}
             OneAction == {Rule("both", {}, one[1], {}, <<Falls(one[2])>>) :
                         one \in {<<TRUE, "search_upgrade">>, <<FALSE, "search_missing">>,
                                  <<TRUE, "tag">>, <<TRUE, "search_missing">>}}
  <2>2. CASE params \in Gated BY <1>6, <2>2
  <2>3. CASE params \in OneAction
    <3>1. \/ params = Rule("both", {}, TRUE, {}, <<Falls("search_upgrade")>>)
          \/ params = Rule("both", {}, FALSE, {}, <<Falls("search_missing")>>)
          \/ params = Rule("both", {}, TRUE, {}, <<Falls("tag")>>)
          \/ params = Rule("both", {}, TRUE, {}, <<Falls("search_missing")>>)
      <4> DEFINE Only(strict, type) == Rule("both", {}, strict, {}, <<Falls(type)>>)
      <4> HIDE DEF Only
      <4>1. params \in {Only(one[1], one[2]) :
                        one \in {<<TRUE, "search_upgrade">>, <<FALSE, "search_missing">>,
                                <<TRUE, "tag">>, <<TRUE, "search_missing">>}}
        BY <2>3 DEF Only
      <4>2. PICK one \in {<<TRUE, "search_upgrade">>, <<FALSE, "search_missing">>,
                          <<TRUE, "tag">>, <<TRUE, "search_missing">>} :
              params = Only(one[1], one[2])
        BY <4>1
      <4>3. CASE one = <<TRUE, "search_upgrade">>
        <5>1. one[1] = TRUE /\ one[2] = "search_upgrade" BY <4>3
        <5>2. params = Only(TRUE, "search_upgrade") BY <4>2, <5>1
        <5> QED BY <5>2 DEF Only
      <4>4. CASE one = <<FALSE, "search_missing">>
        <5>1. one[1] = FALSE /\ one[2] = "search_missing" BY <4>4
        <5>2. params = Only(FALSE, "search_missing") BY <4>2, <5>1
        <5> QED BY <5>2 DEF Only
      <4>5. CASE one = <<TRUE, "tag">>
        <5>1. one[1] = TRUE /\ one[2] = "tag" BY <4>5
        <5>2. params = Only(TRUE, "tag") BY <4>2, <5>1
        <5> QED BY <5>2 DEF Only
      <4>6. CASE one = <<TRUE, "search_missing">>
        <5>1. one[1] = TRUE /\ one[2] = "search_missing" BY <4>6
        <5>2. params = Only(TRUE, "search_missing") BY <4>2, <5>1
        <5> QED BY <5>2 DEF Only
      <4> QED BY <4>3, <4>4, <4>5, <4>6
    <3>2. /\ Fits(Rule("both", {}, TRUE, {}, <<Falls("search_upgrade")>>))
          /\ Fits(Rule("both", {}, FALSE, {}, <<Falls("search_missing")>>))
          /\ Fits(Rule("both", {}, TRUE, {}, <<Falls("tag")>>))
          /\ Fits(Rule("both", {}, TRUE, {}, <<Falls("search_missing")>>))
      BY <1>7, <2>1
    <3> QED BY <3>1, <3>2
  <2>4. CASE params \notin Gated \cup OneAction BY <1>8, <1>9, <2>4 DEF Starts
  <2> QED BY <2>2, <2>3, <2>4
<1> QED BY <1>9 DEF RuleDraftInit, RuleDraftTypeOK, ActionType, Fits

-----------------------------------------------------------------------------
(* All pages.                                                              *)

WebTyped ==
  /\ page \in PageNames
  /\ DraftInv /\ ConfigFormsTypeOK /\ LiveCheckTypeOK /\ (page = "cron" \/ EditorTyped)
  /\ SavedViewsTypeOK /\ PagerInv /\ ManualTypeOK /\ UrlTypeOK
  /\ LibraryTypeOK /\ PanelsTypeOK /\ MalTyped /\ ArtTypeOK
  /\ RuleDraftTypeOK /\ SetupFormTypeOK /\ ShellTypeOK
  /\ LogTyped /\ ValueTypeOK /\ TokenInv /\ AuthTypeOK

LEMMA PagesStartTyped == WebInit => WebTyped
<1> SUFFICES ASSUME WebInit PROVE WebTyped OBVIOUS
<1>1. page \in PageNames BY DEF WebInit
<1>2. DraftInv
  <2>1. DraftRowsInit BY DEF WebInit
  <2> QED BY <2>1, DraftAssumption DEF DraftRowsInit, DraftInv, DraftRowsTypeOK, RowsShowList
<1>3. ConfigFormsTypeOK
  <2>1. ConfigFormsInit BY DEF WebInit
  <2> QED BY <2>1 DEF ConfigFormsInit, ConfigFormsTypeOK
<1>4. LiveCheckTypeOK /\ EditorTyped
  <2>1. RuleEditorInit BY DEF WebInit
  <2> QED BY <2>1, TextsAssumption
        DEF RuleEditorInit, LiveCheckInit, EditorTyped, RuleEditorTypeOK, LiveCheckTypeOK,
            Closed, Editing
<1>5. SavedViewsTypeOK
  <2>1. SavedViewsInit BY DEF WebInit
  <2> QED BY <2>1 DEF SavedViewsInit, SavedViewsTypeOK, Known, Lists
<1>6. PagerInv BY PagerStarts DEF WebInit
<1>7. ManualTypeOK
  <2>1. ManualInit BY DEF WebInit
  <2> QED BY <2>1 DEF ManualInit, ManualTypeOK, Boxes, Written
<1>8. UrlTypeOK
  <2>1. UrlInit BY DEF WebInit
  <2>2. PICK v \in Views : /\ address \in Addresses
                           /\ view = Opens(v, address)[1] /\ written = Opens(v, address)[2]
    BY <2>1 DEF UrlInit
  <2>3. view \in Views /\ written \in Addresses \cup {NoAddress}
    BY <2>2, ViewsAssumption DEF Opens, Parse, Canonical, Addresses, Applies
  <2>4. landing \in [url : Addresses, own : BOOLEAN] \cup {NoAddress}
    BY <2>1, <2>3 DEF UrlInit
  <2> QED BY <2>2, <2>3, <2>4 DEF UrlTypeOK
<1>9. LibraryTypeOK BY LibraryStarts DEF WebInit
<1>10. PanelsTypeOK
  <2>1. PanelsInit BY DEF WebInit
  <2>2. 0 \in TableOffsets
    <3>1. 0 \in 0 .. MaxRows \div TableSize /\ TableSize * 0 = 0 BY PanelsAssumption
    <3> QED BY <3>1 DEF TableOffsets
  <2> QED BY <2>1, <2>2, PanelsAssumption DEF PanelsInit, PanelsTypeOK, FilteredBy
<1>11. MalTyped
  <2>1. MalInit BY DEF WebInit
  <2>2. visit \in 1 .. MaxVisits BY <2>1, MalAssumption DEF MalInit
  <2> QED BY <2>1, <2>2 DEF MalInit, MalTyped, MalTypeOK
<1>12. ArtTypeOK
  <2>1. ArtInit BY DEF WebInit
  <2>2. changes \in 0 .. MaxArtChanges /\ fails \in 0 .. MaxArtFails
    BY <2>1, ArtAssumption DEF ArtInit
  <2> QED BY <2>1, <2>2 DEF ArtInit, ArtTypeOK
<1>13. RuleDraftTypeOK BY StartsAreRules DEF WebInit
<1>14. SetupFormTypeOK
  <2>1. SetupFormInit BY DEF WebInit
  <2> QED BY <2>1, NoPostType DEF SetupFormInit, SetupFormTypeOK
<1>15. ShellTypeOK
  <2>1. ShellInit BY DEF WebInit
  <2>2. query \in DOMAIN Matching /\ Len(Matching[query]) \in Nat
    BY <2>1, PaletteAssumption DEF ShellInit
  <2>3. IF LastMatch = -1 THEN index \in {-1, 0} ELSE index \in 0 .. LastMatch
    BY <2>1, <2>2 DEF ShellInit, LastMatch
  <2> QED BY <2>1, <2>2, <2>3 DEF ShellInit, ShellTypeOK
<1>16. LogTyped
  <2>1. LogInit BY DEF WebInit
  <2>2. items \in Lines /\ 0 \in 0 .. MaxLines BY <2>1, LogAssumption DEF LogInit, Lines
  <2> QED BY <2>1, <2>2 DEF LogInit, LogTyped, LogTypeOK
<1>17. ValueTypeOK
  <2>1. ValueInit BY DEF WebInit
  <2>2. chips \in Seq(Words) /\ Len(chips) <= MaxChips
    BY <2>1, ValueFieldsAssumption DEF ValueInit
  <2> QED BY <2>1, <2>2 DEF ValueInit, ValueTypeOK
<1>18. TokenInv /\ AuthTypeOK
  <2>1. AuthInit BY DEF WebInit
  <2>2. TokenInv BY <2>1, AuthAssumption DEF AuthInit, TokenInv, TokenCall, At
  <2>3. 0 \in 0 .. MaxTokens BY AuthAssumption
  <2> QED BY <2>1, <2>2, <2>3 DEF AuthInit, TokenInv, AuthTypeOK, PasswordFields, Status
<1> QED BY <1>1, <1>2, <1>3, <1>4, <1>5, <1>6, <1>7, <1>8, <1>9, <1>10, <1>11, <1>12, <1>13,
           <1>14, <1>15, <1>16, <1>17, <1>18 DEF WebTyped

LEMMA PagesStayTyped ==
  ASSUME WebTyped, [WebNext]_webVars
  PROVE  WebTyped'
<1>1. /\ DraftInv' /\ ConfigFormsTypeOK' /\ SavedViewsTypeOK' /\ ManualTypeOK'
      /\ RuleDraftTypeOK' /\ SetupFormTypeOK' /\ TokenInv' /\ AuthTypeOK'
  BY PagesMove, DraftStep, FormTypes, ViewTypes, ManualTypes, RuleTypes, SetupTypes,
     TokenStep, AuthTypes DEF WebTyped
<1>2. /\ UrlTypeOK' /\ LibraryTypeOK' /\ PanelsTypeOK' /\ MalTyped' /\ ArtTypeOK'
      /\ ShellTypeOK' /\ LogTyped' /\ ValueTypeOK' /\ PagerInv'
  BY PagesMove, UrlTypes, LibraryTypes, PanelsTypes, MalTypes, ArtTypes, ShellTypes,
     LogTypes, ValueTypes, PagerStep DEF WebTyped
<1>3. page' \in PageNames /\ LiveCheckTypeOK' /\ (page' = "cron" \/ EditorTyped')
  <2>1. CASE page = "rules" /\ RuleEditorNext /\ page' = page
    BY <2>1, EditorTypes DEF WebTyped, EditorTyped, RuleEditorTypeOK
  <2>2. CASE page = "cron" /\ LiveCheckNext /\ UNCHANGED <<pageVars, page>>
    BY <2>2, CheckTypes DEF WebTyped
  <2>3. CASE UNCHANGED <<editorVars, page>>
    BY <2>3 DEF WebTyped, editorVars, checkVars, pageVars, LiveCheckTypeOK, EditorTyped,
                RuleEditorTypeOK, Editing
  <2> QED BY <2>1, <2>2, <2>3, PagesMove
<1> QED BY <1>1, <1>2, <1>3 DEF WebTyped

LEMMA WebTypedInvariance == WebSpec => []WebTyped
<1>1. WebInit => WebTyped BY PagesStartTyped
<1>2. WebTyped /\ [WebNext]_webVars => WebTyped' BY PagesStayTyped
<1> QED BY <1>1, <1>2, PTL DEF WebSpec

\* What every page keeps is of its type: a highlighted command is there to be
\* run, a table's offset is that of a page, two rows are compared at most, the
\* editor that checks a draft is mounted, and a draft about movies asks for no
\* status of a show.
THEOREM WebTypes == WebSpec => []WebTypeOK
<1>1. WebTyped => WebTypeOK
  BY DEF WebTyped, WebTypeOK, DraftInv, EditorTyped, PagerInv, MalTyped, LogTyped
<1> QED BY <1>1, WebTypedInvariance, PTL

\* The sentence of every draft the editor can come to, about one kind of media
\* and without the dub options, names what the run selects: the phrases of
\* automationSummary against the queries of automation_rules.
THEOREM SentencesFit == WebSpec => []SentenceFits
<1>1. WebTyped => SentenceFits BY TypedSentencesFit DEF WebTyped
<1> QED BY <1>1, WebTypedInvariance, PTL
=============================================================================
