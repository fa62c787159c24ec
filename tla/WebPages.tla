-------------------------------- MODULE WebPages --------------------------------
(***************************************************************************)
(* The pages of the web interface that keep state of their own, one        *)
(* browser tab at a time: `page` is the page that is open, and only its    *)
(* state changes.  Pages share nothing but the server: what another tab,   *)
(* the programs themselves or the scheduler do is in each page's module.   *)
(***************************************************************************)
EXTENDS DraftRows, ConfigForms, RuleEditor, SavedViews, QueuePager, ManualTab,
        UrlState, LibraryBrowser, ReportPanels, MalPipelines, ArtworkSettings,
        RuleDraft, SetupForm, CommandPalette, LogTail, ValueFields, AuthTokens

VARIABLE page

webVars == <<draftVars, formVars, editorVars, viewVars, pagerVars, manualVars, urlVars,
             libraryVars, panelVars, malVars, artVars, ruleVars, setupVars, shellVars, logVars,
             valueVars, authVars, page>>

PageNames ==
  {"rows", "forms", "cron", "rules", "views", "queue", "manual", "address",
   "library", "reports", "anime", "artwork", "draft", "setup", "shell",
   "logs", "values", "auth"}

WebTypeOK ==
  /\ page \in PageNames
  /\ DraftRowsTypeOK /\ ConfigFormsTypeOK /\ (page = "cron" \/ RuleEditorTypeOK)
  /\ LiveCheckTypeOK
  /\ SavedViewsTypeOK /\ PagerTypeOK /\ ManualTypeOK /\ UrlTypeOK
  /\ LibraryTypeOK /\ PanelsTypeOK /\ MalTypeOK /\ ArtTypeOK
  /\ RuleDraftTypeOK /\ SetupFormTypeOK /\ ShellTypeOK
  /\ LogTypeOK /\ ValueTypeOK /\ AuthTypeOK

Some(S) == CHOOSE x \in S : TRUE

\* A page that is not open is in one of its initial states, to keep the others
\* from being multiplied by it.
WebInit ==
  /\ page \in PageNames
  /\ IF page = "rows" THEN TRUE ELSE stored = Some(Table)
  /\ IF page = "forms" THEN TRUE ELSE section = "mal" /\ conf = Some(Settings)
  /\ IF page = "views" THEN TRUE ELSE server = {} /\ local = {}
  /\ IF page = "queue" THEN TRUE
     ELSE jobs = [s \in Statuses |-> 0] /\ filter = Some(Statuses)
  /\ IF page = "address" THEN TRUE
     ELSE address = Bare /\ view = Default /\ written = NoAddress
  /\ IF page = "reports" THEN TRUE
     ELSE dashboard = Some(Dashboards) /\ wide = Some(Wide) /\ matching = [p \in Panels |-> 0]
  /\ IF page = "anime" THEN TRUE ELSE batch = Some(Sizes) /\ coverage = FALSE
  /\ IF page = "artwork" THEN TRUE
     ELSE art = [live |-> FALSE, rest |-> FALSE, files |-> FALSE, fetching |-> FALSE]
  /\ IF page = "draft" THEN TRUE ELSE params = Some(Starts)
  /\ IF page = "shell" THEN TRUE ELSE place = Some(Places)
  /\ IF page = "logs" THEN TRUE ELSE logged = [all |-> 0, match |-> 0]
  /\ IF page = "auth" THEN TRUE ELSE guarded = FALSE
  /\ DraftRowsInit /\ ConfigFormsInit /\ RuleEditorInit /\ SavedViewsInit /\ PagerInit
  /\ ManualInit /\ UrlInit /\ LibraryInit /\ PanelsInit /\ MalInit /\ ArtInit
  /\ RuleDraftInit /\ SetupFormInit /\ ShellInit /\ LogInit /\ ValueInit
  /\ AuthInit

RowsPage ==
  /\ page = "rows" /\ DraftRowsNext
  /\ UNCHANGED <<formVars, editorVars, viewVars, pagerVars, manualVars, urlVars,
                 libraryVars, panelVars, malVars, artVars, ruleVars, setupVars, shellVars,
                 logVars, valueVars, authVars, page>>

FormsPage ==
  /\ page = "forms" /\ ConfigFormsNext
  /\ UNCHANGED <<draftVars, editorVars, viewVars, pagerVars, manualVars, urlVars,
                 libraryVars, panelVars, malVars, artVars, ruleVars, setupVars, shellVars,
                 logVars, valueVars, authVars, page>>

\* The cron field of a schedule.
CronPage ==
  /\ page = "cron" /\ LiveCheckNext
  /\ UNCHANGED <<draftVars, formVars, pageVars, viewVars, pagerVars, manualVars, urlVars,
                 libraryVars, panelVars, malVars, artVars, ruleVars, setupVars, shellVars,
                 logVars, valueVars, authVars, page>>

RulesPage ==
  /\ page = "rules" /\ RuleEditorNext
  /\ UNCHANGED <<draftVars, formVars, viewVars, pagerVars, manualVars, urlVars,
                 libraryVars, panelVars, malVars, artVars, ruleVars, setupVars, shellVars,
                 logVars, valueVars, authVars, page>>

ViewsPage ==
  /\ page = "views" /\ SavedViewsNext
  /\ UNCHANGED <<draftVars, formVars, editorVars, pagerVars, manualVars, urlVars,
                 libraryVars, panelVars, malVars, artVars, ruleVars, setupVars, shellVars,
                 logVars, valueVars, authVars, page>>

QueuePage ==
  /\ page = "queue" /\ PagerNext
  /\ UNCHANGED <<draftVars, formVars, editorVars, viewVars, manualVars, urlVars,
                 libraryVars, panelVars, malVars, artVars, ruleVars, setupVars, shellVars,
                 logVars, valueVars, authVars, page>>

ManualPage ==
  /\ page = "manual" /\ ManualNext
  /\ UNCHANGED <<draftVars, formVars, editorVars, viewVars, pagerVars, urlVars,
                 libraryVars, panelVars, malVars, artVars, ruleVars, setupVars, shellVars,
                 logVars, valueVars, authVars, page>>

AddressPage ==
  /\ page = "address" /\ UrlNext
  /\ UNCHANGED <<draftVars, formVars, editorVars, viewVars, pagerVars, manualVars,
                 libraryVars, panelVars, malVars, artVars, ruleVars, setupVars, shellVars,
                 logVars, valueVars, authVars, page>>

LibraryPage ==
  /\ page = "library" /\ LibraryNext
  /\ UNCHANGED <<draftVars, formVars, editorVars, viewVars, pagerVars, manualVars, urlVars,
                 panelVars, malVars, artVars, ruleVars, setupVars, shellVars,
                 logVars, valueVars, authVars, page>>

ReportsPage ==
  /\ page = "reports" /\ PanelsNext
  /\ UNCHANGED <<draftVars, formVars, editorVars, viewVars, pagerVars, manualVars, urlVars,
                 libraryVars, malVars, artVars, ruleVars, setupVars, shellVars,
                 logVars, valueVars, authVars, page>>

AnimePage ==
  /\ page = "anime" /\ MalNext
  /\ UNCHANGED <<draftVars, formVars, editorVars, viewVars, pagerVars, manualVars, urlVars,
                 libraryVars, panelVars, artVars, ruleVars, setupVars, shellVars,
                 logVars, valueVars, authVars, page>>

ArtworkPage ==
  /\ page = "artwork" /\ ArtNext
  /\ UNCHANGED <<draftVars, formVars, editorVars, viewVars, pagerVars, manualVars, urlVars,
                 libraryVars, panelVars, malVars, ruleVars, setupVars, shellVars,
                 logVars, valueVars, authVars, page>>

\* The automation editor's rule and its sentence.
DraftPage ==
  /\ page = "draft" /\ RuleDraftNext
  /\ UNCHANGED <<draftVars, formVars, editorVars, viewVars, pagerVars, manualVars, urlVars,
                 libraryVars, panelVars, malVars, artVars, setupVars, shellVars,
                 logVars, valueVars, authVars, page>>

SetupWizard ==
  /\ page = "setup" /\ SetupFormNext
  /\ UNCHANGED <<draftVars, formVars, editorVars, viewVars, pagerVars, manualVars, urlVars,
                 libraryVars, panelVars, malVars, artVars, ruleVars, shellVars,
                 logVars, valueVars, authVars, page>>

Shell ==
  /\ page = "shell" /\ ShellNext
  /\ UNCHANGED <<draftVars, formVars, editorVars, viewVars, pagerVars, manualVars, urlVars,
                 libraryVars, panelVars, malVars, artVars, ruleVars, setupVars, logVars,
                 valueVars, authVars, page>>

LogsPage ==
  /\ page = "logs" /\ LogNext
  /\ UNCHANGED <<draftVars, formVars, editorVars, viewVars, pagerVars, manualVars, urlVars,
                 libraryVars, panelVars, malVars, artVars, ruleVars, setupVars, shellVars,
                 valueVars, authVars, page>>

ValueControls ==
  /\ page = "values" /\ ValueNext
  /\ UNCHANGED <<draftVars, formVars, editorVars, viewVars, pagerVars, manualVars, urlVars,
                 libraryVars, panelVars, malVars, artVars, ruleVars, setupVars, shellVars,
                 logVars, authVars, page>>

AuthSection ==
  /\ page = "auth" /\ AuthNext
  /\ UNCHANGED <<draftVars, formVars, editorVars, viewVars, pagerVars, manualVars, urlVars,
                 libraryVars, panelVars, malVars, artVars, ruleVars, setupVars, shellVars,
                 logVars, valueVars, page>>

WebNext ==
  \/ RowsPage \/ FormsPage \/ CronPage \/ RulesPage \/ ViewsPage \/ QueuePage
  \/ ManualPage \/ AddressPage \/ LibraryPage \/ ReportsPage \/ AnimePage \/ ArtworkPage
  \/ DraftPage \/ SetupWizard \/ Shell \/ LogsPage \/ ValueControls
  \/ AuthSection

\* While the sync page is open, the interval polls the jobs it shows, and requests
\* are answered.
QueueFair ==
  /\ WF_pagerVars(page = "queue" /\ PollJobs)
  /\ \A k \in Statuses \X Offsets : WF_pagerVars(page = "queue" /\ JobsLand(k))

\* So does the interval of the artwork page; calls and the server's background
\* fetch end.
ArtFair ==
  /\ WF_artVars(page = "artwork" /\ PollArt)
  /\ WF_artVars(page = "artwork" /\ ArtAnswered)
  /\ WF_artVars(page = "artwork" /\ ArtLands)
  /\ WF_artVars(page = "artwork" /\ FetchEnds)
  /\ WF_artVars(page = "artwork" /\ \E p \in patches : PatchStored(p) \/ PatchAnswered(p))

WebSpec == WebInit /\ [][WebNext]_webVars /\ QueueFair /\ ArtFair

-----------------------------------------------------------------------------
(* The two properties of a page that is open.                              *)

\* On the sync page: however the jobs shrank under it, the table comes to show
\* rows when there are any.
QueueNeverStuckEmpty == page = "queue" => NoEmptyPageForever

\* On the artwork page: whatever order answers came in, the page comes to show
\* what the server has.
ArtworkSettles == page = "artwork" => ShowsTheServer
=============================================================================
