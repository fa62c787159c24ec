------------------------------ MODULE MalPipelines ------------------------------
(***************************************************************************)
(* The buttons of the anime page (MalPage): each pipeline is one request,  *)
(* which takes up to half an hour, "run all" is three or four of them one  *)
(* after the other.  A ref says that one is under way; the buttons are     *)
(* disabled by a state that is rendered a moment later, and the question   *)
(* before "import all" keeps its callback while it is open.  The handlers  *)
(* of a page that was left go on, with its own ref.                        *)
(***************************************************************************)
EXTENDS FiniteSets, Naturals

CONSTANTS
  MaxVisits,   \* bound: how often the page is opened
  Sizes,       \* batch sizes
  Unset        \* no default known yet

ASSUME MalAssumption == MaxVisits \in Nat \ {0}

VARIABLES
  visit,       \* the page that is open
  pipelines,   \* handlers under way: [visit, run, stage, cover]
  busyRef,     \* malPipelineBusyRef
  busyShown,   \* malPipelineBusy, as rendered
  importAsked, \* the question is open
  default,     \* the query's mal_max_ids_per_run, Unset before its data
  batch,       \* malBatchSize: the draft, parsed and clamped
  batchFilled, \* malBatchSizePopulatedRef
  coverage     \* coverage_tagging_enabled

malVars == <<visit, pipelines, busyRef, busyShown, importAsked, default, batch,
             batchFilled, coverage>>

Single == {"ingest", "backlog", "matcher", "tag_sync", "coverage"}
AllStages == <<"backlog", "matcher", "tag_sync", "coverage">>
Kinds == Single \cup {"all", "import_all"}

\* `stage` is the request under way, or "refresh" while the queries are refetched.
Handler == [visit : 1 .. MaxVisits, run : Kinds,
            stage : Single \cup {"refresh"}, cover : BOOLEAN]

MalTypeOK ==
  /\ visit \in 1 .. MaxVisits
  /\ pipelines \in SUBSET Handler
  /\ busyRef \in BOOLEAN /\ busyShown \in BOOLEAN
  /\ importAsked \in BOOLEAN
  /\ default \in Sizes \cup {Unset} /\ batch \in Sizes /\ batchFilled \in BOOLEAN
  /\ coverage \in BOOLEAN

Opened ==
  /\ busyRef' = FALSE /\ busyShown' = FALSE /\ importAsked' = FALSE

MalInit ==
  /\ visit = 1 /\ pipelines = {} /\ busyRef = FALSE /\ busyShown = FALSE
  /\ importAsked = FALSE /\ default = Unset /\ batch \in Sizes /\ batchFilled = FALSE
  /\ coverage \in BOOLEAN

-----------------------------------------------------------------------------
(* The batch size: from the server once, then what is typed.               *)

ConfigLands(n) ==
  /\ default' = n
  /\ IF batchFilled THEN UNCHANGED <<batch, batchFilled>>
                    ELSE batch' = n /\ batchFilled' = TRUE
  /\ coverage' \in BOOLEAN
  /\ UNCHANGED <<visit, pipelines, busyRef, busyShown, importAsked>>

TypeBatch(n) ==
  /\ ~importAsked /\ batch' = n
  /\ UNCHANGED <<visit, pipelines, busyRef, busyShown, importAsked, default, batchFilled, coverage>>

-----------------------------------------------------------------------------
(* runMalPipeline, runAllMalPipelines.                                     *)

RunWhenShown(kind) ==
  IF busyShown THEN UNCHANGED <<pipelines, busyRef>>
  ELSE /\ busyRef' = TRUE
       /\ pipelines' = pipelines \cup
            {[visit |-> visit, run |-> kind, cover |-> coverage,
              stage |-> CASE kind = "all" -> AllStages[1]
                          [] kind = "import_all" -> "backlog"
                          [] OTHER -> kind]}

\* Returns at once when the ref says that a pipeline is under way.
Run(kind) ==
  IF busyRef THEN UNCHANGED <<pipelines, busyRef>>
  ELSE /\ busyRef' = TRUE
       /\ pipelines' = pipelines \cup
            {[visit |-> visit, run |-> kind, cover |-> coverage,
              stage |-> CASE kind = "all" -> AllStages[1]
                          [] kind = "import_all" -> "backlog"
                          [] OTHER -> kind]}

\* A click gets through until the disabled button is rendered.
ClickRun(kind) ==
  /\ ~busyShown /\ ~importAsked
  /\ Run(kind)
  /\ UNCHANGED <<visit, busyShown, importAsked, default, batch, batchFilled, coverage>>

AskImportAll ==
  /\ ~busyShown /\ ~importAsked /\ importAsked' = TRUE
  /\ UNCHANGED <<visit, pipelines, busyRef, busyShown, default, batch, batchFilled, coverage>>

AnswerImportAll(yes) ==
  /\ importAsked /\ importAsked' = FALSE
  /\ IF yes THEN Run("import_all") ELSE UNCHANGED <<pipelines, busyRef>>
  /\ UNCHANGED <<visit, busyShown, default, batch, batchFilled, coverage>>

\* setMalPipelineBusy has been rendered.
RenderBusy ==
  /\ busyShown # busyRef /\ busyShown' = busyRef
  /\ UNCHANGED <<visit, pipelines, busyRef, importAsked, default, batch, batchFilled, coverage>>

\* What follows a request of handler p that was answered.
NextStage(p) ==
  IF p.run # "all" \/ p.stage = "coverage" THEN "refresh"
  ELSE IF p.stage = "tag_sync" /\ ~p.cover THEN "refresh"
  ELSE AllStages[(CHOOSE i \in 1 .. 3 : AllStages[i] = p.stage) + 1]

StageDone(p) ==
  /\ p.stage # "refresh"
  /\ pipelines' = (pipelines \ {p}) \cup {[p EXCEPT !.stage = NextStage(p)]}
  /\ UNCHANGED <<visit, busyRef, busyShown, importAsked, default, batch, batchFilled, coverage>>

\* The end, or an error in any of its requests: `finally`.
PipelineEnds(p) ==
  /\ pipelines' = pipelines \ {p}
  /\ busyRef' = IF p.visit = visit THEN FALSE ELSE busyRef
  /\ UNCHANGED <<visit, busyShown, importAsked, default, batch, batchFilled, coverage>>

\* The page is left and opened again: a new component, the same query.
Revisit ==
  /\ visit < MaxVisits /\ visit' = visit + 1
  /\ Opened
  /\ IF default = Unset THEN batch' \in Sizes /\ batchFilled' = FALSE
                        ELSE batch' = default /\ batchFilled' = TRUE
  /\ UNCHANGED <<pipelines, default, coverage>>

MalNext ==
  \/ \E n \in Sizes : ConfigLands(n) \/ TypeBatch(n)
  \/ \E kind \in Single \cup {"all"} : ClickRun(kind)
  \/ AskImportAll \/ RenderBusy \/ Revisit
  \/ \E yes \in BOOLEAN : AnswerImportAll(yes)
  \/ \E p \in pipelines : StageDone(p) \/ PipelineEnds(p)

MalSpec == MalInit /\ [][MalNext]_malVars

-----------------------------------------------------------------------------
(* Properties.                                                             *)

\* A page has one pipeline under way at a time, whatever is clicked before the
\* buttons are disabled or confirmed in a question asked before the pipeline
\* began ("instead of letting an impatient double-click fire the same (or a
\* different) pipeline twice").
OnePipelineAtATime ==
  \A p, q \in pipelines : p.visit = visit /\ q.visit = visit => p = q
=============================================================================
