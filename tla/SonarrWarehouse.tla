--------------------------- MODULE SonarrWarehouse ---------------------------
(***************************************************************************)
(* The warehouse rows of one Sonarr instance and everything that writes    *)
(* them: the full and reconcile syncs, the incremental sync with its       *)
(* history watermark, and the webhook jobs.  Each of them fetches from     *)
(* Sonarr and writes later, in transactions of its own, while Sonarr's     *)
(* library goes on changing.                                               *)
(*                                                                         *)
(* A row is live or tombstoned; its other columns are left out.  File n of *)
(* an episode is the n-th Sonarr imported for it: an upgrade is a new file *)
(* with a new id.  The history keeps, of each series, the time of its last *)
(* event.                                                                  *)
(***************************************************************************)
EXTENDS Integers

CONSTANTS
  Series, Episodes, SeriesOf,  \* the ids of the library, and each episode's series
  Lanes,          \* the lanes of the full pass: "full", "reconcile"
  Incremental,    \* whether the incremental sync runs
  Drains,         \* the concurrent calls of process_webhook_queue
  MaxFile,        \* bound: files of one episode
  MaxChanges,     \* bound: changes of the library
  MaxFaults       \* bound: failed, empty or file-less fetches, restarts, redeliveries

ASSUME WarehouseAssumption ==
  /\ SeriesOf \in [Episodes -> Series]
  /\ Lanes \subseteq {"full", "reconcile"}
  /\ Incremental \in BOOLEAN
  /\ MaxFile \in Nat \ {0} /\ MaxChanges \in Nat /\ MaxFaults \in Nat

VARIABLES
  library,    \* Sonarr: each series is "new", "in" or "gone"
  disk, made, \* Sonarr: the file of each episode, 0 for none, and files ever imported
  clock,      \* Sonarr: the time; a change may share the time of the one before
  last,       \* Sonarr: time of the last history event of each series, 0 for none
  mail,       \* webhook jobs not yet done
  series, episodes, files,  \* the live rows
  mark,       \* the watermark: last_history_time, 0 when there is none
  full,       \* the state of each full pass
  inc,        \* the state of the incremental pass
  hook,       \* the webhook job each drain has in hand
  stopping,   \* stop_event
  touched,    \* history: series the library changed
  owed,       \* history: series with an event whose effect no pass has written
  blind,      \* history: series the incremental pass listed without the files, and no event since
  changes, faults  \* counters of the bounds

sonarr == <<library, disk, made, clock, last>>
rows == <<series, episodes, files>>
passes == <<full, inc, hook>>
bounds == <<changes, faults>>
history == <<touched, owed, blind>>
vars == <<sonarr, mail, rows, mark, passes, stopping, history, bounds>>

Files == Episodes \X (1 .. MaxFile)
Times == 0 .. MaxChanges + 1
EpisodesOf(s) == {e \in Episodes : SeriesOf[e] = s}
FilesOf(S) == {f \in Files : SeriesOf[f[1]] \in S}
InSonarr == {s \in Series : library[s] = "in"}
OnDisk(E) == {f \in Files : f[1] \in E /\ disk[f[1]] = f[2]}

Jobs == {"refresh", "series_delete"} \X Series \cup {"file_delete"} \X Episodes

\* What list_episodes answers for a series: its episodes with their files, or bare.
Answer(s) == IF library[s] = "in" THEN EpisodesOf(s) ELSE {}
Whole(s) == [of |-> {s}, episodes |-> Answer(s), files |-> OnDisk(Answer(s))]
Bare(s) == [of |-> {s}, episodes |-> Answer(s), files |-> {}]
Answers(s) == {Whole(s), Bare(s)}

Nothing == [of |-> {}, episodes |-> {}, files |-> {}]
Fetched == [of : SUBSET Series, episodes : SUBSET Episodes, files : SUBSET Files]

FullOff == [at |-> "off", todo |-> {}, chunk |-> Nothing, seen |-> Nothing]
IncStages ==
  {"off", "listed", "scoped", "ingesting", "present", "missing", "fetched", "written"}
IncOff == [at |-> "off", list |-> {}, todo |-> {}, latest |-> 0, chunk |-> Nothing]
HookOff == [at |-> "off", job |-> <<>>, chunk |-> Nothing]

TypeOK ==
  /\ library \in [Series -> {"new", "in", "gone"}]
  /\ disk \in [Episodes -> 0 .. MaxFile] /\ made \in [Episodes -> 0 .. MaxFile]
  /\ clock \in Times /\ last \in [Series -> Times] /\ mark \in Times
  /\ mail \subseteq Jobs
  /\ series \subseteq Series /\ episodes \subseteq Episodes /\ files \subseteq Files
  /\ full \in [Lanes -> [at : {"off", "syncing", "tombstones"}, todo : SUBSET Series,
                         chunk : Fetched, seen : Fetched]]
  /\ inc \in [at : IncStages, list : SUBSET Series, todo : SUBSET Series, latest : Times, chunk : Fetched]
  /\ hook \in [Drains -> [at : {"off", "taken", "fetched"}, job : Jobs \cup {<<>>}, chunk : Fetched]]
  /\ stopping \in BOOLEAN
  /\ touched \subseteq Series /\ owed \subseteq Series /\ blind \subseteq Series
  /\ changes \in 0 .. MaxChanges /\ faults \in 0 .. MaxFaults

\* The library is synced, or this is a fresh install.
Init ==
  /\ library \in [Series -> {"new", "in"}]
  /\ disk = [e \in Episodes |-> IF library[SeriesOf[e]] = "in" THEN 1 ELSE 0]
  /\ made = disk
  /\ clock = 1 /\ last = [s \in Series |-> 0] /\ mail = {}
  /\ \/ series = InSonarr /\ episodes = UNION {EpisodesOf(s) : s \in InSonarr}
        /\ files = OnDisk(Episodes) /\ mark = 1
     \/ series = {} /\ episodes = {} /\ files = {} /\ mark = 0
  /\ full = [l \in Lanes |-> FullOff] /\ inc = IncOff
  /\ hook = [w \in Drains |-> HookOff]
  /\ stopping = FALSE /\ touched = {} /\ owed = {} /\ blind = {} /\ changes = 0 /\ faults = 0
------------------------------------------------------------------------------
(* Sonarr.  Its webhooks arrive, late or in any order, or do not.          *)

\* A change of series s; the jobs it may send.
Change(s, J) ==
  /\ changes < MaxChanges /\ changes' = changes + 1
  /\ clock' \in {clock, clock + 1}
  /\ touched' = touched \cup {s}
  /\ mail' \in {mail, mail \cup J}
  /\ UNCHANGED <<rows, mark, passes, stopping, faults>>

\* A change the history records.
Recorded(s) ==
  /\ last' = [last EXCEPT ![s] = clock']
  /\ owed' = owed \cup {s} /\ blind' = blind \ {s}

AddSeries(s) ==
  /\ library[s] = "new"
  /\ library' = [library EXCEPT ![s] = "in"]
  /\ Change(s, {<<"refresh", s>>})
  /\ UNCHANGED <<disk, made, last, owed, blind>>

Import(e) ==
  /\ library[SeriesOf[e]] = "in" /\ made[e] < MaxFile
  /\ made' = [made EXCEPT ![e] = @ + 1]
  /\ disk' = [disk EXCEPT ![e] = made'[e]]
  /\ Change(SeriesOf[e], {<<"refresh", SeriesOf[e]>>})
  /\ Recorded(SeriesOf[e])
  /\ UNCHANGED library

RemoveFile(e) ==
  /\ disk[e] # 0
  /\ disk' = [disk EXCEPT ![e] = 0]
  /\ Change(SeriesOf[e], {<<"file_delete", e>>})
  /\ Recorded(SeriesOf[e])
  /\ UNCHANGED <<library, made>>

\* The series' history goes with it.
DeleteSeries(s) ==
  /\ library[s] = "in"
  /\ library' = [library EXCEPT ![s] = "gone"]
  /\ disk' = [e \in Episodes |-> IF SeriesOf[e] = s THEN 0 ELSE disk[e]]
  /\ last' = [last EXCEPT ![s] = 0]
  /\ owed' = owed \ {s} /\ blind' = blind \ {s}
  /\ Change(s, {<<"series_delete", s>>})
  /\ UNCHANGED made
------------------------------------------------------------------------------
(* The writes                                                              *)

\* _write_sonarr_chunk: every row of the answer is upserted, and live again.
WriteChunk(c) ==
  /\ series' = series \cup c.of
  /\ episodes' = episodes \cup c.episodes
  /\ files' = files \cup c.files

TombstoneParents(seen) ==
  /\ series' = series \cap seen.of
  /\ episodes' = episodes \cap seen.episodes
  /\ UNCHANGED files

\* mark_tombstones on the three tables.
Tombstone(seen) ==
  /\ series' = series \cap seen.of
  /\ episodes' = episodes \cap seen.episodes
  /\ files' = files \cap seen.files

\* _reconcile_incremental_sonarr for a refreshed series.
ReconcilePresent(c) ==
  /\ episodes' = {e \in episodes : SeriesOf[e] \in c.of => e \in c.episodes}
  /\ files' = {f \in files : f[1] \in c.episodes => f \in c.files}
  /\ UNCHANGED series

\* _reconcile_incremental_sonarr for a series that is gone.
ReconcileMissing(S) ==
  /\ series' = series \ S
  /\ episodes' = {e \in episodes : SeriesOf[e] \notin S}
  /\ files' = files \ FilesOf(S)

\* _write_webhook_episodes: an episode's other files are superseded by the one written.
WriteRefresh(c) ==
  /\ episodes' = episodes \cup c.episodes
  /\ files' = {f \in files : \A g \in c.files : g[1] = f[1] => g = f} \cup c.files
  /\ UNCHANGED series
------------------------------------------------------------------------------
(* The full and reconcile passes: _sync_sonarr_full                        *)

Fault == faults < MaxFaults /\ faults' = faults + 1

\* list_episodes: when the request for the files too raises, whatever the reason, it
\* asks again without them.
ListEpisodes(s, c) ==
  \/ c = Whole(s) /\ UNCHANGED faults
  \/ c = Bare(s) /\ Fault

\* list_series; an empty answer may be a fault of the fetch.
FullList(l) ==
  /\ full[l].at = "off" /\ ~stopping
  /\ \E L \in {InSonarr, {}} :
       /\ IF L = InSonarr THEN UNCHANGED faults ELSE Fault
       /\ full' = [full EXCEPT ![l] = [FullOff EXCEPT !.at = "syncing", !.todo = L]]
  /\ UNCHANGED <<sonarr, mail, rows, mark, inc, hook, stopping, history, changes>>

\* list_episodes of the next chunk: one series of the listing.
FullFetch(l, s) ==
  /\ full[l].at = "syncing" /\ full[l].chunk = Nothing
  /\ ~stopping /\ s \in full[l].todo
  /\ \E c \in Answers(s) : ListEpisodes(s, c) /\ full' = [full EXCEPT ![l].chunk = c]
  /\ UNCHANGED <<sonarr, mail, rows, mark, inc, hook, stopping, history, changes>>

FullWrite(l) ==
  /\ full[l].chunk # Nothing
  /\ WriteChunk(full[l].chunk)
  /\ full' = [full EXCEPT ![l].chunk = Nothing,
                          ![l].todo = @ \ full[l].chunk.of,
                          ![l].seen = [of |-> @.of \cup full[l].chunk.of,
                                       episodes |-> @.episodes \cup full[l].chunk.episodes,
                                       files |-> @.files \cup full[l].chunk.files]]
  /\ UNCHANGED <<sonarr, mail, mark, inc, hook, stopping, history, bounds>>

CompleteAlways == TRUE

\* "Tombstones require a complete seen-set."
Complete == ~stopping

\* The loop is through, or was left for the stop.
FullLoopEnds(l) ==
  /\ full[l].at = "syncing" /\ full[l].chunk = Nothing
  /\ stopping \/ full[l].todo = {}
  /\ full' = [full EXCEPT ![l] = IF Complete THEN [@ EXCEPT !.at = "tombstones"] ELSE FullOff]
  /\ UNCHANGED <<sonarr, mail, rows, mark, inc, hook, stopping, history, bounds>>

\* The mass-tombstone guard raises.
EmptyFetch(seen) == seen.of = {} /\ series # {}

FullTombstones(l) ==
  /\ full[l].at = "tombstones"
  /\ IF EmptyFetch(full[l].seen) THEN UNCHANGED rows ELSE Tombstone(full[l].seen)
  /\ full' = [full EXCEPT ![l] = FullOff]
  /\ UNCHANGED <<sonarr, mail, mark, inc, hook, stopping, history, bounds>>

\* A fetch or a write raises.
FullFails(l) ==
  /\ full[l].at # "off" /\ Fault
  /\ full' = [full EXCEPT ![l] = FullOff]
  /\ UNCHANGED <<sonarr, mail, rows, mark, inc, hook, stopping, history, changes>>
------------------------------------------------------------------------------
(* The incremental pass: _sync_incremental                                 *)

\* _refresh_scope_fields lists the series; a failed fetch is passed over.
ScopeList ==
  /\ Incremental /\ inc.at = "off" /\ ~stopping
  /\ \E L \in {InSonarr, {}} :
       /\ IF L = InSonarr THEN UNCHANGED faults ELSE Fault
       /\ inc' = [IncOff EXCEPT !.at = "listed", !.list = L]
  /\ UNCHANGED <<sonarr, mail, rows, mark, full, hook, stopping, history, changes>>

\* _write_scope_rows upserts, and never tombstones.
ScopeWrite ==
  /\ inc.at = "listed"
  /\ series' = series \cup inc.list
  /\ inc' = [IncOff EXCEPT !.at = "scoped"]
  /\ UNCHANGED <<sonarr, mail, episodes, files, mark, full, hook, stopping, history, bounds>>

\* list_history_since: records at the watermark are included.
HistorySince(m) == {s \in Series : last[s] # 0 /\ last[s] >= m}

\* The watermark is read and the history fetched.  The first time it only
\* establishes the watermark: what is owed by then is the full sync's job.
HistoryFetch ==
  /\ inc.at = "scoped"
  /\ \E latest \in {0} \cup {last[s] : s \in HistorySince(mark)} :
       /\ \A s \in HistorySince(mark) : last[s] <= latest
       /\ inc' = [IncOff EXCEPT !.at = "ingesting",
                                !.todo = IF mark = 0 THEN {} ELSE HistorySince(mark),
                                !.latest = latest]
  /\ owed' = IF mark = 0 THEN {} ELSE owed
  /\ UNCHANGED <<sonarr, mail, rows, mark, full, hook, stopping, touched, blind, bounds>>

\* get_series of the next chunk, None for a 404.
IncAsk(s) ==
  /\ inc.at = "ingesting" /\ ~stopping /\ s \in inc.todo
  /\ inc' = [inc EXCEPT !.at = IF library[s] = "in" THEN "present" ELSE "missing",
                        !.chunk = [Nothing EXCEPT !.of = {s}]]
  /\ UNCHANGED <<sonarr, mail, rows, mark, full, hook, stopping, history, bounds>>

IncFetch ==
  /\ inc.at = "present"
  /\ \E s \in inc.chunk.of : \E c \in Answers(s) :
       /\ ListEpisodes(s, c)
       /\ inc' = [inc EXCEPT !.at = "fetched", !.chunk = c]
       /\ blind' = IF c = Whole(s) THEN blind ELSE blind \cup {s}
  /\ UNCHANGED <<sonarr, mail, rows, mark, full, hook, stopping, touched, owed, changes>>

IncWrite ==
  /\ inc.at = "fetched"
  /\ WriteChunk(inc.chunk)
  /\ inc' = [inc EXCEPT !.at = "written"]
  /\ UNCHANGED <<sonarr, mail, mark, full, hook, stopping, history, bounds>>

\* The chunk's reconcile, in a transaction of its own.  An event is written when the
\* rows are as Sonarr has them, the files among them.
IncReconcile ==
  /\ inc.at \in {"written", "missing"}
  /\ IF inc.at = "written" THEN ReconcilePresent(inc.chunk) ELSE ReconcileMissing(inc.chunk.of)
  /\ inc' = [inc EXCEPT !.at = "ingesting", !.todo = @ \ inc.chunk.of, !.chunk = Nothing]
  /\ owed' = {s \in owed : inc.chunk # Whole(s)}
  /\ UNCHANGED <<sonarr, mail, mark, full, hook, stopping, touched, blind, bounds>>

AdvanceAlways == inc.latest # 0

\* An interrupted ingest must not advance the watermark; no event leaves it.
Advance == ~stopping /\ inc.latest # 0

IncEnds ==
  /\ inc.at = "ingesting"
  /\ stopping \/ inc.todo = {}
  /\ mark' = IF Advance THEN inc.latest ELSE mark
  /\ inc' = IncOff
  /\ UNCHANGED <<sonarr, mail, rows, full, hook, stopping, history, bounds>>

\* A fetch or a write raises.
IncFails ==
  /\ inc.at # "off" /\ Fault
  /\ inc' = IncOff
  /\ UNCHANGED <<sonarr, mail, rows, mark, full, hook, stopping, history, changes>>
------------------------------------------------------------------------------
(* The webhook jobs of a drain: process_webhook_queue.  Retries and        *)
(* backoff bring them in any order.                                        *)

HookTake(w, j) ==
  /\ hook[w].at = "off" /\ ~stopping
  /\ j \in mail
  /\ hook' = [hook EXCEPT ![w] = [HookOff EXCEPT !.at = "taken", !.job = j]]
  /\ UNCHANGED <<sonarr, mail, rows, mark, full, inc, stopping, history, bounds>>

HookFetch(w) ==
  /\ hook[w].at = "taken" /\ hook[w].job[1] = "refresh"
  /\ \E c \in Answers(hook[w].job[2]) :
       /\ ListEpisodes(hook[w].job[2], c)
       /\ hook' = [hook EXCEPT ![w].at = "fetched", ![w].chunk = c]
  /\ UNCHANGED <<sonarr, mail, rows, mark, full, inc, stopping, history, changes>>

\* The job is acknowledged; one that was redelivered comes back.
HookDone(w) ==
  /\ \/ mail' = mail \ {hook[w].job} /\ UNCHANGED faults
     \/ Fault /\ UNCHANGED mail
  /\ hook' = [hook EXCEPT ![w] = HookOff]
  /\ UNCHANGED <<sonarr, mark, full, inc, stopping, history, changes>>

HookRefresh(w) ==
  /\ hook[w].at = "fetched"
  /\ WriteRefresh(hook[w].chunk)
  /\ HookDone(w)

\* _tombstone_webhook_series_delete: the files first, and not the episodes.
HookSeriesDelete(w) ==
  /\ hook[w].at = "taken" /\ hook[w].job[1] = "series_delete"
  /\ files' = files \ FilesOf({hook[w].job[2]})
  /\ series' = series \ {hook[w].job[2]}
  /\ UNCHANGED episodes
  /\ HookDone(w)

\* _tombstone_webhook_episodes, for every other event whose type says "delete".
HookFileDelete(w) ==
  /\ hook[w].at = "taken" /\ hook[w].job[1] = "file_delete"
  /\ episodes' = episodes \ {hook[w].job[2]}
  /\ UNCHANGED <<series, files>>
  /\ HookDone(w)

\* The job fails and waits for its retry.
HookFails(w) ==
  /\ hook[w].at # "off" /\ Fault
  /\ hook' = [hook EXCEPT ![w] = HookOff]
  /\ UNCHANGED <<sonarr, mail, rows, mark, full, inc, stopping, history, changes>>
------------------------------------------------------------------------------
Stop ==
  /\ ~stopping /\ Fault
  /\ stopping' = TRUE
  /\ UNCHANGED <<sonarr, mail, rows, mark, passes, history, changes>>

\* The process is gone, killed or at the end of its shutdown, and a new one is up.
Restart ==
  /\ IF stopping THEN UNCHANGED faults ELSE Fault
  /\ stopping' = FALSE
  /\ full' = [l \in Lanes |-> FullOff] /\ inc' = IncOff
  /\ hook' = [w \in Drains |-> HookOff]
  /\ UNCHANGED <<sonarr, mail, rows, mark, history, changes>>

SonarrStep ==
  \/ \E s \in Series : AddSeries(s) \/ DeleteSeries(s)
  \/ \E e \in Episodes : Import(e) \/ RemoveFile(e)

FullStep(l) ==
  \/ FullList(l) \/ (\E s \in Series : FullFetch(l, s)) \/ FullWrite(l)
  \/ FullLoopEnds(l) \/ FullTombstones(l)

IncStep ==
  \/ ScopeList \/ ScopeWrite \/ HistoryFetch
  \/ (\E s \in Series : IncAsk(s)) \/ IncFetch \/ IncWrite \/ IncReconcile \/ IncEnds

HookStep(w) ==
  \/ (\E j \in Jobs : HookTake(w, j)) \/ HookFetch(w)
  \/ HookRefresh(w) \/ HookSeriesDelete(w) \/ HookFileDelete(w)

Next ==
  \/ SonarrStep
  \/ \E l \in Lanes : FullStep(l) \/ FullFails(l)
  \/ IncStep \/ IncFails
  \/ \E w \in Drains : HookStep(w) \/ HookFails(w)
  \/ Stop \/ Restart

\* The scheduler starts the passes again and again, a pass or job that runs goes
\* on, and the process comes back.
Fairness ==
  /\ \A l \in Lanes : WF_vars(FullStep(l))
  /\ WF_vars(IncStep)
  /\ \A w \in Drains : WF_vars(HookStep(w))
  /\ WF_vars(stopping /\ Restart)

Spec == Init /\ [][Next]_vars /\ Fairness
------------------------------------------------------------------------------
(* Properties                                                              *)

\* What a pass read of a series came without the files that are on disk.
Unlisted(c, s) ==
  /\ s \in c.of /\ OnDisk(EpisodesOf(s)) # {}
  /\ c.files \cap FilesOf({s}) = {}

\* A pass takes the absence of a series' files from its list for their removal.
TombstonesUnlisted(s) ==
  \/ \E l \in Lanes : FullTombstones(l) /\ Unlisted(full[l].seen, s)
  \/ inc.at = "written" /\ IncReconcile /\ Unlisted(inc.chunk, s)

\* The rows of a series that nothing happened to since the start are not
\* tombstoned: not by a pass that was interrupted, failed, met an empty listing or
\* ran beside others, nor by the changes and webhooks of other series.  Only its
\* files are, all of them, and only by a pass that read the series to the end from a
\* list without them (mark_tombstones against the seen-sets).
SteadyRowsStayLive ==
  [][LET Steady == {s \in InSonarr : s \notin touched'} IN
       /\ series \cap Steady \subseteq series'
       /\ {e \in episodes : SeriesOf[e] \in Steady} \subseteq episodes'
       /\ \A f \in files \cap FilesOf(Steady) \cap OnDisk(Episodes) :
            f \in files' \/ TombstonesUnlisted(SeriesOf[f[1]])]_vars

\* The docstring of tombstone_superseded_episode_files: an absent episodeFile can
\* mean "not included in this response", and "tombstoning on absence would wipe live
\* rows for files that are still there".  No pass does.
AbsenceIsNotRemoval ==
  [][\A f \in files \cap OnDisk(Episodes) :
       SeriesOf[f[1]] \notin touched' => f \in files']_vars

\* The watermark does not pass a recorded change before a pass has written it: the
\* next incremental pass still finds the event (_sync_incremental).  The one way
\* around it: the pass did list the series after the event, and got no files.
WatermarkCovers == mark # 0 => owed \ blind \subseteq HistorySince(mark)

\* The watermark never goes back: no pass reads again what one before it was past
\* (_sync_incremental, update_watermark_for_instance).
WatermarkNeverBack == [][mark <= mark']_vars

\* Nothing is dated in the future.
Dated ==
  /\ clock \in Nat \ {0}
  /\ last \in [Series -> Nat] /\ \A s \in Series : last[s] <= clock
  /\ mark \in Nat /\ mark <= clock
  /\ inc \in [at : IncStages, list : SUBSET Series, todo : SUBSET Series, latest : Nat, chunk : Fetched]
  /\ inc.latest <= clock

\* Only a series of the library has files, and a history to owe something to.
Filed ==
  /\ library \in [Series -> {"new", "in", "gone"}]
  /\ disk \in [Episodes -> 0 .. MaxFile] /\ made \in [Episodes -> 0 .. MaxFile]
  /\ \A e \in Episodes : disk[e] # 0 => library[SeriesOf[e]] = "in"
  /\ owed \subseteq {s \in InSonarr : last[s] # 0}

\* What is owed while a pass ingests is still to be written by it, or comes too
\* late for the watermark it will set.
IngestCovers ==
  inc.at \in {"ingesting", "present", "missing", "fetched", "written"} =>
    \A s \in owed \ blind : s \in inc.todo \/ last[s] >= inc.latest

\* A chunk is all that Sonarr has, unless it changed too late for that watermark.
ChunkCurrent ==
  inc.at \in {"missing", "fetched", "written"} =>
    \A s \in (owed \cap inc.chunk.of) \ blind :
      inc.chunk = Whole(s) \/ last[s] >= inc.latest

\* The strengthening of WatermarkCovers that is inductive.
WatermarkInv == Dated /\ Filed /\ IngestCovers /\ ChunkCurrent /\ WatermarkCovers

\* The rows of a series are the library's.
ShowsTitles(s) ==
  /\ s \in series <=> s \in InSonarr
  /\ {e \in episodes : SeriesOf[e] = s} = Answer(s)
ShowsFiles(s) == files \cap FilesOf({s}) = OnDisk(Answer(s))
Shows(s) == ShowsTitles(s) /\ ShowsFiles(s)

Mirror == \A s \in Series : Shows(s)

\* Once the library rests the warehouse comes to show it, whatever was lost,
\* stale, interrupted or retried before, unless the library was emptied: that the
\* mass-tombstone guard refuses to believe.
Converges == <>[](Mirror \/ InSonarr = {})

\* Nothing happened to these series of the library since the start.
Steady == InSonarr \ touched

OfTouched(j) == (IF j[1] = "file_delete" THEN SeriesOf[j[2]] ELSE j[2]) \in touched

\* A job, also one in hand, is about a series that changed.
JobsOfTouched ==
  /\ \A j \in mail : OfTouched(j)
  /\ \A w \in Drains : hook[w].at # "off" => OfTouched(hook[w].job)

\* What was fetched is of its own series, and of a steady one all there is, if not
\* the files.
Fits(c) ==
  /\ \A e \in c.episodes : SeriesOf[e] \in c.of
  /\ \A f \in c.files : f[1] \in c.episodes
  /\ \A s \in Steady \cap c.of : c \in Answers(s)

FetchedFits ==
  /\ \A l \in Lanes : Fits(full[l].chunk)
  /\ inc.at \in {"fetched", "written"} => Fits(inc.chunk)
  /\ inc.at = "missing" => inc.chunk.of \cap Steady = {}
  /\ \A w \in Drains : hook[w].at = "fetched" =>
       /\ hook[w].job[1] = "refresh" /\ hook[w].chunk.of = {hook[w].job[2]}
       /\ Fits(hook[w].chunk)

\* Where a full pass is, and what it has in hand there.
FullAt(l) ==
  /\ full[l].at # "syncing" => full[l].chunk = Nothing
  /\ full[l].at = "tombstones" => full[l].todo = {}

\* A full pass has seen a steady series whole, or all but its files, or still has it to
\* do, unless its listing came back empty.
SeenSteady(l) ==
  /\ \A f \in full[l].seen.files : SeriesOf[f[1]] \in full[l].seen.of
  /\ \A s \in Steady \cap full[l].seen.of :
       /\ EpisodesOf(s) \subseteq full[l].seen.episodes
       /\ OnDisk(EpisodesOf(s)) \subseteq full[l].seen.files \/ Unlisted(full[l].seen, s)
  /\ \/ full[l].at = "off"
     \/ Steady \subseteq full[l].todo \cup full[l].seen.of
     \/ full[l].todo = {} /\ full[l].chunk = Nothing /\ full[l].seen.of = {}

\* No row of a steady series is live without the row of the series: when there is
\* no series left, the mass-tombstone guard has nothing to protect.
SteadyWhole ==
  \A s \in Steady \ series :
    (\A e \in episodes : SeriesOf[e] # s) /\ (\A f \in files : SeriesOf[f[1]] # s)

\* The strengthening of SteadyRowsStayLive that is inductive, with the types.
SteadyInv ==
  /\ JobsOfTouched /\ FetchedFits
  /\ \A l \in Lanes : FullAt(l) /\ SeenSteady(l)
  /\ SteadyWhole

\* A job that is done while the library rests tombstones nothing that is there.
Harmless(j) ==
  /\ j[1] = "series_delete" => j[2] \notin InSonarr
  /\ j[1] = "file_delete" => SeriesOf[j[2]] \notin InSonarr

\* What was fetched is what Sonarr answers.
Current(c) == \E s \in c.of : c \in Answers(s)

\* Its rows are live.
Live(c) == c.of \subseteq series /\ c.episodes \subseteq episodes /\ c.files \subseteq files

\* What a full pass has seen is current, if not always with the files, and live.
SeenCurrent(l) ==
  LET p == full[l] IN
  /\ FullAt(l)
  /\ p.todo \cup p.chunk.of \cup p.seen.of \subseteq InSonarr
  /\ p.at = "off" \/ p.todo \cup p.seen.of \in {{}, InSonarr}
  /\ p.chunk.of \subseteq p.todo /\ (p.chunk = Nothing \/ Current(p.chunk))
  /\ p.seen.episodes = UNION {EpisodesOf(s) : s \in p.seen.of}
  /\ p.seen.files \subseteq OnDisk(p.seen.episodes)
  /\ \A s \in p.seen.of : OnDisk(EpisodesOf(s)) \subseteq p.seen.files \/ Unlisted(p.seen, s)
  /\ Live(p.seen)

\* Nothing under way is behind the library.
Calm ==
  /\ \A j \in mail : Harmless(j)
  /\ \A w \in Drains : hook[w].at # "off" =>
       Harmless(hook[w].job) /\ (hook[w].at = "fetched" => Current(hook[w].chunk))
  /\ inc.at = "listed" => inc.list \subseteq InSonarr
  /\ inc.at = "missing" => inc.chunk.of \cap InSonarr = {}
  /\ inc.at \in {"present", "fetched", "written"} => inc.chunk.of \subseteq InSonarr
  /\ inc.at \in {"fetched", "written"} => Current(inc.chunk)
  /\ inc.at = "written" => Live(inc.chunk)
  /\ \A l \in Lanes : SeenCurrent(l)

\* While the library rests, a calm lasts, through every pass, job, failure, stop and
\* restart, until a pass tombstones files its list came without; a series whose rows
\* show the library goes on showing it, up to those files; a full pass that saw any
\* series at all repairs the rows of every series (mark_tombstones), and the incremental
\* pass those of each series it reconciles (_reconcile_incremental_sonarr), whatever
\* the rows were, up to the files its own list came without.
CalmRepairs ==
  [][Calm /\ UNCHANGED sonarr =>
       /\ Calm' \/ \E s \in Series : TombstonesUnlisted(s)
       /\ \A s \in Series :
            /\ ShowsTitles(s) => ShowsTitles(s)'
            /\ Shows(s) => ShowsFiles(s)' \/ TombstonesUnlisted(s)
       /\ \A l \in Lanes : FullTombstones(l) /\ full[l].seen.of # {} =>
            \A s \in Series : ShowsTitles(s)' /\ (ShowsFiles(s)' \/ Unlisted(full[l].seen, s))
       /\ IncReconcile =>
            \A s \in inc.chunk.of : ShowsTitles(s)' /\ (ShowsFiles(s)' \/ Unlisted(inc.chunk, s))]_vars

\* The promise of acquire_source_write_lock, "an in-flight tombstone can't race a
\* webhook upsert": the row of a file that is on disk is not tombstoned, by a pass that
\* was told of the files of its series.
FilesOnDiskStayLive ==
  [][\A f \in files :
       \/ f \in files'
       \/ disk'[f[1]] # f[2]
       \/ TombstonesUnlisted(SeriesOf[f[1]])]_vars
==============================================================================
