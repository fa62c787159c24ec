# Nebularr: a verification project

Nebularr is a single-process FastAPI application (`src/src/arrsync`) that
mirrors the libraries of Sonarr and Radarr instances into a Postgres
"warehouse", and a React application (`src/frontend/src`) through which it is
set up, watched and operated. On the server, scheduled passes, webhooks and
operators write the same rows, each in short transactions with HTTP calls in
between. In the browser, polls, events, optimistic saves and user input change
the same screens, each with requests in flight. This directory holds TLA+
models of the parts where that is hard to get right, the TLC configurations
that check them, and TLAPS proofs about them. `PROJECT.json` is the index:
components, runs, mutants, theorems, hazards, and for every definition the
source lines it models.

Server paths below are relative to `src/src/arrsync`, paths of the web
interface to `src/frontend/src`.

## 1. Inventory

### The server

| Component | State | Operations | Meets | Hard behaviour | What makes it correct |
|---|---|---|---|---|---|
| **Sync lanes and job lock** (`services/sync_service.py`, `services/repository.py`, `routers/sync_ops.py`) | one `app.job_lock` row per `source:mode`; a heartbeat task per run | `try_job_lock`, heartbeat, release, `?wait=false` reservation, clear-stuck | scheduler, API, operator, shutdown | missed heartbeats, crash, an owner id shared by the whole process, operator deletes | one run of a lane at a time; a lock left behind recovers |
| **Webhook queue** (`routers/hooks.py`, `process_webhook_queue`, `database_lifecycle.py`, `routers/operator.py`) | `app.webhook_queue` rows; in-memory `drain_pending_sources`, `drain_wakeup` | enqueue with dedupe, claim, done, failed, prune, replay, requeue | receiver, background drain, cron drains, operator | overlapping drains, visibility window, crash between effect and ack, lost signal, unique index | no two drains on a row within its window, every event settled, dead letters exhausted, replay works |
| **Sonarr warehouse sync** (`sync_service.py`, `repository.py`) | live/tombstoned rows of series, episodes, files; history watermark; seen-sets of passes | full/reconcile pass, incremental pass, webhook writes | Sonarr's API, job queue, stop event | fetch-then-write races, interrupted passes, empty or partial answers, timestamp ties | untouched rows stay live, the watermark covers what is unwritten, the mirror converges |
| **Radarr warehouse sync** (same files) | live/tombstoned movies and files; watermark | the same passes over movies | Radarr's API | as Sonarr; `get_movie` 404 against a listing | as Sonarr |
| **Run ledger and progress** (`repository.py` 76-197, 1244-1280) | `warehouse.sync_run`, `app.job_run_summary` | create, progress, finish, startup sweep, clear-stuck, reset | every run | sweep or clear of a live run, then its finish; a webhook job that fails leaves its run row running | every run row ends, once, with the run's outcome |
| **Automations** (`services/automation_*.py`) | rules, runs, the action ledger, per-rule state | run, budget, cooldown, search, tag | job lock (no heartbeat), Arr API, alerts | lease shorter than the run, cap read before it is spent, search sent and ledger not written | caps and cooldowns hold; nothing is searched twice |
| **Alerts and event bus** (`services/alert_notifier.py`, `events.py`) | last alerted state; subscriber queues | evaluate, deliver, remember; publish, dispatch | health loop, SSE clients | delivery outside the lock; full queues | a transition is reported once; a slow client stalls no one |
| **Tag sync** (`mal/tag_sync_service.py`, `services/coverage_tag_service.py`) | tags in Sonarr/Radarr | diff a live listing, add, remove | Arr API, other editors | listing stale when applied, one call of two fails | re-running converges; foreign tags untouched |
| **MAL ingest and matcher** (`mal/`) | anime rows, links, dub lists | ingest in batches, match | HTTP clients, job lock | partial batch, stopped in between | a batch resumes where it ended |
| **Artwork cache** (`services/artwork_service.py`) | files on disk, per-key locks | get, prefetch, prune, cap | requests in parallel | prune by an old key list, cap against a store | a served image is the current one |
| **Scheduler, lifecycle** (`services/scheduler.py`, `main.py`, `database_lifecycle.py`) | scheduled jobs, background tasks, `stop_event` | start, reload, shutdown | everything | shutdown while runs are inside | every task reaches its finalizer or is recovered |
| **Settings, setup, auth** (`routers/config.py`, `routers/setup.py`, `auth.py`, stores) | setting rows; a five-second cache | read, upsert, sign in | all | stale cache | single-row upserts |
| **Reporting and library APIs** | none of their own | reads | warehouse | none of note | out of scope |

### The web interface

| Component | State | Operations | Meets | Hard behaviour | What makes it correct |
|---|---|---|---|---|---|
| **Live updates** (`hooks/useServerEvents.ts`, the query cache) | an EventSource or a reconnect timer, failures, debounce timers; data, error and request per query | open, fail, reconnect, probe, invalidate, poll | `/api/ui/events`, every page | dropped events, a tab hidden and shown, a 401 the stream cannot tell from an outage, requests that overtake each other | one driver; nothing stale without a cause; fresh in the end |
| **Setup gate, sign-in, wizard** (`routes/RequireSetup.tsx`, `pages/SetupPage.tsx`, `pages/LoginPage.tsx`, `App.tsx`) | the setup-status query, route, wizard step and form, the re-login latch | redirect, step, submit, initial sync, sign in and out | auth and setup APIs | a cached refusal that outlives the sign-in, redirects made by rendering, steps skipped or gone back over | signing in gets inside; nothing unsecured is submitted; only what was stored is synchronised |
| **Editable tables** (`hooks/useDraftSync.ts`, schedules, integrations) | drafts, dirty rows, saves under way | edit, save, refetch, merge, reset | config API, other tabs | overlapping saves, refetch under an edit | clean rows show the list, dirty rows are kept |
| **Settings forms** (retention, MAL, alerts, logging, authentication) | fields, "loaded" refs, an issued token | fill, edit, save, rotate, revoke, set a password | config and auth APIs | a save before the load, a token shown once, a password that ends its own session | unloaded fields are not stored; the token shown is valid; the tab keeps its access |
| **Automation rules** (`pages/AutomationsPage.tsx`, `pages/automations/`) | panel, draft, validity, open question | open, edit, check, save, switch | automations API | answers of a closed editor, a stale row sent whole, a sentence written apart from the selection | Save is disabled by a verdict on this rule; the sentence says what the rule does |
| **Saved views and addresses** (`components/nebula/SavedViews.tsx`, `pages/libraryUrlState.ts`) | optimistic list, migration, `lastWrittenSearch` | save, delete, migrate, write and apply an address | UI API, router | overlapping optimistic saves and rollbacks, an address rendered late | the list settles on the server's; own writes never revert a view |
| **Library, reports, queue, sync** (`pages/LibraryPage.tsx`, `pages/ReportingPage.tsx`, `pages/SyncQueuePage.tsx`) | filters, pages, selections, the confirmation dialog | filter, page, drill down, link, confirm | read APIs, operator API | filters kept for another show, pages of other rows, a count that shrinks, a callback made before the boxes changed | filters and pages fit what they filter; a typed phrase belongs to its question |
| **Anime, artwork, logs** (`pages/MalPage.tsx`, `pages/ArtworkPage.tsx`, `pages/LogsPage.tsx`) | a busy ref, switches, scroll position | run, switch, poll, follow | MAL, artwork and log APIs | double clicks, answers out of order, scroll events that come late | one pipeline at a time; the page settles on the server; a reader is not moved |
| **Shell** (`layout/AppLayout.tsx`) | route, palette, shortcuts | open, type, arrow, enter | all pages | an index into a list that changes | the highlight is a match |
| **Home, charts, building blocks** | none of their own | render | queries | none of note | not modelled |

## 2. Plan

Most important first; 1 to 7 are done.

1. `SyncTurns` (abstract), `SyncLease`, `SyncLeaseProofs`: the lock that every pass relies on.
2. `WebhookLifecycle` (abstract), `WebhookQueue`, `WebhookQueueProofs`.
3. `SonarrWarehouse`: what the passes and webhooks together do to the rows;
   `SonarrWatermarkProofs` for its watermark.
4. `EventStream`, and `LiveUpdates` which composes it with the query cache;
   `LiveUpdatesProofs`. `SessionGate`, `SessionGateProofs`.
5. The pages, one module each, and `WebPages` which composes them;
   `PageProofs` and `EditingProofs`.
6. `RuleDraft` and `RuleModes`: the sentence about a rule against its
   selection, and the switches of a rule.
7. `SonarrRowsProofs`: the types of `SonarrWarehouse`, that untouched rows stay
   live, and what a full and an incremental pass repair while the library
   rests; the types of the pages together, and the pages' recursive functions in
   set form.
8. `RadarrWarehouse`, sharing the shape of `SonarrWarehouse`; `RunLedger` with
   the abstract specification that a run row ends once; `AutomationRun` with a
   lock without heartbeat, a shared daily cap, ledger and cooldown.
9. `WebhookEffects`: the queue's deduplication composed with the fetch of a
   job, for the event dropped while its twin is in hand.

Steps 8 and 9 are models still to be written. Of what is modelled, every safety
property a run checks is proved, and what is left to TLC is liveness (section
5). `CalmIsRepaired` takes the place of an abstract specification of the rows:
that the set of series whose rows are right only grows while the library rests
is its second conjunct.

Every module declares its parameters as CONSTANTS with a named ASSUME where it
needs one, has one action per operation, and uses no RECURSIVE operator, so
that it can be proved about: what the code repeats (`Array.filter`, an effect
that runs until it rests) is a recursive function on a set.

## 3. The models

### SyncLease: one lane's lock

`owner`/`left` are the row's `owner_id` and the ticks until `expires_at`
(`-1` for any time after it, since the code compares `expires_at < now()`).
`pc` is where each call of `run_sync` is; `sleep`, `misses` are its heartbeat
task. All runs of a process use one `lock_owner_id`, so the owner is the
process number `epoch`. The actions follow the code in order: the stop check
(`SkipStopping`, `CheckStop`), an await in which `stop_event` may still be set,
the lock statement (`SkipBusy`, `Start`), `Heartbeat` and
`HeartbeatFails`, the `finally` block in two steps (`Finish`, then `Release` or
`ReleaseFails`), `Reserve`/`Refuse` for `?wait=false`, `OperatorClear`, and the
process (`Stop`, `Exit`, `Crash`, `Boot`). What happens between `Start` and
`Finish` is left to `SonarrWarehouse`.

`disturbed` is a history variable: an operator deleted the row under a live
run. The code has no defence against that (the deletes do not look for live
runs, and afterwards the runs of the process release each other's locks), so
the exclusion is claimed for undisturbed processes, and `TakesTurns` allows a
second run only then. A new process starts undisturbed.

One assumption is about time: `(MaxMisses + 1) * HbInterval + ReleaseTicks <=
Lease`, that is, not more renewals are missed in a row than the lease covers
(1800 s against 300 s: five), and `Tick` does not pass a due renewal. A run
whose event loop is blocked for longer than its lease is outside the model. So
is a heartbeat task that ends on `stop_event` before its run does, except that
a stopping process has at most `Grace < HbInterval` ticks.

### WebhookQueue: one source's queue

`key`, `status`, `attempts`, `due` are the columns (`due` is the ticks until
`next_attempt_at`). A drain is one concurrent call of `process_webhook_queue`:
`stage`, `round`, its claimed `batch`, the attempts the claim returned
(`tries`), the row whose effect is written and not yet acknowledged (`cur`) and
the ticks since its claim (`spent`). `wake`, `pending`, `bg` are the signal
from the receiver and the background task's loop. `Claim` takes the oldest due
rows, whatever their attempts; `AckDone` and `AckFailed` look at nothing but
the id, as the statements do; `Finish` ends with the prune. `Abandon` is a stop
between two jobs or an exception outside the per-job `try`; `Crash` loses every
drain and the signal. `Requeue` carries the guard of the partial unique index:
an update that would open two rows of a key fails as a whole.

A claim hides its rows for `Visibility` ticks. Nothing in the code ends a batch
by then or renews the claim, so `Deadline`, which only bounds how long one batch
is followed, may reach the window and is assumed to be nothing but a number.
`exposed` is the history variable of what that does: rows open to other drains
while one was on them, since an operator requeued them or their window ran out
(`Tick`). Until then a claim holds and excludes (`ClaimHolds`,
`OneDrainPerJob`). An exposed row may be claimed by a second drain, and the
later acknowledgement, which looks only at the id, may turn a row that is done
back to retrying or into a dead letter: that is all it may do, and only to an
exposed row (`FollowsLifecycle`). The comment on the claim says more, that an
overlapping pass cannot grab the row "before this one acks" (`repository.py`
765); of a batch that outlasts its window that is not so.

The deduplication key covers the whole payload; a key is a model value. Rows are
numbered in received order. A drain's `round`, `batch` and `spent` are locals of
its call and are forgotten when it ends.

### SonarrWarehouse: one instance's rows

The library (`library`, `disk`, `last`) changes on its own and sends webhooks
that may be lost, late or reordered (`mail`). `series`, `episodes`, `files` are
the live rows; the other columns are left out, `episode.episode_file_id` among
them. `full[l]` is a pass of `_sync_sonarr_full` (full or reconcile lane), with
its listing, the chunk it has fetched and not yet written, and its seen-sets;
`inc` is `_sync_incremental` with its scope refresh, history fetch, chunks and
the watermark; `hook[w]` is the job a drain has in hand. Each transaction of
the code is one action and each HTTP call another, so every interleaving of
fetch, change and write is there. The mass-tombstone guard and the check of
`stop_event` before the tombstones are where the code has them.

Simplifications, each deliberate: a chunk is one series (the code fetches
several series of a chunk at once, which has fewer interleavings per series);
the episodes of a series are fixed; an `EpisodeFileDelete` job tombstones the
episode's row, as the code does, and leaves the file's row to the next pass;
`history/since` and the paged walk answer alike, with records at the watermark
included, and the cap of 25 pages is not reached; a series' history goes with
it when it is deleted. Webhook jobs are kept as a set: the queue's order and
retries are `WebhookQueue`'s. Malformed answers other than an empty listing and
an episode list without files are not modelled.

Every fetch of episodes may come back bare, without the files: `list_episodes`
repeats a request that fails with `includeEpisodeFile` without it
(`arr_client.py` 240-243). A bare list of a series that has files counts as a
fault, so a run has as many of them as `MaxFaults`, which is unbounded in the
proofs; only for liveness does it matter that they stop, and an instance whose
capability probe says no, and lists every series bare, does not converge. The
pass that gets a bare list counts the series as seen and tombstones its files.
So what the rows promise is up to the files a pass's own list came without:
`TombstonesUnlisted(s)` is the step that tombstones them, and `SonarrBareList`
shows it for a library in which nothing happens.

`owed` and `blind` are history variables. A series owes while its last event was
written by no pass, and only a reconcile with the whole list of the series
(`Whole(s)`) pays; one with a bare list has written titles only. `blind` are
the series that the incremental pass was listed bare after they last changed: the watermark
does pass their event, and `WatermarkCovers` is about all the others.

### LiveUpdates and EventStream: how a tab stays up to date

`EventStream` is `useServerEvents`. `stream` is the `readyState` of every
EventSource object and `source` the one the closure points at, `timers` the
timers that will fire and `timerRef` what the ref knows of them: an object or a
timer that leaks is a state of the model, so `OneDriver` is not a matter of its
representation. `StreamFails` is `onerror` as a whole (close, count, probe
after the third failure, timer), `ReconnectNow` the return of a hidden tab.
`LiveUpdates` adds the query cache as the pages use it, and is where the two
meet: an event invalidates after a debounce, a broken stream makes the polls
quicken, a probe that is answered with 401 raises the prompt. Queries hold
versions. `lost` is a history variable: an event was dropped by the bus, or a
refetch failed, and no request has been made since. TanStack Query is external
and modelled from how the pages use it; the one surprising rule is that an
invalidation does not cancel a query's first load.

### SessionGate and SetupForm: getting in

`SessionGate` is the route of the tab (`screen`), the setup-status query with
data and error kept apart (`status`, `failed`), the latch of the re-login
prompt, the sign-in mutation and the wizard's steps and calls. A redirect is
made by rendering, so each action that changes the query or the route ends on
the screen `Route` says. `SetupForm` is the wizard's form: it is refilled by a
payload that differs, has a skip box per application, and a later step ticks
the applications to synchronise.

### The pages

| Module | State and actions, against the code |
|---|---|
| `DraftRows` | `listed` and `listReq` are the query, `draft`, `dirty` are `useDraftSync`'s; a save is a handler with the stages of its awaits: request, own refetch, the refetches `runAction` awaits, `resetDraft` |
| `ConfigForms` | `form`, `filled`, `once` of the four forms with one record; what differs between them (which fill once, which guard their save) is in the actions' guards |
| `LiveCheck` | debounce, request, cleanup and answer of the check while typing; `valid` is the parent's copy |
| `RuleEditor` | the panel of the rules page over `LiveCheck`; `judged` is a ghost, the rule `valid` was last set for |
| `RuleModes` | two switches of one rule; a PUT carries the row of its click |
| `RuleDraft` | `params` is the draft; the editor's controls are the actions; `LooksAt`, `Fine`, `Concerns`, `Condition` are the sentence, `Items`, `Files`, `AllFine`, `Does` the server's selection |
| `ValueFields` | chips and the menu of values; `SequenceFilter` is the `Array.filter` it shares with `RuleDraft` and `LibraryBrowser` |
| `SavedViews` | `cache` is shown ahead of `server`; `sending` are the mutations with what they would roll back to |
| `UrlState` | `view`, `address`, the render that lands later (`landing`) and `lastWrittenSearch` |
| `LibraryBrowser` | the three lists' controls, one show's drill-down, comparison and detail sheet |
| `ReportPanels` | offsets per table, the deferred filter, the effect that turns pages back; `turnedAt` is a ghost |
| `QueuePager` | cached pages with their own counts (`DataFor` is `keepPreviousData`), the offset that an effect clamps (`SnappedTo`), rendered until it rests (`Rest`) |
| `ManualTab` | the boxes of "Stuck state", the dialog with its callback, the actions under way; `entered` is a ghost |
| `MalPipelines` | handlers of a visit with their stage, `malPipelineBusyRef` and the state rendered from it |
| `ArtworkSettings` | `patches` under way, the poll's answer, the query's data that each replaces |
| `AuthTokens` | token, password and switch calls with the token each answered; `spoiled` is a history variable: two token calls overlapped, or a call failed after it was stored |
| `CommandPalette` | palette, shortcuts, header search, More sheet |
| `LogTail` | lines, `scrollTop`, the smooth scroll under way, the scroll event on its way, `stickToBottomRef`; `reading` is a history variable |

`WebPages` puts them together: `page` is the one that is open, each of the
other pages is in an initial state, and what other tabs and the server do
meanwhile is in each page's module. Pages share nothing but the server, so one
page at a time loses no interleaving of theirs, but the model says nothing of
what a page that was left has to finish, except where its module does
(`MalPipelines`).

What the page modules leave out: the values of fields (one stands for all of a
row or form), wording and layout; in `RuleDraft` budgets and cooldowns, and
that tags and unmonitoring are compiled from the rule without its searches; in
`LogTail` a ring buffer that is full; in `AuthTokens` the expiry of a session;
in `LibraryBrowser` the rows.

### The abstract specifications

`SyncTurns`: at most one run has the turn, which it takes and gives back, and
it is out of order only while `loose`. `WebhookLifecycle`: the edges of
`docs/LOCKING_AND_DLQ.md` on a set of rows, with any number of rows moving in
one step; the document draws `queued --> done` and `retrying --> queued` by
backoff, where the code goes through the claim, which makes a row `retrying`
first and claims it again from there. `SyncLease` implements the first and `WebhookQueue` the second, by the
`INSTANCE ... WITH` in those modules; both refinements are checked by TLC and
proved.

## 4. The runs

| Run | Shows | Bounds and why they are enough |
|---|---|---|
| `SyncLease` | `HolderCovered`, `LeaseExclusive`, `TakesTurns`, `LockRecovers` | three runs, so that a third can enter through a lock released by the first of two; lease 5 with two-tick heartbeats, one missed and a one-tick release leaves no slack; three processes |
| `WebhookQueue` | `ClaimHolds`, `OneDrainPerJob`, `DeadAreExhausted`, `NoLostWakeup`, `FollowsLifecycle` | two rows in batches of up to two with equal or different keys, two drains of one round, two attempts, one crash or abandoned batch, one requeue; a batch may take as long as the window of two ticks, so that claims are kept, run out, are taken over and acknowledged late; the keys are symmetric |
| `WebhookQueueLive` | `Settles`, `DrainedWithoutCron` | two rows of one key, batches of one, two rounds, one crash, a window of one tick that a batch may outlast; no symmetry |
| `SonarrWarehouse` | `SteadyRowsStayLive`, `CalmRepairs`, `Converges` | two series (one touched, one steady), a full pass, the incremental pass and a drain together, one change and one fault, a bare list among the faults: the change makes rows that are wrong, and the passes under way at it are the ones a calm must have ended. The incremental pass meets a series with wrong rows here, but none that is gone: that takes an import and then a deletion under its list, and is covered by `CalmIsRepaired` |
| `SonarrWatermark` | `WatermarkCovers` | the incremental pass alone against three changes that may share a timestamp, one fault, a bare list among the faults: a tie, a change during the ingest, an interrupted ingest of two series, and a change after the history was read all fit; the series are symmetric |
| `LiveUpdates` | `OneDriver`, `StaleHasCause`, `EventuallyFresh`, `SessionLossSurfaces` | two EventSource objects, so that one can leak; a polled and an event-driven query, one change each, so that an answer can be overtaken; the tab hidden once |
| `SessionGate` | `SubmitsOnlySecured`, `SignInGetsInside` | the session lost once and one refused request still under way: prompt, redirect and sign-in overlap; every step and call of the wizard |
| `WebPages` | the nineteen properties of the pages, `WebTypeOK` among them | two of everything that can be confused (rows, rules, shows, dashboards, tables, applications, calls), one or two requests under way, one failure where failures are bounded; three addresses, two visits, one saved view (a list with it and one without). One save of a row and one action by hand at a time: that more of them do no harm is proved (`CleanRowsShowList`, `DirtyRowsAreKept`, `ResetsAreTyped`) |
| `WebhookReplay` | violates `DeadLettersReplayable` | finding 1 |
| `SonarrTombstoneRace` | violates `FilesOnDiskStayLive` | finding 2 |
| `SonarrBareList` | violates `AbsenceIsNotRemoval` | finding 3 |
| `GoLiveUnasked` | violates `LeavesDryRunAsked` | finding 4 |

Deadlock is checked in the runs of the server and in `LiveUpdates`. It is not checked where the program really may stop: a
page on which every bounded thing has been done (`WebPages`, `GoLiveUnasked`),
and a tab that is inside with nothing under way (`SessionGate`).

What the violation runs show:

1. A payload becomes a dead letter, is delivered again and becomes a dead letter
   again. No row is open, and still the two cannot be replayed: the bulk update
   would open two rows of one key, which `uq_webhook_queue_dedupe_open` refuses.
2. A file imported and written by its webhook after a full pass fetched its
   series is tombstoned by that pass: the advisory lock orders the two
   transactions, and the seen-set is older than both. The next pass repairs it
   (`Converges`).
3. Nothing happens to the library; a full pass is answered a series without its
   files, sees it to the end and tombstones files that are on disk. The docstring
   of the webhook's tombstones names this case and avoids it (`repository.py`
   667-671); the passes do not.
4. A rule leaves dry run without the question: it is put back into dry run and
   that is stored; an Enable clicked before the list is read again sends the
   row's old mode, and the rule is enabled and live.

Things seen while modelling that no run states, since no document claims
otherwise: two `?wait=false` requests may both be answered 202, the
reservation being released before its run takes the lock; the watermark passes
an import whose series was listed without its files, so that only a webhook, a later
change or a full pass brings its row; what is typed into a row or a one-shot
field during its own save is lost; deleting the last saved view brings back
views an old version left in the browser's storage; the library has no clamp on
its offset; a page of the anime pipelines that is opened again does not know of
the one under way; pasting "a, a" makes two chips; a column stays filtered by a
value it no longer offers; an address equal to the last one written is ignored.

### What the properties do not say

- `LeaseExclusive` and `TakesTurns` are about processes in which no operator
  deleted the row under a live run (`disturbed`).
- `ClaimHolds` and `OneDrainPerJob` are about a claim within its window, and a row
  no operator requeued under its drain (`exposed`).
- `SignInGetsInside` is that whoever goes on signing in gets inside. A refused
  refetch that is still under way may send the first sign-in back to the login
  page once (`RequireSetup`).
- `SectionLeavesAccess` leaves out token calls that overlap and a sign-in that
  fails after its password change was stored (`spoiled`): the section then shows
  an error, and what it leaves depends on which call the server stored last.
- `OthersKeep` is about a row and everything but its own save. What is typed into
  a row during that save is lost, though `useDraftSync.ts` 16-17 speaks of
  edits never being clobbered.
- `PagesOfTheseRows` knows the rows of a table by its filters. A page turned over
  the placeholder rows of the last instance, before those of the new one are
  there, is not caught (`ReportingPage.tsx` 96 and 108).
- `FiltersFit` is about addresses this page wrote. A link made by hand, all
  episodes without a sort among them (`LibraryPage.tsx` 115), is not followed.
- `SentenceFits` is about rules for one kind of media without the dub options.
  For movies and shows alike the sentence says too much: an action on what
  conforms is taken, it says, "where the file is already" as required, for "it",
  and the run takes it only for shows whose every counted episode is
  (`automationSummary.ts` 230).

### Fairness

- `SyncLease`: the event loop resumes a run whose awaits end (`Finish`,
  `Release` or `ReleaseFails`, `Heartbeat` or `HeartbeatFails`), the container
  restarts the process (`Boot`), shutdown ends (`Exit`), time passes. A lane is
  not assumed to be triggered again, nor a renewal to succeed.
- `WebhookQueue`: a started drain and the background task go on, time passes.
  `Settles` adds the cron drains (`services/scheduler.py` 179-185) as its own
  premise; `DrainedWithoutCron` does without them, up to a crash or the bound
  on rounds.
- `SonarrWarehouse`: the scheduler starts each pass again and again and the
  process comes back after a stop. Changes and faults are bounded and never
  fair: once they stop, the warehouse converges.
- `LiveUpdates`: intervals fire (weak fairness of `Poll`), and a server that is
  asked again and again answers some time, in time to be shown (strong fairness
  of `Answer` and `Land`, since a refetch may cancel a request before its
  answer). Nothing is assumed of the stream, of events or of the probe.
- `SessionGate`: answers come and are rendered; setup-status is retried by the
  client, and strong fairness of `StatusLands` says it is not cancelled for
  ever; whoever is on the login page submits, and with the right password some
  time. Nobody is assumed to finish the wizard.
- `WebPages`: while the sync page or the artwork page is open its interval
  polls and answers arrive, in any order; on the artwork page a call is stored
  or fails, and the server's fetch ends.

## 5. The proofs

TLAPS proves, for every value of the constants that meets the modules'
assumptions:

- `SyncLeaseProofs`. `LeaseInv` is inductive: `TypeOK`, `HolderCovered`,
  `LeaseExclusive` and `DownIsQuiet`. Exclusion alone is not inductive: that
  another run cannot start needs that the row is there and not expired, which
  is `HolderCovered`: the lease left is at least `Lease - Age(r)`, and `Age` is
  bounded by the assumption on the lease because `sleep` and `misses` are
  (`TypeOK`). `DownIsQuiet` carries this over `Boot`, where the epoch changes.
  From it: `LeaseTypes`, `LeaseCovers`, `LeaseIsExclusive`, and the refinement
  `LeaseTakesTurns`.
- `WebhookQueueProofs`, for batches of any length. `QueueInv` adds to
  `ClaimHolds` and `OneDrainPerJob` that only a running drain has a batch, and
  that a row whose drain has spent the whole window on its batch is exposed
  (`LateExposed`): a row can be claimed a second time only when it is due, and
  a held row is not due while `due + spent >= Visibility > spent`. From it:
  `ClaimsHold`, `JobsHaveOneDrain`.
  `OutcomeInv` adds to `DeadAreExhausted` that what a drain knows of a row's
  attempts is never ahead of the row (`TriesBehind`), and to `NoLostWakeup` that
  the background task's drain runs only while the task waits for it. From it:
  `QueueTypes`, `DeadLettersExhausted`, `WakeupsKept`; and from both the
  refinement `QueueFollowsLifecycle`.
- `SonarrWatermarkProofs`. `WatermarkInv` adds to `WatermarkCovers` that while a
  pass ingests, what is owed is still on its list or is dated at or after the
  watermark it will set (`IngestCovers`), and that the chunk it has fetched is
  still what Sonarr would answer, unless the series changed too late for that
  watermark (`ChunkCurrent`, `Whole(s)`; a bare chunk pays nothing and leaves the series
  `blind`). `Dated` and `Filed` say that nothing is dated in
  the future and that only a series of the library owes anything. Timestamps
  that tie are why the history must include records at the watermark. From it:
  `WatermarkIsCovered`, and with `Ahead` (what a pass found is not dated before
  the watermark) `WatermarkMovesOn`: the statement that stores the watermark
  would take any time, the pass never gives it an earlier one.
- `SonarrRowsProofs`, about the rows, for any library and any number of lanes,
  drains, changes and faults, bare lists among them. What the last three say of
  files is up to those that a pass tombstones because its own list came without
  them (`Unlisted`, `TombstonesUnlisted`); of series and episodes, and of the
  files of every other series, they say it without exception.
  - `SonarrTypes`: `Typed` adds to `TypeOK` that a drain that has a state has a
    job, without which the chunk it is about to fetch has no type, and that the
    clock is at most one ahead of the changes, which is what bounds every time.
  - `SteadyStaysLive`, from `SteadyInv` (`SteadyInvariance`). A step shows
    nothing by itself: a tombstoning pass spares a series only if its seen-set
    has all of it. So the invariant follows what was fetched to where it is
    used. Of a series nothing happened to, every answer in hand is all there is, or
    all but the files (`FetchedFits`); a full pass has seen it so or still has it on its list,
    unless its listing came back empty, and then has seen nothing at all
    (`SeenSteady`), which is the case the mass-tombstone guard and `SteadyWhole`
    are for; and every webhook job is about another series (`JobsOfTouched`).
  - `CalmIsRepaired`, the safety that `Converges` rests on. `Calm` says that
    nothing under way is behind the library: no delete job about something that
    is there, every chunk in hand what Sonarr answers, every seen-set current
    and live. While the library rests a calm lasts through every pass, failure,
    stop and restart, and a series whose rows are right (`Shows`) keeps them so:
    every step is `Faithful`, tombstoning nothing that is there and bringing
    back nothing that is not. A full pass that saw a series makes the rows of
    all of them right whatever they were. The incremental pass does so for each
    series it reconciles (`ReconcileRepairs`), for which a calm must also say
    that a chunk that is written is still live when its reconcile, a transaction
    of its own, comes to it. That a calm comes about, once changes stop, is
    liveness and stays with the run.
  - `IncrementalPassRepairs` puts this together over a whole pass: once it reads
    its history in a calm, each series of that history is on its list or shows
    the library (`HistoryShown`), so an `IncEnds` that is not cut short leaves
    all of them right. Series with no event since the watermark are the full
    pass's to repair.

- `LiveUpdatesProofs`. `StreamInv` adds to `OneDriver` that `timerRef` knows of
  every timer: a ref that missed one could not clear it when the tab comes
  back. `CacheInv` adds to `StaleHasCause` that an answer older than the
  server's data has been overtaken by a change that is announced (in an event,
  in a debounce timer, or known to be missed), and that only a mounted layout
  has either. From them: `LayoutHasOneDriver`, `StaleScreensHaveCause`,
  `LiveTypes`. `OrderInv` (an answer under way is no older than the screen and
  no newer than the server) gives `ScreensNeverGoBack`: a query has one request
  at a time, and one that is replaced does not land, so screens only move on.
  `EventuallyFresh` rests on it.
- `SessionGateProofs`. `SecuredInv`: beyond the Security step a choice was
  made, and every reset of the wizard resets both. From it:
  `OnlySecuredIsSubmitted`. `GateTypes`: `TypeOK` is inductive as it stands.
  `GateStandsAlways` says where a tab may be: the pages only where the server
  has completed its setup, the wizard not for a tab that knows that, no page for
  one that was refused. `GateInv` is what makes it inductive: the screen is one
  that `Route` leaves alone (`AtRest`), the data and the answer under way are no
  more than the server has (`Known`), and a sign-in that returns to a wizard
  whose setup completed meanwhile finds no refusal (`ReturnsUnrefused`). Without
  the last, `Route` would not be done after one redirect: a completed wizard
  leads to the pages, and a refusal from there to the sign-in.
- `PageProofs` first splits a step of `WebPages` into a step of one page with
  the others unchanged, and then proves, page by page: `ReadingInv` (someone who
  reads has been heard of, and no scroll of the page is under way), `OwnInv`
  (what lands as the page's own is the last address it wrote), `LibraryInv`,
  `PanelsInv`, `MalInv` (the ref of the open visit knows its handler), and
  `PagerInv` (cached pages have as many rows as they count, and what is shown
  is at rest: no data of its own that it does not show, no offset the effect
  would move), from which `NoEmptyPages`.
  Two functions are recursive, `Kept` and `Rest`. What they return is proved
  in set form: the library's induction theorems take an operator, but that
  the order of the numbers is well founded does not, so every set of numbers
  that is not empty has a least member (`LeastNumber`), and a number for which
  the claim fails is refuted at the least one. `KeptExists` and `RestExists`
  build the function the definition chooses; `KeptType` and `RestType` say that
  a filtered list is no longer than the list and has only what it keeps, and
  that the effect ends, in a page, where it would not run again.
- `EditingProofs`. `DraftInv` (before the first list there is nothing to edit
  or save), `LoadedInv` (what a guarded form holds, sends and is answered was on
  the server), `CheckInv` (a request that still counts is about the debounced
  text) and `EditorInv`, `ViewsInv` (an answer under way is the server's list
  unless that changed elsewhere), `DialogInv` (what is in the dialog was typed
  into the open question, which holds the boxes that are ticked), `PostInv`,
  `TokenInv`. `SentencesFit`
  compares the two descriptions of a rule, the page's and the server's, for
  every draft of its type and every library (`TypedSentencesFit`); that the
  editor, from every template and stored rule, keeps its drafts in that type
  (a draft about movies asks for no status of a show, among others) is part of
  `WebTypes`.
- `WebTypes`, in `EditingProofs` over the lemmas of both modules: `WebTypeOK` for
  the eighteen parts together. `WebTyped` adds what the types alone do not keep:
  the stage of a pipeline fits its kind (`MalTyped`), a filtered log has at
  most the lines of the log (`LogTyped`), an open editor edits a draft
  (`EditorTyped`), and `DraftInv`, `PagerInv` and `TokenInv`, where an offset or
  a call is of its type only because of what it belongs to.

Only model-checked: everything temporal under fairness (`LockRecovers`,
`Settles`, `DrainedWithoutCron`, `Converges`, `EventuallyFresh`,
`SessionLossSurfaces`, `SignInGetsInside`, `QueueNeverStuckEmpty`,
`ArtworkSettles`), which is out of the prover's reach. Every invariant and
action property of the passing runs is a theorem. The types of the lease, the
queue, the stream, the gate and the warehouse are proved and not run, and so are
`NoEmptyPageShown`, `WatermarkNeverBack`, `GateStands`, `ScreensMoveOn` and
`IncrementalRepairs`. Two recursive functions have
proofs, in the set form above; the theorems of induction that take an operator
are not used.

## 6. Not modelled

On the server: Radarr's passes, the run ledger, automation runs, alerts, tag
sync, MAL ingest and matching, and the files of the artwork cache (section 2
has the next ones). Reporting and library APIs only read. Column values of
warehouse rows, HTTP retries and rate limits, cron expressions, and running the
migrations are left out.

In the web interface: the home page, the run lanes and run histories, the
charts and the building blocks, which render answers and keep nothing; the
connection test of an integration and the test alert, which change only their
own notice; the webhook secret's form; running, previewing and deleting an
automation rule; the database step of the wizard beyond what setup-status says
of it; the scripts that take screenshots, and type declarations.
