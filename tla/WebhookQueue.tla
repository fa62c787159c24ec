----------------------------- MODULE WebhookQueue ----------------------------
(***************************************************************************)
(* app.webhook_queue of one source: the receiver that enqueues, the drains *)
(* (SyncService.process_webhook_queue) that claim, process and acknowledge,*)
(* the background task that turns the receiver's signal into a drain, the  *)
(* cron drains beside it, and the operator's replay and requeue.           *)
(*                                                                         *)
(* A row's next_attempt_at is kept as the ticks until it.  A drain is one  *)
(* of the concurrent calls of process_webhook_queue; the single process    *)
(* may lose all of them at once.  The rows are numbered in received order. *)
(***************************************************************************)
EXTENDS Integers, FiniteSets

CONSTANTS
  MaxJobs,       \* bound: rows the queue ever holds
  Keys,          \* dedupe keys
  Drains, Bg,    \* the concurrent drains; Bg is the background task's
  BatchSize,     \* queue policy batch_size
  MaxRounds,     \* max_rounds of one drain
  MaxAttempts,   \* queue policy max_attempts
  Visibility,    \* WEBHOOK_CLAIM_VISIBILITY_SECONDS
  BackoffBase, BackoffCap,  \* queue policy backoff_base_seconds, backoff_cap_seconds
  Deadline,      \* bound: ticks a drain takes over one batch
  MaxLapses,     \* bound: crashes and abandoned batches
  MaxRequeues    \* bound: operator requests

ASSUME QueueAssumption ==
  /\ MaxJobs \in Nat /\ MaxAttempts \in Nat /\ MaxRounds \in Nat
  /\ BatchSize \in Nat \ {0}
  /\ Bg \in Drains
  /\ Visibility \in Nat \ {0} /\ Deadline \in Nat
  /\ BackoffBase \in Nat /\ BackoffCap \in Nat
  /\ MaxLapses \in Nat /\ MaxRequeues \in Nat

Ids == 1 .. MaxJobs
None == 0

\* The delay after the failure of the given attempt.
Backoff(n) == IF n * BackoffBase < BackoffCap THEN n * BackoffBase ELSE BackoffCap
MaxDelay == IF Visibility < BackoffCap THEN BackoffCap ELSE Visibility

VARIABLES
  key, status, attempts, due,   \* the columns of each row
  stage,      \* of each drain: "off", "draining" or "ending"
  round,      \* claims it has made
  batch,      \* rows it claimed and has not settled
  tries,      \* the attempts its claim returned for each row
  cur,        \* the row whose effect is written and that is not yet acknowledged
  spent,      \* ticks since its claim
  wake,       \* drain_wakeup is set
  pending,    \* the source is in drain_pending_sources
  bg,         \* the background task: "waiting", "debouncing" or "draining"
  exposed,    \* history: rows open to others while a drain was on them: requeued by
              \* the operator, or their visibility window ran out
  lapses, requeues  \* counters of the bounds

columns == <<key, status, attempts, due>>
drain == <<stage, round, batch, tries, cur, spent>>
signal == <<wake, pending, bg>>
counts == <<lapses, requeues>>
vars == <<columns, drain, signal, exposed, counts>>

Statuses == {"none", "queued", "retrying", "done", "dead_letter", "pruned"}
Open(i) == status[i] \in {"queued", "retrying"}

TypeOK ==
  /\ key \in [Ids -> Keys \cup {None}]
  /\ status \in [Ids -> Statuses]
  /\ attempts \in [Ids -> Nat]
  /\ due \in [Ids -> 0 .. MaxDelay]
  /\ stage \in [Drains -> {"off", "draining", "ending"}]
  /\ round \in [Drains -> 0 .. MaxRounds]
  /\ batch \in [Drains -> SUBSET Ids]
  /\ tries \in [Drains -> [Ids -> Nat]]
  /\ cur \in [Drains -> Ids \cup {None}]
  /\ spent \in [Drains -> 0 .. Deadline]
  /\ wake \in BOOLEAN /\ pending \in BOOLEAN
  /\ bg \in {"waiting", "debouncing", "draining"}
  /\ exposed \in SUBSET Ids
  /\ lapses \in 0 .. MaxLapses /\ requeues \in 0 .. MaxRequeues

Init ==
  /\ key = [i \in Ids |-> None] /\ status = [i \in Ids |-> "none"]
  /\ attempts = [i \in Ids |-> 0] /\ due = [i \in Ids |-> 0]
  /\ stage = [w \in Drains |-> "off"] /\ round = [w \in Drains |-> 0]
  /\ batch = [w \in Drains |-> {}]
  /\ tries = [w \in Drains |-> [i \in Ids |-> 0]]
  /\ cur = [w \in Drains |-> None] /\ spent = [w \in Drains |-> 0]
  /\ wake = FALSE /\ pending = FALSE /\ bg = "waiting"
  /\ exposed = {} /\ lapses = 0 /\ requeues = 0

Held(i) == \E w \in Drains : i \in batch[w]

RequestDrainIfIdle == wake' = (wake \/ bg = "waiting") /\ pending' = TRUE /\ UNCHANGED bg

\* request_webhook_drain.
RequestDrain == wake' = TRUE /\ pending' = TRUE /\ UNCHANGED bg
------------------------------------------------------------------------------
(* The receiver                                                            *)

\* enqueue_webhook commits, then the drain is requested.  A payload identical to
\* that of an open row meets uq_webhook_queue_dedupe_open and is dropped.
Receive(i, k) ==
  /\ \A j \in Ids : status[j] = "none" <=> j >= i
  /\ IF \E j \in Ids : Open(j) /\ key[j] = k
     THEN UNCHANGED columns
     ELSE /\ key' = [key EXCEPT ![i] = k]
          /\ status' = [status EXCEPT ![i] = "queued"]
          /\ UNCHANGED <<attempts, due>>
  /\ RequestDrain
  /\ UNCHANGED <<drain, exposed, counts>>
------------------------------------------------------------------------------
(* process_webhook_queue                                                   *)

DueUnderLimit == {i \in Ids : Open(i) /\ due[i] = 0 /\ attempts[i] < MaxAttempts}

\* Rows a claim may see; the statement does not look at attempts.
DueJobs == {i \in Ids : Open(i) /\ due[i] = 0}

\* What claim_webhook_jobs may select: the oldest due rows, up to the batch size.
Claimable(S) ==
  /\ S \subseteq DueJobs /\ S # {}
  /\ Cardinality(S) <= BatchSize
  /\ S = DueJobs \/ Cardinality(S) = BatchSize
  /\ \A i \in S, j \in DueJobs \ S : i < j

HideUntilNow(S) == [i \in Ids |-> IF i \in S THEN 0 ELSE due[i]]

\* The claim hides its rows for the visibility window.
Hide(S) == [i \in Ids |-> IF i \in S THEN Visibility ELSE due[i]]

Claim(w, S) ==
  /\ stage[w] = "draining" /\ batch[w] = {} /\ round[w] < MaxRounds
  /\ Claimable(S)
  /\ status' = [i \in Ids |-> IF i \in S THEN "retrying" ELSE status[i]]
  /\ attempts' = [i \in Ids |-> IF i \in S THEN attempts[i] + 1 ELSE attempts[i]]
  /\ due' = Hide(S)
  /\ batch' = [batch EXCEPT ![w] = S]
  /\ tries' = [tries EXCEPT ![w] = [i \in Ids |-> IF i \in S THEN attempts'[i] ELSE 0]]
  /\ round' = [round EXCEPT ![w] = @ + 1]
  /\ spent' = [spent EXCEPT ![w] = 0]
  /\ UNCHANGED <<key, stage, cur, signal, exposed, counts>>

\* A row leaves a drain's batch; it is no longer exposed once no drain holds it.
Settle(w, i) ==
  /\ batch' = [batch EXCEPT ![w] = @ \ {i}]
  /\ tries' = [tries EXCEPT ![w][i] = 0]
  /\ cur' = [cur EXCEPT ![w] = None]
  /\ spent' = [spent EXCEPT ![w] = IF batch'[w] = {} THEN 0 ELSE @]
  /\ exposed' = {j \in exposed : \E v \in Drains : j \in batch'[v]}
  /\ UNCHANGED <<stage, round>>

\* The event's effect is committed to the warehouse.
Apply(w, i) ==
  /\ i \in batch[w] /\ cur[w] = None
  /\ cur' = [cur EXCEPT ![w] = i]
  /\ UNCHANGED <<columns, stage, round, batch, tries, spent, signal, exposed, counts>>

\* mark_webhook_done, whatever the row's status has become.
AckDone(w, i) ==
  /\ i \in batch[w] /\ cur[w] = i
  /\ status' = [status EXCEPT ![i] = IF @ = "pruned" THEN @ ELSE "done"]
  /\ Settle(w, i)
  /\ UNCHANGED <<key, attempts, due, signal, counts>>

FailedStatusEarly(n) == IF n + 1 >= MaxAttempts THEN "dead_letter" ELSE "retrying"

FailedStatus(n) == IF n >= MaxAttempts THEN "dead_letter" ELSE "retrying"

\* mark_webhook_failed with the attempts of the claim, whatever the row's status
\* has become.  Reopening a row beside an open one with its key is refused by the
\* unique index; the exception ends the drain, which is Abandon.
AckFailed(w, i) ==
  /\ i \in batch[w] /\ cur[w] \in {None, i}
  /\ ~(~Open(i) /\ FailedStatus(tries[w][i]) = "retrying"
        /\ \E j \in Ids \ {i} : Open(j) /\ key[j] = key[i])
  /\ status' = [status EXCEPT ![i] = IF @ = "pruned" THEN @ ELSE FailedStatus(tries[w][i])]
  /\ due' = [due EXCEPT ![i] = Backoff(tries[w][i])]
  /\ Settle(w, i)
  /\ UNCHANGED <<key, attempts, signal, counts>>

\* The drain's last statement: prune_old_rows.  Settled rows of any age may be
\* old enough; retention is in days, so a row in a batch is not.
Prune(S) ==
  /\ S \subseteq {i \in Ids : status[i] \in {"done", "dead_letter"} /\ ~Held(i)}
  /\ status' = [i \in Ids |-> IF i \in S THEN "pruned" ELSE status[i]]

\* The claim came back empty, or the drain has made all its rounds.
EndRounds(w) ==
  /\ stage[w] = "draining" /\ batch[w] = {}
  /\ round[w] = MaxRounds \/ DueJobs = {}
  /\ stage' = [stage EXCEPT ![w] = "ending"]
  /\ UNCHANGED <<columns, round, batch, tries, cur, spent, signal, exposed, counts>>

\* Rows may have arrived since.
Finish(w, S) ==
  /\ stage[w] = "ending"
  /\ Prune(S)
  /\ stage' = [stage EXCEPT ![w] = "off"]
  /\ bg' = IF w = Bg THEN "waiting" ELSE bg
  /\ round' = [round EXCEPT ![w] = 0]
  /\ UNCHANGED <<key, attempts, due, batch, tries, cur, spent, wake, pending, exposed, counts>>

\* The rest of the batch keeps its claim until the visibility window has passed:
\* stop_event between two jobs, which leaves the rounds for the prune, or an
\* exception outside the per-job try, which ends the drain.
Abandon(w) ==
  /\ stage[w] # "off" /\ lapses < MaxLapses
  /\ lapses' = lapses + 1
  /\ \E next \in {"ending", "off"} :
       /\ next = "ending" => stage[w] = "draining"
       /\ stage' = [stage EXCEPT ![w] = next]
       /\ bg' = IF w = Bg /\ next = "off" THEN "waiting" ELSE bg
  /\ batch' = [batch EXCEPT ![w] = {}]
  /\ tries' = [tries EXCEPT ![w] = [i \in Ids |-> 0]]
  /\ cur' = [cur EXCEPT ![w] = None]
  /\ round' = [round EXCEPT ![w] = 0]
  /\ spent' = [spent EXCEPT ![w] = 0]
  /\ exposed' = {j \in exposed : \E v \in Drains : j \in batch'[v]}
  /\ UNCHANGED <<columns, wake, pending, requeues>>
------------------------------------------------------------------------------
(* What starts a drain                                                     *)

StartDrain(w) ==
  /\ stage' = [stage EXCEPT ![w] = "draining"]
  /\ UNCHANGED <<round, batch, tries, cur, spent>>

\* The webhook_drain and incremental ticks.
CronDrain(w) ==
  /\ w # Bg /\ stage[w] = "off"
  /\ StartDrain(w)
  /\ UNCHANGED <<columns, signal, exposed, counts>>

BgWake ==
  /\ bg = "waiting" /\ wake
  /\ bg' = "debouncing"
  /\ UNCHANGED <<columns, drain, wake, pending, exposed, counts>>

TakeSourcesEarly == wake' = FALSE /\ UNCHANGED pending

\* drain_wakeup.clear(), then the pending sources are taken: no await between.
TakeSources == wake' = FALSE /\ pending' = FALSE

BgTake ==
  /\ bg = "debouncing"
  /\ TakeSources
  /\ IF pending
     THEN StartDrain(Bg) /\ bg' = "draining"
     ELSE UNCHANGED drain /\ bg' = "waiting"
  /\ UNCHANGED <<columns, exposed, counts>>

\* The process dies: no drain is left and the signals, kept in memory, are lost.
Crash ==
  /\ lapses < MaxLapses
  /\ lapses' = lapses + 1
  /\ stage' = [w \in Drains |-> "off"]
  /\ batch' = [w \in Drains |-> {}]
  /\ tries' = [w \in Drains |-> [i \in Ids |-> 0]]
  /\ cur' = [w \in Drains |-> None]
  /\ round' = [w \in Drains |-> 0] /\ spent' = [w \in Drains |-> 0]
  /\ wake' = FALSE /\ pending' = FALSE /\ bg' = "waiting"
  /\ exposed' = {}
  /\ UNCHANGED <<columns, requeues>>
------------------------------------------------------------------------------
(* The operator                                                            *)

\* uq_webhook_queue_dedupe_open lets the rows S be opened: no two rows of a key are
\* open together.
IndexAllows(S) ==
  \A i \in S, j \in Ids : i # j /\ key[i] = key[j] => ~Open(j) /\ j \notin S

\* The update of the requeue statements; refused by the index, it changes nothing.
Requeue(S) ==
  /\ S # {} /\ requeues < MaxRequeues
  /\ IndexAllows(S)
  /\ status' = [i \in Ids |-> IF i \in S THEN "queued" ELSE status[i]]
  /\ due' = [i \in Ids |-> IF i \in S THEN 0 ELSE due[i]]
  /\ exposed' = exposed \cup {i \in S : Held(i)}
  /\ requeues' = requeues + 1
  /\ RequestDrain
  /\ UNCHANGED <<key, attempts, drain, lapses>>

RequeueJobSettled(i) == status[i] \notin {"none", "pruned"} /\ Requeue({i})

\* requeue_webhook_job.
RequeueJob(i) == status[i] \in {"dead_letter", "retrying"} /\ Requeue({i})

\* requeue_webhooks_bulk for "retrying" or "dead_letter"; the latter is also
\* replay_dead_letter.  A job in a batch is "retrying" too.
RequeueBulk(s) == Requeue({i \in Ids : status[i] = s})

\* A batch takes at most Deadline ticks; nothing in the code keeps it within its
\* visibility window.
Tick ==
  /\ \A w \in Drains : batch[w] # {} => spent[w] < Deadline
  /\ due' = [i \in Ids |-> IF due[i] > 0 THEN due[i] - 1 ELSE 0]
  /\ spent' = [w \in Drains |-> IF batch[w] # {} THEN spent[w] + 1 ELSE spent[w]]
  /\ exposed' = exposed \cup UNION {batch[w] : w \in {v \in Drains : spent'[v] >= Visibility}}
  /\ UNCHANGED <<key, status, attempts, stage, round, batch, tries, cur, signal, counts>>

DrainStep(w) ==
  \/ \E S \in SUBSET Ids : Claim(w, S)
  \/ \E i \in Ids : Apply(w, i) \/ AckDone(w, i) \/ AckFailed(w, i)
  \/ EndRounds(w)
  \/ \E S \in SUBSET Ids : Finish(w, S)

Next ==
  \/ \E i \in Ids, k \in Keys : Receive(i, k)
  \/ \E w \in Drains : DrainStep(w) \/ Abandon(w) \/ CronDrain(w)
  \/ BgWake \/ BgTake
  \/ Crash
  \/ \E i \in Ids : RequeueJob(i)
  \/ \E s \in {"retrying", "dead_letter"} : RequeueBulk(s)
  \/ Tick

\* The event loop resumes a drain and the background task; time passes.  The cron
\* drains are not assumed here: what needs them says so.
Fairness ==
  /\ WF_vars(Tick) /\ WF_vars(BgWake) /\ WF_vars(BgTake)
  /\ \A w \in Drains : WF_vars(DrainStep(w))

Spec == Init /\ [][Next]_vars /\ Fairness
------------------------------------------------------------------------------
(* Properties                                                              *)

\* A claimed row stays hidden behind its claim: until the drain settles it, the
\* operator requeues it or its window has run out, it is "retrying", carries the
\* attempts of that claim, and is not due.
ClaimHolds ==
  \A w \in Drains : \A i \in batch[w] \ exposed :
    /\ status[i] = "retrying"
    /\ attempts[i] = tries[w][i]
    /\ due[i] + spent[w] >= Visibility

\* No two drains work on one row, unless the operator requeued it under the first or
\* the first has held it for the whole visibility window.
OneDrainPerJob ==
  \A v, w \in Drains : v # w => batch[v] \cap batch[w] \subseteq exposed

\* A row is exposed once its drain has held it for the visibility window.
LateExposed == \A w \in Drains : spent[w] >= Visibility => batch[w] \subseteq exposed

\* A drain works on rows only while it runs, the one in hand among them.
BatchOfRunning ==
  \A w \in Drains : /\ batch[w] # {} => stage[w] = "draining"
                    /\ cur[w] # None => cur[w] \in batch[w]

QueueInv == TypeOK /\ ClaimHolds /\ OneDrainPerJob /\ LateExposed /\ BatchOfRunning

\* The rows live the life of WebhookLifecycle.
Life == INSTANCE WebhookLifecycle WITH state <- status

FollowsLifecycle == Life!LifeSpec

\* A dead letter was claimed the full number of times.
DeadAreExhausted == \A i \in Ids : status[i] = "dead_letter" => attempts[i] >= MaxAttempts

\* A request to drain is not lost between the receiver and the background task:
\* while the source is pending the task is signalled or about to take it.
NoLostWakeup == pending => wake \/ bg = "debouncing"

\* What a drain knows of a row's attempts is never ahead of the row.
TriesBehind == \A w \in Drains, i \in Ids : tries[w][i] <= attempts[i]

\* The background task's drain runs only while the task waits for it.
BgWaitsForDrain == stage[Bg] # "off" => bg = "draining"

\* The strengthening under which both are inductive, crashes and late
\* acknowledgements included.
OutcomeInv == TypeOK /\ TriesBehind /\ DeadAreExhausted /\ BgWaitsForDrain /\ NoLostWakeup

\* Every accepted event is settled in the end, done or a dead letter, however the
\* process crashes, as long as a cron drain keeps coming back.
Settles ==
  (\A w \in Drains \ {Bg} : WF_vars(CronDrain(w)))
    => \A i \in Ids : Open(i) ~> ~Open(i)

\* Near-real-time processing: without any cron drain a new row is claimed, unless a
\* drain was cut off or ran out of rounds.
DrainedWithoutCron ==
  \A i \in Ids : status[i] = "queued"
    ~> (status[i] # "queued" \/ lapses > 0 \/ \E w \in Drains : round[w] = MaxRounds)

\* The edge "dead_letter --> queued: manual replay API": when no row is open, nothing
\* stands in the way of replaying the dead letters together.
DeadLettersReplayable ==
  (\A i \in Ids : ~Open(i)) => IndexAllows({i \in Ids : status[i] = "dead_letter"})
==============================================================================
