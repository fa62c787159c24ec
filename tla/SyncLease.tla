------------------------------ MODULE SyncLease ------------------------------
(***************************************************************************)
(* The job lock of one sync lane and the runs that contend for it:         *)
(* SyncService.run_sync and its heartbeat task, the repository's lock      *)
(* statements, the "?wait=false" reservation, the operator's clear, and    *)
(* the shutdown, crash and start of the single application process.        *)
(*                                                                         *)
(* Time is counted in ticks.  The row's expires_at is kept as the ticks    *)
(* left until it, and -1 stands for every moment after it.  All runs of    *)
(* one process share SyncService.lock_owner_id, so the owner of the lock   *)
(* is the number of the process that took it, its epoch.                   *)
(***************************************************************************)
EXTENDS Integers

CONSTANTS
  Runs,          \* the invocations of run_sync on this lane, each made once
  Lease,         \* try_job_lock's lease_seconds
  HbInterval,    \* LOCK_HEARTBEAT_INTERVAL_SECONDS
  MaxMisses,     \* bound: renewals of one run that fail in a row
  ReleaseTicks,  \* bound: from the end of a run to its release_job_lock
  Grace,         \* the shutdown's grace period
  MaxEpoch,      \* bound: process starts
  OperatorClears \* whether an operator ever deletes lock rows

\* 1800 >= (5 + 1) * 300 seconds with nothing to spare: the code's values leave
\* room for five failed renewals when the release is immediate.
ASSUME LeaseAssumption ==
  /\ Lease \in Nat
  /\ HbInterval \in Nat \ {0}
  /\ MaxMisses \in Nat
  /\ ReleaseTicks \in Nat
  /\ (MaxMisses + 1) * HbInterval + ReleaseTicks <= Lease
  /\ Grace \in Nat
  /\ Grace < HbInterval
  /\ MaxEpoch \in Nat
  /\ OperatorClears \in BOOLEAN

VARIABLES
  owner,      \* owner_id of the lock row, NoOwner when there is no row
  left,       \* ticks until expires_at, -1 once it has passed
  pc,         \* where each run is
  sleep,      \* ticks until the run's heartbeat is due, or until it has released
  misses,     \* renewals that failed since the last one that did not
  epoch,      \* the number of the current process
  phase,      \* "up", "stopping" (stop_event is set) or "down"
  grace,      \* ticks a stopping process has left
  disturbed   \* history: this process lost the row under a live run to the operator

vars == <<owner, left, pc, sleep, misses, epoch, phase, grace, disturbed>>
lockRow == <<owner, left>>
beats == <<sleep, misses>>
process == <<epoch, phase, grace>>

NoOwner == 0
Places == {"idle", "queued", "checked", "running", "releasing", "done", "skipped", "killed"}

\* A run that believes it owns the lane: between try_job_lock and release_job_lock.
Holding(r) == pc[r] \in {"running", "releasing"}

TypeOK ==
  /\ owner \in 0 .. epoch
  /\ left \in -1 .. Lease
  /\ pc \in [Runs -> Places]
  /\ sleep \in [Runs -> 0 .. HbInterval + ReleaseTicks]
  /\ misses \in [Runs -> 0 .. MaxMisses]
  /\ epoch \in Nat \ {0}
  /\ phase \in {"up", "stopping", "down"}
  /\ grace \in 0 .. Grace
  /\ disturbed \in BOOLEAN

Init ==
  /\ owner = NoOwner /\ left = -1
  /\ pc = [r \in Runs |-> "idle"]
  /\ sleep = [r \in Runs |-> 0]
  /\ misses = [r \in Runs |-> 0]
  /\ epoch = 1 /\ phase = "up" /\ grace = Grace
  /\ disturbed = FALSE
------------------------------------------------------------------------------
(* The lock statements of the repository.                                  *)

LockFreeLate == owner = NoOwner \/ left <= 0

LockFreeNoExpiry == owner = NoOwner

\* try_job_lock's insert meets no row, or one with expires_at < now().
LockFree == owner = NoOwner \/ left < 0

Acquire == owner' = epoch /\ left' = Lease

RenewTimestampOnly == UNCHANGED lockRow

\* heartbeat_job_lock: the update matches the owner, and nothing when it differs.
Renew == IF owner = epoch THEN left' = Lease /\ UNCHANGED owner ELSE UNCHANGED lockRow

\* release_job_lock: the delete matches the owner id, which every run of this
\* process shares.
DeleteOwn == IF owner = epoch THEN owner' = NoOwner /\ left' = -1 ELSE UNCHANGED lockRow

DeleteRow == owner' = NoOwner /\ left' = -1
------------------------------------------------------------------------------
(* run_sync                                                                *)

\* A run comes from the scheduler or a waiting caller ("idle"), or from the
\* background task of an accepted ?wait=false request ("queued").
Ready(r) == pc[r] \in {"idle", "queued"}

SkipStopping(r) ==
  /\ Ready(r) /\ phase = "stopping"
  /\ pc' = [pc EXCEPT ![r] = "skipped"]
  /\ UNCHANGED <<lockRow, beats, process, disturbed>>

\* stop_event is not set; the lock statement is a thread of its own, and the process
\* may have begun to stop when it is done.
CheckStop(r) ==
  /\ Ready(r) /\ phase = "up"
  /\ pc' = [pc EXCEPT ![r] = "checked"]
  /\ UNCHANGED <<lockRow, beats, process, disturbed>>

SkipBusy(r) ==
  /\ pc[r] = "checked" /\ phase # "down" /\ ~LockFree
  /\ pc' = [pc EXCEPT ![r] = "skipped"]
  /\ UNCHANGED <<lockRow, beats, process, disturbed>>

StartUnchecked(r) ==
  /\ pc[r] = "checked" /\ phase # "down"
  /\ Acquire
  /\ pc' = [pc EXCEPT ![r] = "running"]
  /\ sleep' = [sleep EXCEPT ![r] = HbInterval]
  /\ misses' = [misses EXCEPT ![r] = 0]
  /\ UNCHANGED <<process, disturbed>>

\* The lock is taken and the heartbeat task starts with its sleep.
Start(r) ==
  /\ pc[r] = "checked" /\ phase # "down" /\ LockFree
  /\ Acquire
  /\ pc' = [pc EXCEPT ![r] = "running"]
  /\ sleep' = [sleep EXCEPT ![r] = HbInterval]
  /\ misses' = [misses EXCEPT ![r] = 0]
  /\ UNCHANGED <<process, disturbed>>

\* _heartbeat_lock_loop has slept its interval; the finally block cancels it.
Beating(r) == pc[r] = "running" /\ sleep[r] = 0

Heartbeat(r) ==
  /\ Beating(r) /\ phase # "down"
  /\ Renew
  /\ sleep' = [sleep EXCEPT ![r] = HbInterval]
  /\ misses' = [misses EXCEPT ![r] = 0]
  /\ UNCHANGED <<pc, process, disturbed>>

\* The renewal raises; the loop logs and sleeps again.
HeartbeatFails(r) ==
  /\ Beating(r) /\ phase # "down"
  /\ misses[r] < MaxMisses
  /\ sleep' = [sleep EXCEPT ![r] = HbInterval]
  /\ misses' = [misses EXCEPT ![r] = @ + 1]
  /\ UNCHANGED <<lockRow, pc, process, disturbed>>

\* The integrations are synced, one raised, stop_event was seen or the task was
\* cancelled: in every case the finally block stops the heartbeat.
Finish(r) ==
  /\ pc[r] = "running" /\ phase # "down"
  /\ pc' = [pc EXCEPT ![r] = "releasing"]
  /\ sleep' = [sleep EXCEPT ![r] = ReleaseTicks]
  /\ UNCHANGED <<lockRow, misses, process, disturbed>>

Release(r) ==
  /\ pc[r] = "releasing" /\ phase # "down"
  /\ DeleteOwn
  /\ pc' = [pc EXCEPT ![r] = "done"]
  /\ sleep' = [sleep EXCEPT ![r] = 0]
  /\ UNCHANGED <<misses, process, disturbed>>

\* The delete raises: the row stays until its lease runs out.
ReleaseFails(r) ==
  /\ pc[r] = "releasing" /\ phase # "down"
  /\ pc' = [pc EXCEPT ![r] = "done"]
  /\ sleep' = [sleep EXCEPT ![r] = 0]
  /\ UNCHANGED <<lockRow, misses, process, disturbed>>
------------------------------------------------------------------------------
(* trigger_sync with ?wait=false, and the operator                         *)

\* _reserve_sync_slot takes the lock under an owner of its own and deletes it
\* again in the same transaction; the request is answered 202.
Reserve(r) ==
  /\ pc[r] = "idle" /\ phase = "up" /\ LockFree
  /\ DeleteRow
  /\ pc' = [pc EXCEPT ![r] = "queued"]
  /\ UNCHANGED <<beats, process, disturbed>>

\* try_job_lock fails: the request is answered 409 and there is no run.
Refuse(r) ==
  /\ pc[r] = "idle" /\ phase = "up" /\ ~LockFree
  /\ pc' = [pc EXCEPT ![r] = "skipped"]
  /\ UNCHANGED <<lockRow, beats, process, disturbed>>

\* delete_warehouse_sync_job_locks, delete_all_job_locks, and the truncate of
\* reset_data: none of them looks for a live run.
OperatorClear ==
  /\ OperatorClears /\ phase = "up"
  /\ owner # NoOwner
  /\ DeleteRow
  /\ disturbed' = (disturbed \/ \E r \in Runs : Holding(r))
  /\ UNCHANGED <<pc, beats, process>>
------------------------------------------------------------------------------
(* The process and its clock                                               *)

Stop ==
  /\ phase = "up" /\ epoch < MaxEpoch
  /\ phase' = "stopping" /\ grace' = Grace
  /\ UNCHANGED <<lockRow, pc, beats, epoch, disturbed>>

\* _shutdown returns once the runs have reached their finalizers; the others are
\* cancelled.
Exit ==
  /\ phase = "stopping"
  /\ \A r \in Runs : ~Holding(r)
  /\ phase' = "down"
  /\ pc' = [r \in Runs |-> IF pc[r] \in {"queued", "checked"} THEN "killed" ELSE pc[r]]
  /\ UNCHANGED <<lockRow, beats, epoch, grace, disturbed>>

\* Killed: no finally block runs and the lock row stays.
Crash ==
  /\ phase # "down" /\ epoch < MaxEpoch
  /\ phase' = "down"
  /\ pc' = [r \in Runs |-> IF Holding(r) \/ pc[r] \in {"queued", "checked"} THEN "killed" ELSE pc[r]]
  /\ UNCHANGED <<lockRow, beats, epoch, grace, disturbed>>

\* A new SyncService draws a new lock_owner_id; "Job locks are left alone".
Boot ==
  /\ phase = "down"
  /\ phase' = "up" /\ epoch' = epoch + 1
  /\ disturbed' = FALSE
  /\ UNCHANGED <<lockRow, pc, beats, grace>>

\* A renewal or a release that is due comes before the next tick, and a
\* stopping process is gone when its grace is.
Tick ==
  /\ \A r \in Runs : Holding(r) => sleep[r] > 0
  /\ phase = "stopping" => grace > 0
  /\ left' = IF left >= 0 THEN left - 1 ELSE left
  /\ sleep' = [r \in Runs |-> IF Holding(r) THEN sleep[r] - 1 ELSE sleep[r]]
  /\ grace' = IF phase = "stopping" THEN grace - 1 ELSE grace
  /\ UNCHANGED <<owner, pc, misses, epoch, phase, disturbed>>

RunStep(r) ==
  \/ SkipStopping(r) \/ CheckStop(r) \/ SkipBusy(r) \/ Start(r)
  \/ Heartbeat(r) \/ HeartbeatFails(r)
  \/ Finish(r) \/ Release(r) \/ ReleaseFails(r)
  \/ Reserve(r) \/ Refuse(r)

ProcessStep == Stop \/ Exit \/ Crash \/ Boot

Next == (\E r \in Runs : RunStep(r)) \/ OperatorClear \/ ProcessStep \/ Tick

\* The event loop resumes every task whose await is over, time passes, and the
\* container's restart policy brings the process back.
Fairness ==
  /\ WF_vars(Tick)
  /\ WF_vars(Exit) /\ WF_vars(Boot)
  /\ \A r \in Runs : WF_vars(Finish(r)) /\ WF_vars(Release(r) \/ ReleaseFails(r))
  /\ \A r \in Runs : WF_vars(Heartbeat(r) \/ HeartbeatFails(r))

Spec == Init /\ [][Next]_vars /\ Fairness
------------------------------------------------------------------------------
(* Properties                                                              *)

\* Ticks since the run's last renewal, at most.
Age(r) ==
  IF pc[r] = "running" THEN misses[r] * HbInterval + (HbInterval - sleep[r])
  ELSE (MaxMisses + 1) * HbInterval + (ReleaseTicks - sleep[r])

\* While no operator interferes, a run from its try_job_lock to its
\* release_job_lock has the row in its process's name with enough of the lease
\* left, however its heartbeats fail within MaxMisses.
HolderCovered ==
  ~disturbed => \A r \in Runs : Holding(r) =>
    /\ owner = epoch
    /\ left >= Lease - Age(r)
    /\ sleep[r] <= IF pc[r] = "running" THEN HbInterval ELSE ReleaseTicks

\* Two runs of a lane are never inside run_sync's locked part together: not after
\* missed renewals, a crash, a restart or a failed release.
LeaseExclusive ==
  ~disturbed => \A r, s \in Runs : Holding(r) /\ Holding(s) => r = s

\* A process that is down runs nothing.
DownIsQuiet == phase = "down" => \A r \in Runs : ~Holding(r)

\* The strengthening that is inductive.
LeaseInv == TypeOK /\ HolderCovered /\ LeaseExclusive /\ DownIsQuiet

\* The lock implements turn taking.
Turns == INSTANCE SyncTurns WITH
  turn <- {r \in Runs : Holding(r)}, loose <- disturbed

\* The refinement, as a property of a run.
TakesTurns == Turns!TurnSpec

\* A lock whose run is gone, by a crash or a failed release, does not keep the
\* lane shut: the row is deleted or expires, unless another run got the lane.
LockRecovers ==
  (owner # NoOwner /\ \A r \in Runs : ~Holding(r))
    ~> (LockFree \/ \E r \in Runs : Holding(r))
==============================================================================
