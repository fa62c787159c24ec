--------------------------- MODULE SyncLeaseProofs ---------------------------
(***************************************************************************)
(* Proofs about the job lock of SyncLease, for every lease, heartbeat      *)
(* interval and number of runs that satisfy LeaseAssumption.               *)
(***************************************************************************)
EXTENDS SyncLease, TLAPS

\* Fewer failed renewals take less of the lease.
LEMMA MissesBounded ==
  ASSUME NEW m \in 0 .. MaxMisses
  PROVE  /\ m * HbInterval \in Nat
         /\ m * HbInterval + HbInterval <= (MaxMisses + 1) * HbInterval
<1>1. /\ m \in Nat /\ MaxMisses \in Nat /\ HbInterval \in Nat /\ m <= MaxMisses
  BY LeaseAssumption
<1> QED BY <1>1, SMT

\* One more failed renewal takes one more interval.
LEMMA OneMore ==
  ASSUME NEW m \in Nat
  PROVE  (m + 1) * HbInterval = m * HbInterval + HbInterval
<1>1. HbInterval \in Nat BY LeaseAssumption
<1> QED BY <1>1, SMT

\* A covered run's lease has not expired: the bound on its age is below the lease.
LEMMA CoveredIsLive ==
  ASSUME LeaseInv, ~disturbed, NEW r \in Runs, Holding(r)
  PROVE  owner = epoch /\ left >= 0 /\ ~LockFree
<1>1. CASE pc[r] = "running"
  <2>1. misses[r] \in 0 .. MaxMisses BY DEF LeaseInv, TypeOK
  <2>2. misses[r] * HbInterval \in Nat
        /\ misses[r] * HbInterval + HbInterval <= (MaxMisses + 1) * HbInterval
    BY <2>1, MissesBounded
  <2> QED BY <1>1, <2>2, LeaseAssumption
          DEF LeaseInv, TypeOK, HolderCovered, Age, LockFree, NoOwner
<1>2. CASE pc[r] = "releasing"
  <2>1. (MaxMisses + 1) * HbInterval \in Nat BY LeaseAssumption, SMT
  <2> QED BY <1>2, <2>1, LeaseAssumption
          DEF LeaseInv, TypeOK, HolderCovered, Age, LockFree, NoOwner
<1> QED BY <1>1, <1>2 DEF Holding

\* The initial state satisfies the inductive invariant.
LEMMA InitLeaseInv == Init => LeaseInv
<1> SUFFICES ASSUME Init PROVE LeaseInv OBVIOUS
<1>1. TypeOK
  <2>1. /\ 0 \in 0 .. HbInterval + ReleaseTicks /\ 0 \in 0 .. MaxMisses
        /\ -1 \in -1 .. Lease /\ Grace \in 0 .. Grace
    BY LeaseAssumption
  <2>2. owner \in 0 .. epoch /\ epoch \in Nat \ {0} BY DEF Init, NoOwner
  <2>3. pc \in [Runs -> Places] BY DEF Init, Places
  <2>4. sleep \in [Runs -> 0 .. HbInterval + ReleaseTicks] /\ misses \in [Runs -> 0 .. MaxMisses]
    BY <2>1 DEF Init
  <2> QED BY <2>1, <2>2, <2>3, <2>4 DEF Init, TypeOK
<1>2. \A r \in Runs : ~Holding(r) BY DEF Init, Holding
<1> QED BY <1>1, <1>2 DEF LeaseInv, HolderCovered, LeaseExclusive, DownIsQuiet

\* A step that starts no run and leaves the lock, the heartbeats and the process
\* alone keeps the invariant, whatever runs it takes out of the lane.
LEMMA QuietStep ==
  ASSUME LeaseInv, TypeOK', UNCHANGED <<owner, left, sleep, misses, epoch, disturbed>>,
         \A r \in Runs : pc'[r] \in {"running", "releasing"} => pc'[r] = pc[r],
         phase' = "down" => \A r \in Runs : pc'[r] \notin {"running", "releasing"}
  PROVE  LeaseInv'
<1>1. \A r \in Runs : Holding(r)' => Holding(r) BY DEF Holding
<1>2. HolderCovered'
  <2> SUFFICES ASSUME ~disturbed', NEW r \in Runs, Holding(r)'
               PROVE  /\ owner' = epoch'
                      /\ left' >= Lease - Age(r)'
                      /\ sleep'[r] <= IF pc'[r] = "running" THEN HbInterval ELSE ReleaseTicks
    BY DEF HolderCovered
  <2>1. pc'[r] = pc[r] /\ Holding(r) BY <1>1 DEF Holding
  <2> QED BY <2>1 DEF LeaseInv, HolderCovered, Age
<1>3. LeaseExclusive' BY <1>1 DEF LeaseInv, LeaseExclusive
<1>4. DownIsQuiet' BY DEF DownIsQuiet, Holding
<1> QED BY <1>2, <1>3, <1>4 DEF LeaseInv

\* The types hold after every step.
LEMMA TypeStep ==
  ASSUME LeaseInv, [Next]_vars
  PROVE  TypeOK'
<1> USE LeaseAssumption DEF LeaseInv, TypeOK, Places, NoOwner, lockRow, beats, process
<1>0. /\ HbInterval \in 0 .. HbInterval + ReleaseTicks
      /\ ReleaseTicks \in 0 .. HbInterval + ReleaseTicks
      /\ 0 \in 0 .. HbInterval + ReleaseTicks
      /\ 0 \in 0 .. MaxMisses
      /\ Lease \in -1 .. Lease /\ -1 \in -1 .. Lease
      /\ epoch \in 0 .. epoch /\ 0 \in 0 .. epoch
      /\ Grace \in 0 .. Grace
  OBVIOUS
<1>1. ASSUME NEW r \in Runs, RunStep(r) PROVE TypeOK'
  <2>1. CASE SkipStopping(r) \/ CheckStop(r) BY <2>1 DEF SkipStopping, CheckStop
  <2>2. CASE SkipBusy(r) BY <2>2 DEF SkipBusy
  <2>3. CASE Start(r) BY <2>3, <1>0 DEF Start, Acquire
  <2>4. CASE Heartbeat(r)
    <3>1. owner' \in 0 .. epoch' /\ left' \in -1 .. Lease
      BY <2>4, <1>0 DEF Heartbeat, Renew
    <3> QED BY <2>4, <1>0, <3>1 DEF Heartbeat
  <2>5. CASE HeartbeatFails(r)
    <3>1. misses[r] + 1 \in 0 .. MaxMisses BY <2>5 DEF HeartbeatFails
    <3> QED BY <2>5, <1>0, <3>1 DEF HeartbeatFails
  <2>6. CASE Finish(r) BY <2>6, <1>0 DEF Finish
  <2>7. CASE Release(r)
    <3>1. owner' \in 0 .. epoch' /\ left' \in -1 .. Lease
      BY <2>7, <1>0 DEF Release, DeleteOwn
    <3> QED BY <2>7, <1>0, <3>1 DEF Release
  <2>8. CASE ReleaseFails(r) BY <2>8, <1>0 DEF ReleaseFails
  <2>9. CASE Reserve(r) BY <2>9, <1>0 DEF Reserve, DeleteRow
  <2>10. CASE Refuse(r) BY <2>10 DEF Refuse
  <2> QED BY <1>1, <2>1, <2>2, <2>3, <2>4, <2>5, <2>6, <2>7, <2>8, <2>9, <2>10 DEF RunStep
<1>2. CASE OperatorClear BY <1>2, <1>0 DEF OperatorClear, DeleteRow
<1>3. CASE Stop BY <1>3, <1>0 DEF Stop
<1>4. CASE Exit BY <1>4 DEF Exit
<1>5. CASE Crash BY <1>5 DEF Crash
<1>6. CASE Boot
  <2>1. epoch' \in Nat \ {0} /\ owner' \in 0 .. epoch' BY <1>6 DEF Boot
  <2>2. UNCHANGED <<left, pc, sleep, misses, grace>> /\ phase' = "up" /\ disturbed' = FALSE
    BY <1>6 DEF Boot
  <2> QED BY <2>1, <2>2
<1>7. CASE Tick
  <2>1. left' \in -1 .. Lease BY <1>7 DEF Tick
  <2>2. grace' \in 0 .. Grace BY <1>7 DEF Tick
  <2>3. \A r \in Runs : Holding(r) => sleep[r] - 1 \in 0 .. HbInterval + ReleaseTicks
    BY <1>7 DEF Tick
  <2>4. sleep' \in [Runs -> 0 .. HbInterval + ReleaseTicks] BY <1>7, <2>3 DEF Tick
  <2> QED BY <1>7, <2>1, <2>2, <2>4 DEF Tick
<1>8. CASE UNCHANGED vars BY <1>8 DEF vars
<1> QED BY <1>1, <1>2, <1>3, <1>4, <1>5, <1>6, <1>7, <1>8 DEF Next, ProcessStep

\* A run enters the lane only when no covered run is inside, with a full lease.
LEMMA StartStep ==
  ASSUME LeaseInv, TypeOK', NEW r \in Runs, Start(r)
  PROVE  LeaseInv'
<1>1. ~disturbed => \A s \in Runs : ~Holding(s) BY CoveredIsLive DEF Start
<1>2. /\ pc' = [pc EXCEPT ![r] = "running"] /\ sleep' = [sleep EXCEPT ![r] = HbInterval]
      /\ misses' = [misses EXCEPT ![r] = 0]
      /\ owner' = epoch /\ left' = Lease /\ UNCHANGED <<epoch, phase, disturbed>>
  BY DEF Start, Acquire, process
<1>3. \A s \in Runs : Holding(s)' => s = r \/ Holding(s) BY <1>2 DEF LeaseInv, TypeOK, Holding
<1>4. HolderCovered'
  <2>1. pc'[r] = "running" /\ sleep'[r] = HbInterval /\ misses'[r] = 0
    BY <1>2 DEF LeaseInv, TypeOK
  <2>2. left' >= Lease - Age(r)' BY <1>2, <2>1, LeaseAssumption DEF Age
  <2>3. sleep'[r] <= HbInterval BY <2>1, LeaseAssumption
  <2> QED BY <1>1, <1>2, <1>3, <2>1, <2>2, <2>3 DEF HolderCovered
<1>5. LeaseExclusive' BY <1>1, <1>2, <1>3 DEF LeaseExclusive
<1>6. DownIsQuiet' BY <1>2 DEF Start, DownIsQuiet
<1> QED BY <1>4, <1>5, <1>6 DEF LeaseInv

\* A renewal gives the covered run a full lease again; a failed one costs it an
\* interval, which MaxMisses bounds.
LEMMA BeatStep ==
  ASSUME LeaseInv, TypeOK', NEW r \in Runs, Heartbeat(r) \/ HeartbeatFails(r)
  PROVE  LeaseInv'
<1>1. /\ pc' = pc /\ sleep' = [sleep EXCEPT ![r] = HbInterval]
      /\ UNCHANGED <<epoch, phase, disturbed>>
      /\ pc[r] = "running" /\ sleep[r] = 0
  BY DEF Heartbeat, HeartbeatFails, Beating, process
<1>2. \A s \in Runs : Holding(s)' <=> Holding(s) BY <1>1 DEF Holding
<1>3. LeaseExclusive' BY <1>1, <1>2 DEF LeaseInv, LeaseExclusive
<1>4. DownIsQuiet' BY <1>1, <1>2 DEF LeaseInv, DownIsQuiet
<1>5. HolderCovered'
  <2> SUFFICES ASSUME ~disturbed', NEW s \in Runs, Holding(s)'
               PROVE  /\ owner' = epoch'
                      /\ left' >= Lease - Age(s)'
                      /\ sleep'[s] <= IF pc'[s] = "running" THEN HbInterval ELSE ReleaseTicks
    BY DEF HolderCovered
  <2>1. s = r BY <1>1, <1>2 DEF LeaseInv, LeaseExclusive, Holding
  <2>2. pc'[s] = "running" /\ sleep'[s] = HbInterval
    BY <1>1, <2>1 DEF LeaseInv, TypeOK
  <2>3. owner = epoch /\ left >= Lease - Age(r)
    BY <1>1, <1>2, <2>1 DEF LeaseInv, HolderCovered
  <2>4. misses[r] \in Nat /\ HbInterval \in Nat /\ left \in Int /\ Lease \in Nat
    BY LeaseAssumption DEF LeaseInv, TypeOK
  <2>5. CASE Heartbeat(r)
    <3>1. owner' = epoch /\ left' = Lease /\ misses'[r] = 0
      BY <2>5, <2>3 DEF Heartbeat, Renew, LeaseInv, TypeOK
    <3> QED BY <1>1, <2>1, <2>2, <3>1, <2>4 DEF Age
  <2>6. CASE HeartbeatFails(r)
    <3>1. owner' = owner /\ left' = left /\ misses'[r] = misses[r] + 1
      BY <2>6 DEF HeartbeatFails, lockRow, LeaseInv, TypeOK
    <3>2. Age(r)' = misses[r] * HbInterval + HbInterval
      <4>1. (misses[r] + 1) * HbInterval = misses[r] * HbInterval + HbInterval
        BY <2>4, OneMore
      <4>2. misses[r] * HbInterval \in Nat BY <2>4, SMT
      <4> QED BY <2>1, <2>2, <3>1, <4>1, <4>2, <2>4 DEF Age
    <3>3. Age(r) = misses[r] * HbInterval + HbInterval BY <1>1, <2>4 DEF Age
    <3> QED BY <1>1, <2>1, <2>2, <2>3, <2>4, <3>1, <3>2, <3>3
  <2> QED BY <2>5, <2>6
<1> QED BY <1>3, <1>4, <1>5 DEF LeaseInv

\* The end of a run leaves it the ticks its release may take.
LEMMA FinishStep ==
  ASSUME LeaseInv, TypeOK', NEW r \in Runs, Finish(r)
  PROVE  LeaseInv'
<1>1. /\ pc' = [pc EXCEPT ![r] = "releasing"] /\ sleep' = [sleep EXCEPT ![r] = ReleaseTicks]
      /\ UNCHANGED <<owner, left, misses, epoch, phase, disturbed>> /\ pc[r] = "running"
  BY DEF Finish, lockRow, process
<1>2. \A s \in Runs : Holding(s)' <=> Holding(s) BY <1>1 DEF Holding, LeaseInv, TypeOK
<1>3. LeaseExclusive' BY <1>1, <1>2 DEF LeaseInv, LeaseExclusive
<1>4. DownIsQuiet' BY <1>1, <1>2 DEF LeaseInv, DownIsQuiet
<1>5. HolderCovered'
  <2> SUFFICES ASSUME ~disturbed', NEW s \in Runs, Holding(s)'
               PROVE  /\ owner' = epoch'
                      /\ left' >= Lease - Age(s)'
                      /\ sleep'[s] <= IF pc'[s] = "running" THEN HbInterval ELSE ReleaseTicks
    BY DEF HolderCovered
  <2>1. s = r BY <1>1, <1>2 DEF LeaseInv, LeaseExclusive, Holding
  <2>2. pc'[s] = "releasing" /\ sleep'[s] = ReleaseTicks
    BY <1>1, <2>1 DEF LeaseInv, TypeOK
  <2>3. owner = epoch /\ left >= Lease - (misses[r] * HbInterval + (HbInterval - sleep[r]))
    BY <1>1, <1>2, <2>1 DEF LeaseInv, HolderCovered, Age
  <2>4. /\ misses[r] \in 0 .. MaxMisses /\ sleep[r] \in Nat /\ left \in Int
    BY LeaseAssumption DEF LeaseInv, TypeOK
  <2>5. /\ misses[r] * HbInterval \in Nat
        /\ misses[r] * HbInterval + HbInterval <= (MaxMisses + 1) * HbInterval
    BY <2>4, MissesBounded
  <2>6. (MaxMisses + 1) * HbInterval \in Nat BY LeaseAssumption, SMT
  <2> QED BY <1>1, <2>1, <2>2, <2>3, <2>4, <2>5, <2>6, LeaseAssumption DEF Age
<1> QED BY <1>3, <1>4, <1>5 DEF LeaseInv

\* A release takes its run out; the row it deletes is nobody else's.
LEMMA ReleaseStep ==
  ASSUME LeaseInv, TypeOK', NEW r \in Runs, Release(r)
  PROVE  LeaseInv'
<1>1. pc' = [pc EXCEPT ![r] = "done"] /\ UNCHANGED <<phase, disturbed>> /\ pc[r] = "releasing"
  BY DEF Release, process
<1>2. \A s \in Runs : Holding(s)' => Holding(s) /\ s # r
  BY <1>1 DEF Holding, LeaseInv, TypeOK
<1>3. ~disturbed => \A s \in Runs : ~Holding(s)'
  BY <1>1, <1>2 DEF LeaseInv, LeaseExclusive, Holding
<1>4. HolderCovered' /\ LeaseExclusive' BY <1>1, <1>3 DEF HolderCovered, LeaseExclusive
<1>5. DownIsQuiet' BY <1>1, <1>2 DEF LeaseInv, DownIsQuiet
<1> QED BY <1>4, <1>5 DEF LeaseInv

\* A tick takes as much from the lease as it adds to the age of the run inside,
\* and a covered lease has not expired, so the clock does not stand at -1.
LEMMA TickStep ==
  ASSUME LeaseInv, TypeOK', Tick
  PROVE  LeaseInv'
<1>1. /\ UNCHANGED <<owner, pc, misses, epoch, phase, disturbed>>
      /\ left' = IF left >= 0 THEN left - 1 ELSE left
      /\ sleep' = [r \in Runs |-> IF Holding(r) THEN sleep[r] - 1 ELSE sleep[r]]
  BY DEF Tick
<1>2. \A s \in Runs : Holding(s)' <=> Holding(s) BY <1>1 DEF Holding
<1>3. LeaseExclusive' BY <1>1, <1>2 DEF LeaseInv, LeaseExclusive
<1>4. DownIsQuiet' BY <1>1, <1>2 DEF LeaseInv, DownIsQuiet
<1>5. HolderCovered'
  <2> SUFFICES ASSUME ~disturbed', NEW s \in Runs, Holding(s)'
               PROVE  /\ owner' = epoch'
                      /\ left' >= Lease - Age(s)'
                      /\ sleep'[s] <= IF pc'[s] = "running" THEN HbInterval ELSE ReleaseTicks
    BY DEF HolderCovered
  <2>1. Holding(s) /\ ~disturbed BY <1>1, <1>2
  <2>2. owner = epoch /\ left >= 0 BY <2>1, CoveredIsLive
  <2>3. sleep'[s] = sleep[s] - 1 BY <1>1, <2>1
  <2>4. /\ left >= Lease - Age(s)
        /\ sleep[s] <= IF pc[s] = "running" THEN HbInterval ELSE ReleaseTicks
    BY <2>1 DEF LeaseInv, HolderCovered
  <2>5. /\ misses[s] \in Nat /\ sleep[s] \in Nat /\ left \in Int
        /\ HbInterval \in Nat /\ ReleaseTicks \in Nat /\ MaxMisses \in Nat /\ Lease \in Nat
    BY LeaseAssumption DEF LeaseInv, TypeOK
  <2>6. misses[s] * HbInterval \in Nat /\ (MaxMisses + 1) * HbInterval \in Nat
    BY <2>5, SMT
  <2> QED BY <1>1, <2>2, <2>3, <2>4, <2>5, <2>6 DEF Age
<1> QED BY <1>3, <1>4, <1>5 DEF LeaseInv

\* Reserving finds no covered run, and clearing under one is a disturbance.
LEMMA DeleteStep ==
  ASSUME LeaseInv, TypeOK', OperatorClear \/ \E r \in Runs : Reserve(r)
  PROVE  LeaseInv'
<1>1. UNCHANGED <<sleep, misses, epoch, phase>> BY DEF OperatorClear, Reserve, beats, process
<1>2. \A s \in Runs : Holding(s)' => Holding(s)
  BY DEF OperatorClear, Reserve, Holding, LeaseInv, TypeOK
<1>3. disturbed => disturbed' BY DEF OperatorClear, Reserve
<1>4. ~disturbed' => \A s \in Runs : ~Holding(s)
  <2>1. CASE OperatorClear BY <2>1 DEF OperatorClear
  <2>2. CASE \E r \in Runs : Reserve(r) BY <2>2, CoveredIsLive DEF Reserve
  <2> QED BY <2>1, <2>2
<1>5. HolderCovered' /\ LeaseExclusive' BY <1>2, <1>4 DEF HolderCovered, LeaseExclusive
<1>6. DownIsQuiet' BY <1>1, <1>2 DEF LeaseInv, DownIsQuiet
<1> QED BY <1>5, <1>6 DEF LeaseInv

\* Every step keeps the inductive invariant.
LEMMA NextLeaseInv == LeaseInv /\ [Next]_vars => LeaseInv'
<1> SUFFICES ASSUME LeaseInv, [Next]_vars PROVE LeaseInv' OBVIOUS
<1>1. TypeOK' BY TypeStep
<1>2. ASSUME NEW r \in Runs, RunStep(r) PROVE LeaseInv'
  <2>1. CASE SkipStopping(r) \/ CheckStop(r) \/ SkipBusy(r) \/ Refuse(r) \/ ReleaseFails(r)
    <3>1. UNCHANGED <<owner, left, misses, epoch, phase, disturbed>>
      BY <2>1 DEF SkipStopping, CheckStop, SkipBusy, Refuse, ReleaseFails, lockRow, beats, process
    <3>2. \A s \in Runs : Holding(s)' => pc'[s] = pc[s] /\ Holding(s)
      BY <2>1 DEF SkipStopping, CheckStop, SkipBusy, Refuse, ReleaseFails, Holding, LeaseInv, TypeOK
    <3>3. \A s \in Runs : Holding(s)' => sleep'[s] = sleep[s]
      BY <2>1 DEF SkipStopping, CheckStop, SkipBusy, Refuse, ReleaseFails, beats, Holding, LeaseInv, TypeOK
    <3>4. HolderCovered'
      <4> SUFFICES ASSUME ~disturbed', NEW s \in Runs, Holding(s)'
                   PROVE  /\ owner' = epoch'
                          /\ left' >= Lease - Age(s)'
                          /\ sleep'[s] <= IF pc'[s] = "running" THEN HbInterval ELSE ReleaseTicks
        BY DEF HolderCovered
      <4> QED BY <3>1, <3>2, <3>3 DEF LeaseInv, HolderCovered, Age
    <3>5. LeaseExclusive' BY <3>1, <3>2 DEF LeaseInv, LeaseExclusive
    <3>6. DownIsQuiet' BY <3>1, <3>2 DEF LeaseInv, DownIsQuiet
    <3> QED BY <1>1, <3>4, <3>5, <3>6 DEF LeaseInv
  <2>2. CASE Start(r) BY <1>1, <2>2, StartStep
  <2>3. CASE Heartbeat(r) \/ HeartbeatFails(r) BY <1>1, <2>3, BeatStep
  <2>4. CASE Finish(r) BY <1>1, <2>4, FinishStep
  <2>5. CASE Release(r) BY <1>1, <2>5, ReleaseStep
  <2>6. CASE Reserve(r) BY <1>1, <2>6, DeleteStep
  <2> QED BY <1>2, <2>1, <2>2, <2>3, <2>4, <2>5, <2>6 DEF RunStep
<1>3. CASE OperatorClear BY <1>1, <1>3, DeleteStep
<1>4. CASE Stop BY <1>1, <1>4, QuietStep DEF Stop, lockRow, beats
<1>5. CASE Exit BY <1>1, <1>5, QuietStep DEF Exit, lockRow, beats, Holding
<1>6. CASE Crash BY <1>1, <1>6, QuietStep DEF Crash, lockRow, beats, Holding
<1>7. CASE Boot
  <2>1. \A s \in Runs : ~Holding(s)' BY <1>7 DEF Boot, LeaseInv, DownIsQuiet, Holding
  <2> QED BY <1>1, <2>1 DEF LeaseInv, HolderCovered, LeaseExclusive, DownIsQuiet
<1>8. CASE Tick BY <1>1, <1>8, TickStep
<1>9. CASE UNCHANGED vars
  BY <1>9 DEF vars, LeaseInv, TypeOK, HolderCovered, LeaseExclusive, DownIsQuiet, Holding, Age
<1> QED BY <1>2, <1>3, <1>4, <1>5, <1>6, <1>7, <1>8, <1>9 DEF Next, ProcessStep

\* The inductive invariant holds throughout: types, a lease that covers the run
\* inside, one run at a time, and nobody inside a process that is down.
THEOREM LeaseInvariance == Spec => []LeaseInv
<1> QED BY InitLeaseInv, NextLeaseInv, PTL DEF Spec

\* Type correctness of the lock, the runs and the process.
THEOREM LeaseTypes == Spec => []TypeOK
<1>1. LeaseInv => TypeOK BY DEF LeaseInv
<1> QED BY <1>1, LeaseInvariance, PTL

\* Runs of a lane exclude one another unless the operator deleted the row of a
\* live one: heartbeats may fail up to MaxMisses times in a row, releases may
\* fail, and the process may crash and restart anywhere.
THEOREM LeaseIsExclusive == Spec => []LeaseExclusive
<1>1. LeaseInv => LeaseExclusive BY DEF LeaseInv
<1> QED BY <1>1, LeaseInvariance, PTL

\* The run inside always has the row in its process's name, unexpired.
THEOREM LeaseCovers == Spec => []HolderCovered
<1>1. LeaseInv => HolderCovered BY DEF LeaseInv
<1> QED BY <1>1, LeaseInvariance, PTL

\* Every step of the lock is a step of turn taking, or none.
LEMMA TurnsStep ==
  LeaseInv /\ [Next]_vars => [Turns!TurnNext]_(Turns!turnVars)
<1> SUFFICES ASSUME LeaseInv, [Next]_vars PROVE [Turns!TurnNext]_(Turns!turnVars) OBVIOUS
<1> DEFINE inside == {r \in Runs : Holding(r)}
<1>1. ASSUME inside' \subseteq inside, disturbed' = disturbed PROVE Turns!Leave
  BY <1>1 DEF Turns!Leave
<1>2. ASSUME NEW r \in Runs, RunStep(r) PROVE Turns!TurnNext
  <2>1. CASE Start(r)
    <3>1. inside' = inside \cup {r} /\ disturbed' = disturbed
      BY <2>1 DEF Start, Holding, LeaseInv, TypeOK
    <3>2. inside = {} \/ disturbed BY <2>1, CoveredIsLive DEF Start
    <3>3. Turns!Enter(r) BY <3>1, <3>2 DEF Turns!Enter
    <3> QED BY <3>3 DEF Turns!TurnNext
  <2>2. CASE ~Start(r)
    <3>1. disturbed' = disturbed
      BY <1>2, <2>2 DEF RunStep, SkipStopping, CheckStop, SkipBusy, Heartbeat, HeartbeatFails,
                        Finish, Release, ReleaseFails, Reserve, Refuse
    <3>2. inside' \subseteq inside
      BY <1>2, <2>2 DEF RunStep, SkipStopping, CheckStop, SkipBusy, Heartbeat, HeartbeatFails,
                        Finish, Release, ReleaseFails, Reserve, Refuse, Holding, LeaseInv, TypeOK
    <3> QED BY <1>1, <3>1, <3>2 DEF Turns!TurnNext
  <2> QED BY <2>1, <2>2
<1>3. CASE OperatorClear
  <2>1. inside' = inside BY <1>3 DEF OperatorClear, Holding
  <2>2. CASE inside = {}
    <3>1. disturbed' = disturbed BY <1>3, <2>2 DEF OperatorClear, LeaseInv, TypeOK
    <3> QED BY <1>1, <2>1, <3>1 DEF Turns!TurnNext
  <2>3. CASE inside # {}
    <3>1. disturbed' = TRUE BY <1>3, <2>3 DEF OperatorClear, LeaseInv, TypeOK
    <3>2. Turns!Loosen BY <2>1, <2>3, <3>1 DEF Turns!Loosen
    <3> QED BY <3>2 DEF Turns!TurnNext
  <2> QED BY <2>2, <2>3
<1>4. CASE Stop \/ Exit \/ Crash \/ Tick
  <2>1. inside' \subseteq inside /\ disturbed' = disturbed
    BY <1>4 DEF Stop, Exit, Crash, Tick, Holding
  <2> QED BY <1>1, <2>1 DEF Turns!TurnNext
<1>5. CASE Boot
  <2>1. inside' = inside /\ inside = {} BY <1>5 DEF Boot, Holding, LeaseInv, DownIsQuiet
  <2>2. Turns!Tighten BY <1>5, <2>1 DEF Boot, Turns!Tighten
  <2> QED BY <2>2 DEF Turns!TurnNext
<1>6. CASE UNCHANGED vars
  <2>1. inside' = inside /\ disturbed' = disturbed BY <1>6 DEF vars, Holding
  <2> QED BY <2>1 DEF Turns!turnVars
<1> QED BY <1>2, <1>3, <1>4, <1>5, <1>6 DEF Next, ProcessStep

\* The lock implements turn taking: a run enters an empty lane only, and what an
\* operator's clear loosens is tight again with the next process.
THEOREM LeaseTakesTurns == Spec => TakesTurns
<1>1. Init => Turns!TurnInit BY DEF Init, Turns!TurnInit, Holding
<1> QED BY <1>1, TurnsStep, LeaseInvariance, PTL DEF Spec, TakesTurns, Turns!TurnSpec
==============================================================================
