-------------------------- MODULE WebhookQueueProofs -------------------------
(***************************************************************************)
(* Proofs about the webhook queue, for any number of rows, keys and drains *)
(* and any policy, however long a drain takes over its batch.              *)
(***************************************************************************)
EXTENDS WebhookQueue, TLAPS

\* The delay after a failure is one of the delays there are.
LEMMA BackoffType ==
  ASSUME NEW n \in Nat
  PROVE  Backoff(n) \in 0 .. MaxDelay
<1>1. BackoffBase \in Nat /\ BackoffCap \in Nat /\ Visibility \in Nat BY QueueAssumption
<1>2. n * BackoffBase \in Nat BY <1>1, SMT
<1> QED BY <1>1, <1>2 DEF Backoff, MaxDelay

\* Hiding a row keeps the delays in range.
LEMMA VisibilityType == Visibility \in 0 .. MaxDelay /\ 0 \in 0 .. MaxDelay
BY QueueAssumption DEF MaxDelay

\* The queue starts empty.
LEMMA InitQueueInv == Init => QueueInv
<1> SUFFICES ASSUME Init PROVE QueueInv OBVIOUS
<1>1. /\ 0 \in 0 .. MaxDelay /\ 0 \in 0 .. MaxRounds /\ 0 \in 0 .. Deadline
      /\ 0 \in 0 .. MaxLapses /\ 0 \in 0 .. MaxRequeues
  BY QueueAssumption, VisibilityType
<1>2. /\ key \in [Ids -> Keys \cup {None}] /\ status \in [Ids -> Statuses]
      /\ attempts \in [Ids -> Nat] /\ due \in [Ids -> 0 .. MaxDelay]
  BY <1>1 DEF Init, Statuses
<1>3. /\ stage \in [Drains -> {"off", "draining", "ending"}]
      /\ round \in [Drains -> 0 .. MaxRounds] /\ batch \in [Drains -> SUBSET Ids]
      /\ cur \in [Drains -> Ids \cup {None}] /\ spent \in [Drains -> 0 .. Deadline]
  BY <1>1 DEF Init
<1>4. tries \in [Drains -> [Ids -> Nat]] BY DEF Init
<1>5. TypeOK BY <1>1, <1>2, <1>3, <1>4 DEF Init, TypeOK
<1> QED BY <1>5 DEF Init, QueueInv, ClaimHolds, OneDrainPerJob, LateExposed, BatchOfRunning

\* The types hold after every step.
LEMMA QueueTypeStep ==
  ASSUME TypeOK, [Next]_vars
  PROVE  TypeOK'
<1> USE QueueAssumption, VisibilityType
    DEF TypeOK, Statuses, columns, drain, signal, counts, RequestDrain
<1>1. ASSUME NEW i \in Ids, NEW k \in Keys, Receive(i, k) PROVE TypeOK'
  BY <1>1 DEF Receive
<1>2. ASSUME NEW w \in Drains, DrainStep(w) PROVE TypeOK'
  <2>1. ASSUME NEW S \in SUBSET Ids, Claim(w, S) PROVE TypeOK'
    <3>1. attempts' \in [Ids -> Nat] BY <2>1 DEF Claim
    <3>2. [i \in Ids |-> IF i \in S THEN attempts'[i] ELSE 0] \in [Ids -> Nat] BY <3>1
    <3>3. tries' \in [Drains -> [Ids -> Nat]] BY <2>1, <3>2 DEF Claim
    <3>4. round[w] + 1 \in 0 .. MaxRounds BY <2>1 DEF Claim
    <3>5. round' \in [Drains -> 0 .. MaxRounds] BY <2>1, <3>4 DEF Claim
    <3>6. due' \in [Ids -> 0 .. MaxDelay] BY <2>1 DEF Claim, Hide
    <3>7. spent' \in [Drains -> 0 .. Deadline] BY <2>1 DEF Claim
    <3> QED BY <2>1, <3>1, <3>3, <3>5, <3>6, <3>7 DEF Claim
  <2>2. ASSUME NEW i \in Ids, Apply(w, i) PROVE TypeOK' BY <2>2 DEF Apply
  <2>3. ASSUME NEW i \in Ids, Settle(w, i)
        PROVE  /\ batch' \in [Drains -> SUBSET Ids] /\ cur' \in [Drains -> Ids \cup {None}]
               /\ tries' \in [Drains -> [Ids -> Nat]] /\ exposed' \in SUBSET Ids
               /\ spent' \in [Drains -> 0 .. Deadline] /\ UNCHANGED <<stage, round>>
    BY <2>3 DEF Settle
  <2>4. ASSUME NEW i \in Ids, AckDone(w, i) PROVE TypeOK'
    <3>1. status' \in [Ids -> Statuses] BY <2>4 DEF AckDone
    <3> QED BY <2>3, <2>4, <3>1 DEF AckDone
  <2>5. ASSUME NEW i \in Ids, AckFailed(w, i) PROVE TypeOK'
    <3>1. FailedStatus(tries[w][i]) \in Statuses BY DEF FailedStatus
    <3>2. status' \in [Ids -> Statuses] BY <2>5, <3>1 DEF AckFailed
    <3>3. Backoff(tries[w][i]) \in 0 .. MaxDelay BY BackoffType
    <3>4. due' \in [Ids -> 0 .. MaxDelay] BY <2>5, <3>3 DEF AckFailed
    <3> QED BY <2>3, <2>5, <3>2, <3>4 DEF AckFailed
  <2>6. CASE EndRounds(w) BY <2>6 DEF EndRounds
  <2>7. ASSUME NEW S \in SUBSET Ids, Finish(w, S) PROVE TypeOK'
    <3>1. status' \in [Ids -> Statuses] BY <2>7 DEF Finish, Prune
    <3> QED BY <2>7, <3>1 DEF Finish
  <2> QED BY <1>2, <2>1, <2>2, <2>4, <2>5, <2>6, <2>7 DEF DrainStep
<1>3. ASSUME NEW w \in Drains, Abandon(w) PROVE TypeOK'
  <2>1. tries' \in [Drains -> [Ids -> Nat]] BY <1>3 DEF Abandon
  <2> QED BY <1>3, <2>1 DEF Abandon
<1>4. ASSUME NEW w \in Drains, CronDrain(w) PROVE TypeOK'
  BY <1>4 DEF CronDrain, StartDrain
<1>5. CASE BgWake BY <1>5 DEF BgWake
<1>6. CASE BgTake
  <2>1. UNCHANGED <<columns, exposed, counts>> /\ wake' = FALSE /\ pending' = FALSE
    BY <1>6 DEF BgTake, TakeSources
  <2>2. bg' \in {"waiting", "debouncing", "draining"} BY <1>6 DEF BgTake
  <2>3. CASE pending
    <3>1. StartDrain(Bg) BY <1>6, <2>3 DEF BgTake
    <3>2. /\ stage' \in [Drains -> {"off", "draining", "ending"}]
          /\ UNCHANGED <<round, batch, tries, cur, spent>>
      BY <3>1 DEF StartDrain
    <3> QED BY <2>1, <2>2, <3>2
  <2>4. CASE ~pending BY <1>6, <2>1, <2>2, <2>4 DEF BgTake
  <2> QED BY <2>3, <2>4
<1>7. CASE Crash
  <2>1. tries' \in [Drains -> [Ids -> Nat]] BY <1>7 DEF Crash
  <2>2. stage' \in [Drains -> {"off", "draining", "ending"}] BY <1>7 DEF Crash
  <2>3. batch' \in [Drains -> SUBSET Ids] /\ cur' \in [Drains -> Ids \cup {None}]
    BY <1>7 DEF Crash
  <2>4. /\ UNCHANGED <<key, status, attempts, due, requeues>>
        /\ round' \in [Drains -> 0 .. MaxRounds] /\ spent' \in [Drains -> 0 .. Deadline]
    BY <1>7 DEF Crash
  <2>5. wake' \in BOOLEAN /\ pending' \in BOOLEAN /\ bg' \in {"waiting", "debouncing", "draining"}
    BY <1>7 DEF Crash
  <2>6. exposed' \in SUBSET Ids BY <1>7 DEF Crash
  <2>7. lapses' \in 0 .. MaxLapses BY <1>7 DEF Crash
  <2> QED BY <2>1, <2>2, <2>3, <2>4, <2>5, <2>6, <2>7
<1>8. ASSUME NEW S \in SUBSET Ids, Requeue(S) PROVE TypeOK' BY <1>8 DEF Requeue
<1>9. CASE Tick
  <2>1. due' \in [Ids -> 0 .. MaxDelay]
    <3>1. MaxDelay \in Nat BY DEF MaxDelay
    <3> QED BY <1>9, <3>1 DEF Tick
  <2>2. spent' \in [Drains -> 0 .. Deadline] BY <1>9 DEF Tick
  <2>3. exposed' \in SUBSET Ids
    <3>1. exposed' = exposed \cup UNION {batch[w] : w \in {v \in Drains : spent'[v] >= Visibility}}
      BY <1>9 DEF Tick
    <3> QED BY <3>1
  <2> QED BY <1>9, <2>1, <2>2, <2>3 DEF Tick
<1>10. CASE UNCHANGED vars BY <1>10 DEF vars
<1> QED BY <1>1, <1>2, <1>3, <1>4, <1>5, <1>6, <1>7, <1>8, <1>9, <1>10
        DEF Next, RequeueJob, RequeueBulk

\* A row on which a claim holds is not due: no other claim finds it.
LEMMA HeldNotDue ==
  ASSUME QueueInv, NEW w \in Drains, NEW i \in batch[w] \ exposed
  PROVE  i \notin DueJobs
<1>1. i \in Ids BY DEF QueueInv, TypeOK
<1>2. due[i] + spent[w] >= Visibility BY DEF QueueInv, ClaimHolds
<1>3. spent[w] \in 0 .. Deadline /\ due[i] \in Nat
  BY <1>1, QueueAssumption DEF QueueInv, TypeOK, MaxDelay
<1>4. ~(spent[w] >= Visibility) BY DEF QueueInv, LateExposed
<1> QED BY <1>2, <1>3, <1>4, QueueAssumption DEF DueJobs

\* A claim takes only rows no claim holds on, and holds on them.
LEMMA ClaimStep ==
  ASSUME QueueInv, TypeOK', NEW w \in Drains, NEW S \in SUBSET Ids, Claim(w, S)
  PROVE  QueueInv'
<1>1. /\ batch' = [batch EXCEPT ![w] = S] /\ UNCHANGED <<exposed, stage, cur>>
      /\ batch[w] = {} /\ stage[w] = "draining" /\ S \subseteq DueJobs
  BY DEF Claim, Claimable
<1>2. \A v \in Drains : (batch[v] \ exposed) \cap S = {} BY <1>1, HeldNotDue
<1>3. ClaimHolds'
  <2> SUFFICES ASSUME NEW v \in Drains, NEW i \in batch'[v] \ exposed'
               PROVE  /\ status'[i] = "retrying" /\ attempts'[i] = tries'[v][i]
                      /\ due'[i] + spent'[v] >= Visibility
    BY DEF ClaimHolds
  <2>1. i \in Ids BY DEF TypeOK
  <2>2. CASE v = w
    <3>1. i \in S BY <1>1, <2>2 DEF QueueInv, TypeOK
    <3>2. status'[i] = "retrying" /\ due'[i] = Visibility
      BY <2>1, <3>1 DEF Claim, Hide
    <3>3. spent'[w] = 0 BY DEF Claim, QueueInv, TypeOK
    <3>4. tries'[w] = [j \in Ids |-> IF j \in S THEN attempts'[j] ELSE 0]
      BY DEF Claim, QueueInv, TypeOK
    <3> QED BY <2>1, <2>2, <3>1, <3>2, <3>3, <3>4, QueueAssumption
  <2>3. CASE v # w
    <3>1. i \in batch[v] \ exposed /\ i \notin S BY <1>1, <1>2, <2>3 DEF QueueInv, TypeOK
    <3>2. status'[i] = status[i] /\ attempts'[i] = attempts[i] /\ due'[i] = due[i]
      BY <2>1, <3>1 DEF Claim, Hide
    <3>3. tries'[v] = tries[v] /\ spent'[v] = spent[v]
      BY <2>3 DEF Claim, QueueInv, TypeOK
    <3> QED BY <3>1, <3>2, <3>3 DEF QueueInv, ClaimHolds
  <2> QED BY <2>2, <2>3
<1>4. OneDrainPerJob' BY <1>1, <1>2 DEF QueueInv, TypeOK, OneDrainPerJob
<1>5. BatchOfRunning' BY <1>1 DEF QueueInv, TypeOK, BatchOfRunning
<1>6. LateExposed'
  <2> SUFFICES ASSUME NEW v \in Drains, spent'[v] >= Visibility PROVE batch'[v] \subseteq exposed'
    BY DEF LateExposed
  <2>1. v # w BY QueueAssumption DEF Claim, QueueInv, TypeOK
  <2>2. spent'[v] = spent[v] /\ batch'[v] = batch[v] BY <1>1, <2>1 DEF Claim, QueueInv, TypeOK
  <2> QED BY <1>1, <2>2 DEF QueueInv, LateExposed
<1> QED BY <1>3, <1>4, <1>5, <1>6 DEF QueueInv

\* Settling a row disturbs no other drain's claim: the row was only this drain's,
\* or remains among the exposed ones.
LEMMA SettleStep ==
  ASSUME QueueInv, TypeOK', NEW w \in Drains, NEW i \in batch[w], Settle(w, i),
         \A j \in Ids \ {i} : /\ status'[j] = status[j] /\ attempts'[j] = attempts[j]
                              /\ due'[j] = due[j]
  PROVE  QueueInv'
<1>1. /\ batch' = [batch EXCEPT ![w] = @ \ {i}] /\ cur' = [cur EXCEPT ![w] = None]
      /\ tries' = [tries EXCEPT ![w][i] = 0]
      /\ exposed' = {j \in exposed : \E v \in Drains : j \in batch'[v]}
      /\ spent' = [spent EXCEPT ![w] = IF batch'[w] = {} THEN 0 ELSE @]
      /\ UNCHANGED stage
  BY DEF Settle
<1>2. ASSUME NEW v \in Drains, NEW j \in batch'[v] \ exposed'
      PROVE  j \in batch[v] \ exposed /\ j # i /\ j \in Ids
  <2>1. j \in batch[v] /\ j \in Ids /\ (v = w => j # i) BY <1>1 DEF QueueInv, TypeOK
  <2>2. j \notin exposed BY <1>1
  <2>3. v # w => j # i BY <2>1, <2>2 DEF QueueInv, OneDrainPerJob
  <2> QED BY <2>1, <2>2, <2>3
<1>3. ClaimHolds'
  <2> SUFFICES ASSUME NEW v \in Drains, NEW j \in batch'[v] \ exposed'
               PROVE  /\ status'[j] = "retrying" /\ attempts'[j] = tries'[v][j]
                      /\ due'[j] + spent'[v] >= Visibility
    BY DEF ClaimHolds
  <2>1. j \in batch[v] \ exposed /\ j # i /\ j \in Ids BY <1>2
  <2>2. tries'[v][j] = tries[v][j] BY <1>1, <2>1 DEF QueueInv, TypeOK
  <2>3. spent'[v] = spent[v] BY <1>1 DEF QueueInv, TypeOK
  <2> QED BY <2>1, <2>2, <2>3 DEF QueueInv, ClaimHolds
<1>4. OneDrainPerJob' BY <1>1, <1>2 DEF QueueInv, TypeOK, OneDrainPerJob
<1>5. BatchOfRunning'
  <2>1. \A v \in Drains : batch'[v] # {} => batch[v] # {} BY <1>1 DEF QueueInv, TypeOK
  <2>2. \A v \in Drains \ {w} : batch'[v] = batch[v] /\ cur'[v] = cur[v]
    BY <1>1 DEF QueueInv, TypeOK
  <2>3. cur'[w] = None BY <1>1 DEF QueueInv, TypeOK
  <2> QED BY <1>1, <2>1, <2>2, <2>3 DEF QueueInv, BatchOfRunning
<1>6. LateExposed'
  <2> SUFFICES ASSUME NEW v \in Drains, spent'[v] >= Visibility, NEW j \in batch'[v]
               PROVE  j \in exposed'
    BY DEF LateExposed
  <2>1. j \in batch[v] BY <1>1 DEF QueueInv, TypeOK
  <2>2. spent'[v] = spent[v] BY <1>1 DEF QueueInv, TypeOK
  <2>3. j \in exposed BY <2>1, <2>2 DEF QueueInv, LateExposed
  <2> QED BY <1>1, <2>3
<1> QED BY <1>3, <1>4, <1>5, <1>6 DEF QueueInv

\* A step that leaves the drains' claims alone may change the rows no drain holds.
LEMMA UnheldStep ==
  ASSUME QueueInv, TypeOK', UNCHANGED <<batch, tries, cur, spent, attempts>>,
         \A w \in Drains : stage[w] = "draining" => stage'[w] = "draining" \/ batch[w] = {},
         exposed \subseteq exposed',
         \A i \in Ids \ exposed' : Held(i) => status'[i] = status[i] /\ due'[i] = due[i]
  PROVE  QueueInv'
<1>1. ClaimHolds'
  <2> SUFFICES ASSUME NEW v \in Drains, NEW j \in batch'[v] \ exposed'
               PROVE  /\ status'[j] = "retrying" /\ attempts'[j] = tries'[v][j]
                      /\ due'[j] + spent'[v] >= Visibility
    BY DEF ClaimHolds
  <2>1. j \in batch[v] \ exposed /\ j \in Ids /\ Held(j) BY DEF QueueInv, TypeOK, Held
  <2> QED BY <2>1 DEF QueueInv, ClaimHolds
<1>2. OneDrainPerJob' BY DEF QueueInv, OneDrainPerJob
<1>3. BatchOfRunning' BY DEF QueueInv, BatchOfRunning, TypeOK
<1>4. LateExposed' BY DEF QueueInv, LateExposed
<1> QED BY <1>1, <1>2, <1>3, <1>4 DEF QueueInv

\* A drain that drops its batch, or a process that drops them all, leaves the other
\* claims as they were.
LEMMA DropStep ==
  ASSUME QueueInv, TypeOK', UNCHANGED columns,
         \A w \in Drains : \/ batch'[w] = {} /\ cur'[w] = None
                           \/ /\ batch'[w] = batch[w] /\ cur'[w] = cur[w] /\ spent'[w] = spent[w]
                              /\ tries'[w] = tries[w] /\ stage'[w] = stage[w],
         \A i \in exposed : i \in exposed' \/ \A w \in Drains : i \notin batch'[w]
  PROVE  QueueInv'
<1>1. \A w \in Drains : \A i \in batch'[w] \ exposed' : i \in batch[w] \ exposed
  OBVIOUS
<1>2. ClaimHolds' BY <1>1 DEF QueueInv, ClaimHolds, columns
<1>3. OneDrainPerJob' BY <1>1 DEF QueueInv, OneDrainPerJob
<1>4. BatchOfRunning' BY DEF QueueInv, BatchOfRunning
<1>5. LateExposed' BY DEF QueueInv, LateExposed
<1> QED BY <1>2, <1>3, <1>4, <1>5 DEF QueueInv

\* A tick brings a claimed row nearer by as much as it ages the claim.
LEMMA QueueTickStep ==
  ASSUME QueueInv, TypeOK', Tick
  PROVE  QueueInv'
<1>1. /\ UNCHANGED <<key, status, attempts, stage, batch, tries, cur>>
      /\ exposed' = exposed \cup UNION {batch[w] : w \in {v \in Drains : spent'[v] >= Visibility}}
  BY DEF Tick
<1>0. LateExposed' BY <1>1 DEF LateExposed
<1>2. ClaimHolds'
  <2> SUFFICES ASSUME NEW v \in Drains, NEW j \in batch'[v] \ exposed'
               PROVE  /\ status'[j] = "retrying" /\ attempts'[j] = tries'[v][j]
                      /\ due'[j] + spent'[v] >= Visibility
    BY DEF ClaimHolds
  <2>1. j \in batch[v] \ exposed /\ j \in Ids BY <1>1 DEF QueueInv, TypeOK
  <2>2. /\ status[j] = "retrying" /\ attempts[j] = tries[v][j]
        /\ due[j] + spent[v] >= Visibility
    BY <2>1 DEF QueueInv, ClaimHolds
  <2>3. spent[v] < Deadline /\ spent[v] \in Nat /\ due[j] \in Nat
    BY <2>1, QueueAssumption DEF Tick, QueueInv, TypeOK, MaxDelay
  <2>4. ~(spent[v] >= Visibility) BY <2>1 DEF QueueInv, LateExposed
  <2>6. due[j] > 0 BY <2>2, <2>3, <2>4, QueueAssumption
  <2>5. due'[j] = due[j] - 1 /\ spent'[v] = spent[v] + 1 BY <2>1, <2>6 DEF Tick
  <2> QED BY <1>1, <2>2, <2>3, <2>5, QueueAssumption
<1>3. OneDrainPerJob' /\ BatchOfRunning'
  BY <1>1 DEF QueueInv, OneDrainPerJob, BatchOfRunning
<1> QED BY <1>0, <1>2, <1>3 DEF QueueInv

\* Every step keeps the inductive invariant.
LEMMA NextQueueInv ==
  ASSUME QueueInv, [Next]_vars
  PROVE  QueueInv'
<1>0. TypeOK' BY QueueTypeStep DEF QueueInv
<1>1. ASSUME NEW i \in Ids, NEW k \in Keys, Receive(i, k) PROVE QueueInv'
  <2>1. UNCHANGED <<batch, tries, cur, spent, attempts, stage, exposed, due>>
    BY <1>1 DEF Receive, columns, drain
  <2>2. \A j \in Ids \ exposed : Held(j) => status[j] = "retrying"
    BY DEF Held, QueueInv, ClaimHolds
  <2>3. status[i] = "none" BY <1>1, QueueAssumption DEF Receive, Ids
  <2>4. \A j \in Ids \ {i} : status'[j] = status[j]
    BY <1>1 DEF Receive, columns, QueueInv, TypeOK
  <2>5. \A j \in Ids \ exposed' : Held(j) => status'[j] = status[j] /\ due'[j] = due[j]
    BY <2>1, <2>2, <2>3, <2>4
  <2> QED BY <1>0, <2>1, <2>5, UnheldStep
<1>2. ASSUME NEW w \in Drains, DrainStep(w) PROVE QueueInv'
  <2>1. ASSUME NEW S \in SUBSET Ids, Claim(w, S) PROVE QueueInv'
    BY <1>0, <2>1, ClaimStep
  <2>2. ASSUME NEW i \in Ids, Apply(w, i) PROVE QueueInv'
    <3>1. UNCHANGED <<status, attempts, due, stage, batch, tries, spent, exposed>>
      BY <2>2 DEF Apply, columns
    <3>2. cur' = [cur EXCEPT ![w] = i] /\ i \in batch[w] BY <2>2 DEF Apply
    <3>3. ClaimHolds' /\ OneDrainPerJob' /\ LateExposed'
      BY <3>1 DEF QueueInv, ClaimHolds, OneDrainPerJob, LateExposed
    <3>4. BatchOfRunning' BY <3>1, <3>2 DEF QueueInv, TypeOK, BatchOfRunning
    <3> QED BY <1>0, <3>3, <3>4 DEF QueueInv
  <2>3. ASSUME NEW i \in Ids, AckDone(w, i) PROVE QueueInv'
    <3>1. /\ i \in batch[w] /\ Settle(w, i)
          /\ \A j \in Ids \ {i} : /\ status'[j] = status[j] /\ attempts'[j] = attempts[j]
                                  /\ due'[j] = due[j]
      BY <2>3 DEF AckDone, QueueInv, TypeOK
    <3> QED BY <1>0, <3>1, SettleStep
  <2>4. ASSUME NEW i \in Ids, AckFailed(w, i) PROVE QueueInv'
    <3>1. /\ i \in batch[w] /\ Settle(w, i)
          /\ \A j \in Ids \ {i} : /\ status'[j] = status[j] /\ attempts'[j] = attempts[j]
                                  /\ due'[j] = due[j]
      BY <2>4 DEF AckFailed, QueueInv, TypeOK
    <3> QED BY <1>0, <3>1, SettleStep
  <2>5. CASE EndRounds(w)
    <3>1. /\ UNCHANGED <<batch, tries, cur, spent, attempts, status, due, exposed>>
          /\ batch[w] = {} /\ \A v \in Drains \ {w} : stage'[v] = stage[v]
      BY <2>5 DEF EndRounds, columns, QueueInv, TypeOK
    <3> QED BY <1>0, <3>1, UnheldStep
  <2>6. ASSUME NEW S \in SUBSET Ids, Finish(w, S) PROVE QueueInv'
    <3>1. /\ UNCHANGED <<attempts, due, batch, tries, cur, spent, exposed>> /\ stage[w] = "ending"
          /\ \A v \in Drains \ {w} : stage'[v] = stage[v]
      BY <2>6 DEF Finish, QueueInv, TypeOK
    <3>2. \A i \in Ids : Held(i) => status'[i] = status[i] BY <2>6 DEF Finish, Prune
    <3> QED BY <1>0, <3>1, <3>2, UnheldStep
  <2> QED BY <1>2, <2>1, <2>2, <2>3, <2>4, <2>5, <2>6 DEF DrainStep
<1>3. ASSUME NEW w \in Drains, Abandon(w) PROVE QueueInv'
  <2>1. \A v \in Drains : \/ batch'[v] = {} /\ cur'[v] = None
                          \/ /\ batch'[v] = batch[v] /\ cur'[v] = cur[v] /\ spent'[v] = spent[v]
                             /\ tries'[v] = tries[v] /\ stage'[v] = stage[v]
    BY <1>3 DEF Abandon, QueueInv, TypeOK
  <2>2. \A i \in exposed : i \in exposed' \/ \A v \in Drains : i \notin batch'[v]
    BY <1>3 DEF Abandon
  <2>3. UNCHANGED columns BY <1>3 DEF Abandon
  <2> QED BY <1>0, <2>1, <2>2, <2>3, DropStep
<1>4. ASSUME NEW w \in Drains, CronDrain(w) PROVE QueueInv'
  <2>1. UNCHANGED <<batch, tries, cur, spent, attempts, status, due, exposed>>
    BY <1>4 DEF CronDrain, StartDrain, columns
  <2>2. \A v \in Drains : stage[v] = "draining" => stage'[v] = "draining"
    BY <1>4 DEF CronDrain, StartDrain, QueueInv, TypeOK
  <2> QED BY <1>0, <2>1, <2>2, UnheldStep
<1>5. CASE BgWake BY <1>0, <1>5, UnheldStep DEF BgWake, columns, drain
<1>6. CASE BgTake
  <2>1. UNCHANGED <<batch, tries, cur, spent, attempts, status, due, exposed>>
    BY <1>6 DEF BgTake, StartDrain, columns, drain
  <2>2. \A v \in Drains : stage[v] = "draining" => stage'[v] = "draining"
    BY <1>6, QueueAssumption DEF BgTake, StartDrain, drain, QueueInv, TypeOK
  <2> QED BY <1>0, <2>1, <2>2, UnheldStep
<1>7. CASE Crash
  <2>1. UNCHANGED columns /\ \A v \in Drains : batch'[v] = {} /\ cur'[v] = None
    BY <1>7 DEF Crash
  <2> QED BY <1>0, <2>1, DropStep
<1>8. ASSUME NEW S \in SUBSET Ids, Requeue(S) PROVE QueueInv'
  <2>1. UNCHANGED <<batch, tries, cur, spent, attempts, stage>> BY <1>8 DEF Requeue, drain
  <2>2. exposed' = exposed \cup {i \in S : Held(i)} BY <1>8 DEF Requeue
  <2>3. \A i \in Ids \ S : status'[i] = status[i] /\ due'[i] = due[i] BY <1>8 DEF Requeue
  <2> QED BY <1>0, <2>1, <2>2, <2>3, UnheldStep
<1>9. CASE Tick BY <1>0, <1>9, QueueTickStep
<1>10. CASE UNCHANGED vars
  BY <1>0, <1>10 DEF vars, columns, drain, QueueInv, ClaimHolds, OneDrainPerJob,
                      LateExposed, BatchOfRunning
<1>11. ASSUME NEW s \in {"retrying", "dead_letter"}, RequeueBulk(s) PROVE QueueInv'
  <2>1. {i \in Ids : status[i] = s} \in SUBSET Ids OBVIOUS
  <2> QED BY <1>8, <1>11, <2>1 DEF RequeueBulk
<1>12. ASSUME NEW i \in Ids, RequeueJob(i) PROVE QueueInv'
  BY <1>8, <1>12 DEF RequeueJob
<1> QED BY <1>1, <1>2, <1>3, <1>4, <1>5, <1>6, <1>7, <1>9, <1>10, <1>11, <1>12 DEF Next

\* The types, every claim's hold on its rows within its window, and one drain per row
\* that is not exposed hold throughout, however long the batches take.
THEOREM QueueInvariance == Spec => []QueueInv
<1>1. QueueInv /\ [Next]_vars => QueueInv' BY NextQueueInv
<1> QED BY <1>1, InitQueueInv, PTL DEF Spec

\* No two drains work on one row that the operator left alone and whose window is open.
THEOREM JobsHaveOneDrain == Spec => []OneDrainPerJob
<1>1. QueueInv => OneDrainPerJob BY DEF QueueInv
<1> QED BY <1>1, QueueInvariance, PTL

\* A claimed row stays hidden until its drain settles it, the operator requeues it or
\* its visibility window has run out.
THEOREM ClaimsHold == Spec => []ClaimHolds
<1>1. QueueInv => ClaimHolds BY DEF QueueInv
<1> QED BY <1>1, QueueInvariance, PTL

-----------------------------------------------------------------------------
(***************************************************************************)
(* Proofs about what becomes of the rows of the webhook queue: their       *)
(* lifecycle, what a dead letter has been through, and the signal that     *)
(* starts the background drain.                                            *)
(***************************************************************************)

\* The types hold throughout, however long a drain takes.
THEOREM QueueTypes == Spec => []TypeOK
<1>1. Init => TypeOK BY InitQueueInv DEF QueueInv
<1>2. TypeOK /\ [Next]_vars => TypeOK' BY QueueTypeStep
<1> QED BY <1>1, <1>2, PTL DEF Spec

LEMMA InitOutcome == Init => OutcomeInv
<1> SUFFICES ASSUME Init PROVE OutcomeInv OBVIOUS
<1>1. TypeOK BY InitQueueInv DEF QueueInv
<1>2. TriesBehind BY DEF Init, TriesBehind
<1>3. DeadAreExhausted BY DEF Init, DeadAreExhausted
<1>4. BgWaitsForDrain /\ NoLostWakeup
  BY QueueAssumption DEF Init, BgWaitsForDrain, NoLostWakeup
<1> QED BY <1>1, <1>2, <1>3, <1>4 DEF OutcomeInv

\* No step takes attempts from a row, and a drain learns them by claiming the row.
LEMMA TriesStep ==
  ASSUME TypeOK, TriesBehind, [Next]_vars
  PROVE  TriesBehind'
<1> SUFFICES ASSUME NEW v \in Drains, NEW j \in Ids PROVE tries'[v][j] <= attempts'[j]
  BY DEF TriesBehind
<1>0. tries[v][j] <= attempts[j] /\ tries[v][j] \in Nat /\ attempts[j] \in Nat
  BY DEF TypeOK, TriesBehind
<1>1. CASE UNCHANGED <<tries, attempts>> BY <1>0, <1>1
<1>2. ASSUME NEW w \in Drains, NEW S \in SUBSET Ids, Claim(w, S)
      PROVE  tries'[v][j] <= attempts'[j]
  <2>1. attempts'[j] = IF j \in S THEN attempts[j] + 1 ELSE attempts[j]
    BY <1>2 DEF Claim
  <2>2. v = w => tries'[v][j] = IF j \in S THEN attempts'[j] ELSE 0
    BY <1>2 DEF Claim, TypeOK
  <2>3. v # w => tries'[v][j] = tries[v][j] BY <1>2 DEF Claim, TypeOK
  <2> QED BY <1>0, <2>1, <2>2, <2>3
<1>3. ASSUME NEW w \in Drains, NEW i \in Ids, Settle(w, i), UNCHANGED attempts
      PROVE  tries'[v][j] <= attempts'[j]
  <2>1. tries'[v][j] \in {0, tries[v][j]} BY <1>3 DEF Settle, TypeOK
  <2> QED BY <1>0, <1>3, <2>1
<1>4. ASSUME NEW w \in Drains, Abandon(w) PROVE tries'[v][j] <= attempts'[j]
  <2>1. tries'[v][j] \in {0, tries[v][j]} BY <1>4 DEF Abandon, TypeOK
  <2> QED BY <1>0, <1>4, <2>1 DEF Abandon, columns
<1>5. CASE Crash BY <1>0, <1>5 DEF Crash, columns
<1>6. ASSUME NEW w \in Drains, DrainStep(w) PROVE tries'[v][j] <= attempts'[j]
  BY <1>1, <1>2, <1>3, <1>6 DEF DrainStep, Apply, AckDone, AckFailed, EndRounds, Finish, columns
<1>7. ASSUME NEW S \in SUBSET Ids, Requeue(S) PROVE tries'[v][j] <= attempts'[j]
  BY <1>1, <1>7 DEF Requeue, drain
<1>8. ASSUME NEW s \in {"retrying", "dead_letter"}, RequeueBulk(s)
      PROVE  tries'[v][j] <= attempts'[j]
  <2>1. {i \in Ids : status[i] = s} \in SUBSET Ids OBVIOUS
  <2> QED BY <1>7, <1>8, <2>1 DEF RequeueBulk
<1>9. ASSUME NEW i \in Ids, RequeueJob(i) PROVE tries'[v][j] <= attempts'[j]
  BY <1>7, <1>9 DEF RequeueJob
<1>10. ASSUME NEW i \in Ids, NEW k \in Keys, Receive(i, k) PROVE tries'[v][j] <= attempts'[j]
  BY <1>1, <1>10 DEF Receive, drain, columns
<1>11. ASSUME NEW w \in Drains, CronDrain(w) PROVE tries'[v][j] <= attempts'[j]
  BY <1>1, <1>11 DEF CronDrain, StartDrain, columns
<1>12. CASE BgWake \/ BgTake BY <1>1, <1>12 DEF BgWake, BgTake, StartDrain, columns, drain
<1>13. CASE Tick BY <1>1, <1>13 DEF Tick
<1>14. CASE UNCHANGED vars BY <1>1, <1>14 DEF vars, columns, drain
<1> QED BY <1>4, <1>5, <1>6, <1>8, <1>9, <1>10, <1>11, <1>12, <1>13, <1>14 DEF Next

\* Only mark_webhook_failed makes a dead letter, out of an exhausted claim.
LEMMA DeadStep ==
  ASSUME TypeOK, TriesBehind, TriesBehind', TypeOK', DeadAreExhausted, [Next]_vars
  PROVE  DeadAreExhausted'
<1> SUFFICES ASSUME NEW j \in Ids, status'[j] = "dead_letter" PROVE attempts'[j] >= MaxAttempts
  BY DEF DeadAreExhausted
<1>0. attempts[j] \in Nat /\ attempts'[j] \in Nat /\ MaxAttempts \in Nat
  BY QueueAssumption DEF TypeOK
<1>1. CASE status[j] = "dead_letter" /\ attempts'[j] >= attempts[j]
  BY <1>0, <1>1 DEF DeadAreExhausted
<1>2. ASSUME NEW w \in Drains, NEW i \in Ids, AckFailed(w, i) PROVE attempts'[j] >= MaxAttempts
  <2>1. CASE i = j /\ status[i] # "pruned"
    <3>1. FailedStatus(tries[w][j]) = "dead_letter" BY <1>2, <2>1 DEF AckFailed, TypeOK
    <3>2. tries[w][j] >= MaxAttempts BY <3>1 DEF FailedStatus
    <3>3. tries[w][j] <= attempts[j] /\ tries[w][j] \in Nat BY DEF TypeOK, TriesBehind
    <3> QED BY <1>0, <1>2, <3>2, <3>3 DEF AckFailed
  <2>2. CASE i # j \/ status[i] = "pruned" BY <1>0, <1>1, <1>2, <2>2 DEF AckFailed, TypeOK
  <2> QED BY <2>1, <2>2
<1>3. ASSUME NEW w \in Drains, NEW S \in SUBSET Ids, Claim(w, S)
      PROVE attempts'[j] >= MaxAttempts
  <2>1. status'[j] = status[j] /\ j \notin S BY <1>3 DEF Claim
  <2> QED BY <1>0, <1>1, <1>3, <2>1 DEF Claim
<1>4. ASSUME NEW w \in Drains, NEW S \in SUBSET Ids, Finish(w, S)
      PROVE attempts'[j] >= MaxAttempts
  <2>1. status'[j] = status[j] BY <1>4 DEF Finish, Prune
  <2> QED BY <1>0, <1>1, <1>4, <2>1 DEF Finish
<1>5. ASSUME NEW w \in Drains, NEW i \in Ids, AckDone(w, i) PROVE attempts'[j] >= MaxAttempts
  BY <1>0, <1>1, <1>5 DEF AckDone, TypeOK
<1>6. CASE UNCHANGED <<status, attempts>> BY <1>0, <1>1, <1>6
<1>7. ASSUME NEW w \in Drains, DrainStep(w) PROVE attempts'[j] >= MaxAttempts
  BY <1>2, <1>3, <1>4, <1>5, <1>6, <1>7 DEF DrainStep, Apply, EndRounds, columns
<1>8. ASSUME NEW S \in SUBSET Ids, Requeue(S) PROVE attempts'[j] >= MaxAttempts
  <2>1. status'[j] = status[j] BY <1>8 DEF Requeue
  <2> QED BY <1>0, <1>1, <1>8, <2>1 DEF Requeue
<1>9. ASSUME NEW s \in {"retrying", "dead_letter"}, RequeueBulk(s)
      PROVE  attempts'[j] >= MaxAttempts
  <2>1. {i \in Ids : status[i] = s} \in SUBSET Ids OBVIOUS
  <2> QED BY <1>8, <1>9, <2>1 DEF RequeueBulk
<1>10. ASSUME NEW i \in Ids, RequeueJob(i) PROVE attempts'[j] >= MaxAttempts
  BY <1>8, <1>10 DEF RequeueJob
<1>11. ASSUME NEW i \in Ids, NEW k \in Keys, Receive(i, k) PROVE attempts'[j] >= MaxAttempts
  BY <1>0, <1>1, <1>11 DEF Receive, columns, TypeOK
<1>12. ASSUME NEW w \in Drains, Abandon(w) \/ CronDrain(w) PROVE attempts'[j] >= MaxAttempts
  BY <1>6, <1>12 DEF Abandon, CronDrain, columns
<1>13. CASE BgWake \/ BgTake BY <1>6, <1>13 DEF BgWake, BgTake, columns
<1>14. CASE Crash \/ Tick BY <1>6, <1>14 DEF Crash, Tick, columns
<1>15. CASE UNCHANGED vars BY <1>6, <1>15 DEF vars, columns
<1> QED BY <1>7, <1>9, <1>10, <1>11, <1>12, <1>13, <1>14, <1>15 DEF Next

\* A signal is only taken by the task that drains the source next.
LEMMA WakeStep ==
  ASSUME TypeOK, BgWaitsForDrain, NoLostWakeup, [Next]_vars
  PROVE  BgWaitsForDrain' /\ NoLostWakeup'
<1> USE QueueAssumption DEF TypeOK, BgWaitsForDrain, NoLostWakeup
<1>1. CASE UNCHANGED <<stage, bg, wake, pending>> BY <1>1
<1>2. CASE UNCHANGED <<stage, bg>> /\ wake' = TRUE BY <1>2
<1>3. ASSUME NEW w \in Drains, stage' = [stage EXCEPT ![w] = "off"],
             bg' = IF w = Bg THEN "waiting" ELSE bg, stage[w] # "off",
             UNCHANGED <<wake, pending>>
      PROVE  BgWaitsForDrain' /\ NoLostWakeup'
  BY <1>3
<1>4. ASSUME NEW w \in Drains, DrainStep(w) PROVE BgWaitsForDrain' /\ NoLostWakeup'
  <2>1. ASSUME NEW S \in SUBSET Ids, Claim(w, S) PROVE BgWaitsForDrain' /\ NoLostWakeup'
    BY <1>1, <2>1 DEF Claim, signal
  <2>2. ASSUME NEW i \in Ids, Apply(w, i) \/ AckDone(w, i) \/ AckFailed(w, i)
        PROVE  BgWaitsForDrain' /\ NoLostWakeup'
    BY <1>1, <2>2 DEF Apply, AckDone, AckFailed, Settle, signal
  <2>3. CASE EndRounds(w) BY <2>3 DEF EndRounds, signal
  <2>4. ASSUME NEW S \in SUBSET Ids, Finish(w, S) PROVE BgWaitsForDrain' /\ NoLostWakeup'
    BY <1>3, <2>4 DEF Finish
  <2> QED BY <1>4, <2>1, <2>2, <2>3, <2>4 DEF DrainStep
<1>5. ASSUME NEW w \in Drains, Abandon(w) PROVE BgWaitsForDrain' /\ NoLostWakeup'
  BY <1>3, <1>5 DEF Abandon
<1>6. ASSUME NEW w \in Drains, CronDrain(w) PROVE BgWaitsForDrain' /\ NoLostWakeup'
  BY <1>6 DEF CronDrain, StartDrain, signal
<1>7. CASE BgWake BY <1>7 DEF BgWake, drain
<1>8. CASE BgTake BY <1>8 DEF BgTake, TakeSources, StartDrain, drain
<1>9. CASE Crash BY <1>9 DEF Crash
<1>10. ASSUME NEW S \in SUBSET Ids, Requeue(S) PROVE BgWaitsForDrain' /\ NoLostWakeup'
  BY <1>2, <1>10 DEF Requeue, RequestDrain, drain
<1>11. ASSUME NEW s \in {"retrying", "dead_letter"}, RequeueBulk(s)
       PROVE  BgWaitsForDrain' /\ NoLostWakeup'
  <2>1. {i \in Ids : status[i] = s} \in SUBSET Ids OBVIOUS
  <2> QED BY <1>10, <1>11, <2>1 DEF RequeueBulk
<1>12. ASSUME NEW i \in Ids, RequeueJob(i) PROVE BgWaitsForDrain' /\ NoLostWakeup'
  BY <1>10, <1>12 DEF RequeueJob
<1>13. ASSUME NEW i \in Ids, NEW k \in Keys, Receive(i, k)
       PROVE  BgWaitsForDrain' /\ NoLostWakeup'
  BY <1>2, <1>13 DEF Receive, RequestDrain, drain
<1>14. CASE Tick BY <1>1, <1>14 DEF Tick, signal
<1>15. CASE UNCHANGED vars BY <1>1, <1>15 DEF vars, drain, signal
<1> QED BY <1>4, <1>5, <1>6, <1>7, <1>8, <1>9, <1>11, <1>12, <1>13, <1>14, <1>15 DEF Next

\* What a dead letter went through and the drain's signal hold throughout, without
\* any assumption on how long a batch takes.
THEOREM OutcomeInvariance == Spec => []OutcomeInv
<1>1. OutcomeInv /\ [Next]_vars => OutcomeInv'
  <2> SUFFICES ASSUME OutcomeInv, [Next]_vars PROVE OutcomeInv' OBVIOUS
  <2>1. TypeOK' BY QueueTypeStep DEF OutcomeInv
  <2>2. TriesBehind' BY TriesStep DEF OutcomeInv
  <2>3. DeadAreExhausted' BY <2>1, <2>2, DeadStep DEF OutcomeInv
  <2>4. BgWaitsForDrain' /\ NoLostWakeup' BY WakeStep DEF OutcomeInv
  <2> QED BY <2>1, <2>2, <2>3, <2>4 DEF OutcomeInv
<1> QED BY <1>1, InitOutcome, PTL DEF Spec

\* A dead letter was claimed at least MaxAttempts times.
THEOREM DeadLettersExhausted == Spec => []DeadAreExhausted
<1>1. OutcomeInv => DeadAreExhausted BY DEF OutcomeInv
<1> QED BY <1>1, OutcomeInvariance, PTL

\* The receiver's request to drain is never lost while the process lives.
THEOREM WakeupsKept == Spec => []NoLostWakeup
<1>1. OutcomeInv => NoLostWakeup BY DEF OutcomeInv
<1> QED BY <1>1, OutcomeInvariance, PTL

\* Every step of the queue is a step of a row's life, or none.
LEMMA LifeStep ==
  ASSUME QueueInv, TypeOK', [Next]_vars
  PROVE  [Life!LifeNext]_(Life!lifeVars)
<1>0. SUFFICES ASSUME NEW j \in Ids, status'[j] # status[j]
               PROVE  \/ status'[j] \in Life!Follows(status[j])
                      \/ j \in exposed /\ status[j] # "pruned" /\ status'[j] \in Life!Late
  BY DEF Life!LifeNext, Life!Move, TypeOK, Statuses
<1> DEFINE F == status'[j] \in Life!Follows(status[j])
<1> DEFINE L == j \in exposed /\ status[j] # "pruned" /\ status'[j] \in Life!Late
<1> DEFINE Lives == F \/ L
<1> HIDE DEF F, L
<1>1. F => Lives OBVIOUS
<1>2. L => Lives OBVIOUS
<1> USE DEF F, L, Life!Follows
<1> HIDE DEF Lives
<1>3. ASSUME NEW i \in Ids, NEW k \in Keys, Receive(i, k)
      PROVE  F
  <2>1. status[i] = "none" BY <1>3, QueueAssumption DEF Receive, Ids
  <2>2. j = i /\ status'[i] = "queued" BY <1>0, <1>3 DEF Receive, columns, TypeOK
  <2> QED BY <2>1, <2>2
<1>4. ASSUME NEW w \in Drains, NEW S \in SUBSET Ids, Claim(w, S)
      PROVE  F
  BY <1>0, <1>4 DEF Claim, Claimable, DueJobs, Open
<1>5. ASSUME NEW w \in Drains, NEW i \in Ids, AckDone(w, i) \/ AckFailed(w, i)
      PROVE  Lives
  <2>1. j = i /\ i \in batch[w] BY <1>0, <1>5 DEF AckDone, AckFailed, TypeOK, QueueInv
  <2>2. status[i] # "pruned" BY <1>0, <1>5, <2>1 DEF AckDone, AckFailed, TypeOK, QueueInv
  <2>3. status'[i] \in {"done", "dead_letter", "retrying"}
    BY <1>5, <2>2 DEF AckDone, AckFailed, FailedStatus, TypeOK, QueueInv
  <2>4. CASE i \in exposed BY <1>2, <2>1, <2>2, <2>3, <2>4 DEF Life!Late
  <2>5. CASE i \notin exposed
    <3>1. status[i] = "retrying" BY <2>1, <2>5 DEF QueueInv, ClaimHolds
    <3>2. F BY <2>1, <2>3, <3>1
    <3> HIDE DEF F
    <3> QED BY <1>1, <3>2
  <2> QED BY <2>4, <2>5
<1>6. ASSUME NEW w \in Drains, NEW S \in SUBSET Ids, Finish(w, S)
      PROVE  F
  BY <1>0, <1>6 DEF Finish, Prune
<1>7. ASSUME NEW w \in Drains, DrainStep(w) PROVE Lives
  <2>1. ASSUME NEW i \in Ids, Apply(w, i) PROVE F BY <1>0, <2>1 DEF Apply, columns
  <2>2. CASE EndRounds(w) BY <1>0, <2>2 DEF EndRounds, columns
  <2> HIDE DEF F
  <2> QED BY <1>4, <1>5, <1>6, <1>7, <1>1, <2>1, <2>2 DEF DrainStep
<1>8. ASSUME NEW S \in SUBSET Ids, Requeue(S), \A i \in S : status[i] \in {"dead_letter", "retrying"}
      PROVE  F
  BY <1>0, <1>8 DEF Requeue
<1>9. ASSUME NEW s \in {"retrying", "dead_letter"}, RequeueBulk(s)
      PROVE  F
  <2>1. {i \in Ids : status[i] = s} \in SUBSET Ids OBVIOUS
  <2> QED BY <1>8, <1>9, <2>1 DEF RequeueBulk
<1>10. ASSUME NEW i \in Ids, RequeueJob(i) PROVE F
  BY <1>8, <1>10 DEF RequeueJob
<1>11. ~UNCHANGED status BY <1>0
<1> HIDE DEF F, L, Life!Follows
<1>12. Lives
  BY <1>3, <1>7, <1>9, <1>10, <1>1, <1>11
     DEF Next, Abandon, CronDrain, BgWake, BgTake, Crash, Tick, vars, columns
<1> QED BY <1>12 DEF Lives, F, L

\* The queue implements the documented life of its rows; only to a row that was
\* exposed under a drain may that drain's late acknowledgement do more.
THEOREM QueueFollowsLifecycle == Spec => FollowsLifecycle
<1>1. Init => Life!LifeInit BY DEF Init, Life!LifeInit
<1>2. QueueInv /\ QueueInv' /\ [Next]_vars => [Life!LifeNext]_(Life!lifeVars)
  BY LifeStep DEF QueueInv
<1> QED BY <1>1, <1>2, QueueInvariance, PTL DEF Spec, FollowsLifecycle, Life!LifeSpec
==============================================================================
