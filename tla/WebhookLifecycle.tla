-------------------------- MODULE WebhookLifecycle ---------------------------
(***************************************************************************)
(* What the webhook queue promises of the events it accepted: the life     *)
(* of a queue row, without drains, claims or clocks.  A row is             *)
(* tried until it is done or a dead letter; done is the end of it; a dead  *)
(* letter comes back only when the operator says so.                       *)
(***************************************************************************)
CONSTANT Ids     \* the rows of app.webhook_queue

VARIABLES
  state,         \* the status of each row
  exposed        \* rows open to others while a drain was still on them

lifeVars == <<state, exposed>>

LifeInit == state = [i \in Ids |-> "none"] /\ exposed = {}

\* From each status, the statuses one step may lead to.
Follows(s) ==
  CASE s = "none"        -> {"queued"}
    [] s = "queued"      -> {"retrying"}
    [] s = "retrying"    -> {"retrying", "done", "dead_letter", "queued"}
    [] s = "dead_letter" -> {"queued", "pruned"}
    [] s = "done"        -> {"pruned"}
    [] s = "pruned"      -> {}

\* What the drain that lost its claim may still make of the row, whatever became of
\* the row since.
Late == {"retrying", "done", "dead_letter"}

\* Any rows move on together.
Move ==
  \A i \in Ids : state'[i] # state[i] =>
    state'[i] \in Follows(state[i]) \/ (i \in exposed /\ state[i] # "pruned" /\ state'[i] \in Late)

LifeNext ==
  /\ state' \in [Ids -> {"none", "queued", "retrying", "done", "dead_letter", "pruned"}]
  /\ Move
  /\ exposed' \in SUBSET Ids

LifeSpec == LifeInit /\ [][LifeNext]_lifeVars
==============================================================================
