------------------------------ MODULE SyncTurns ------------------------------
(***************************************************************************)
(* What the job lock of one sync lane ("sonarr:full", "radarr:incremental" *)
(* and so on) promises to the rest of the program: runs of the lane take   *)
(* turns.  Once an operator deletes the lock row under a live run the      *)
(* promise is loose, until a turn ends with nobody inside.                 *)
(***************************************************************************)
CONSTANT Runs   \* the invocations of run_sync on this lane

VARIABLES
  turn,         \* the runs inside the lane
  loose         \* the lock row was deleted under a live run

turnVars == <<turn, loose>>

TurnInit == turn = {} /\ loose = FALSE

\* A run enters an empty lane, or any lane whose lock was deleted under its holder.
Enter(r) ==
  /\ turn = {} \/ loose
  /\ turn' = turn \cup {r}
  /\ UNCHANGED loose

\* Runs leave on their own, or all at once when the process dies.
Leave ==
  /\ turn' \in SUBSET turn
  /\ UNCHANGED loose

\* The operator's clear reaches a lane somebody is inside.
Loosen ==
  /\ turn # {}
  /\ loose' = TRUE
  /\ UNCHANGED turn

\* A new process starts with nobody inside.
Tighten ==
  /\ turn = {}
  /\ loose' = FALSE
  /\ UNCHANGED turn

TurnNext == (\E r \in Runs : Enter(r)) \/ Leave \/ Loosen \/ Tighten

TurnSpec == TurnInit /\ [][TurnNext]_turnVars
==============================================================================
