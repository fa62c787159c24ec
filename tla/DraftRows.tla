------------------------------ MODULE DraftRows ------------------------------
(***************************************************************************)
(* The tables of editable rows: the schedules (SchedulesPage) and the      *)
(* Sonarr/Radarr integrations (ArrIntegrationsSection), both kept by       *)
(* useDraftSync.  The list of rows is refetched at any time, a save is     *)
(* followed by a refetch of its own, and several saves may be under way:   *)
(* nothing disables the Save button meanwhile.                             *)
(*                                                                         *)
(* A save is asynchronous and its handler goes on where it was left: the   *)
(* request, the refetch it awaits, the refetches that runAction awaits,    *)
(* then resetDraft.  A value stands for all the fields of a row.           *)
(***************************************************************************)
EXTENDS Naturals

CONSTANTS
  Rows,     \* the keys of the table
  Values,   \* what a row's fields may hold
  Saves,    \* bound: saves under way at a time
  NoList, Asked, None

Table == [Rows -> Values]
Stages == {"sent", "refetching", "settling"}
Posts == [row : Rows, value : Values, stage : Stages]

ASSUME DraftAssumption ==
  {NoList, Asked, None} \cap Table = {} /\ None \notin Rows \cup Posts

VARIABLES
  stored,   \* the server's rows
  listed,   \* the query's data, NoList at first
  listReq,  \* its request: None, Asked, or the list in the answer
  draft,    \* drafts
  dirty,    \* dirtyKeys
  editing,  \* the row whose form is open, or None
  save      \* the saves: [row, value, stage], or None

draftVars == <<stored, listed, listReq, draft, dirty, editing, save>>

DraftRowsTypeOK ==
  /\ stored \in Table
  /\ listed \in Table \cup {NoList}
  /\ listReq \in Table \cup {None, Asked}
  /\ draft \in Table \cup {NoList}
  /\ dirty \in SUBSET Rows
  /\ editing \in Rows \cup {None}
  /\ save \in [Saves -> Posts \cup {None}]

\* The page opens without data, and its query asks at once.
DraftRowsInit ==
  /\ stored \in Table
  /\ listed = NoList /\ listReq = Asked
  /\ draft = NoList /\ dirty = {} /\ editing = None
  /\ save = [s \in Saves |-> None]

\* The query's states: how a save's own refetch ends for those who await it.
Settled(saves) ==
  [s \in Saves |-> IF saves[s] # None /\ saves[s].stage = "refetching"
                   THEN [saves[s] EXCEPT !.stage = "settling"]
                   ELSE saves[s]]

MergeAll(list) == list

\* The merge effect of useDraftSync: the server's value for every row but the
\* dirty ones.
Merge(list) == [r \in Rows |-> IF r \in dirty /\ draft # NoList THEN draft[r] ELSE list[r]]

-----------------------------------------------------------------------------
(* The query.                                                              *)

\* Somebody else, or the program itself, changes a row.
Elsewhere(r, v) ==
  /\ stored' = [stored EXCEPT ![r] = v]
  /\ UNCHANGED <<listed, listReq, draft, dirty, editing, save>>

\* What is asked for is dropped and asked for again, once there are data.
AskAgain == IF listed = NoList /\ listReq # None THEN listReq ELSE Asked

\* An event, a poll or the Retry button; whoever awaited the request goes on.
Refetch ==
  /\ listReq' = AskAgain /\ save' = Settled(save)
  /\ UNCHANGED <<stored, listed, draft, dirty, editing>>

ListAnswered ==
  /\ listReq = Asked /\ listReq' = stored
  /\ UNCHANGED <<stored, listed, draft, dirty, editing, save>>

ListLands ==
  /\ listReq \notin {None, Asked}
  /\ listed' = listReq /\ draft' = Merge(listReq)
  /\ listReq' = None /\ save' = Settled(save)
  /\ UNCHANGED <<stored, dirty, editing>>

\* The request and its retry failed: the data stay.
ListFails ==
  /\ listReq # None /\ listReq' = None
  /\ save' = Settled(save)
  /\ UNCHANGED <<stored, listed, draft, dirty, editing>>

-----------------------------------------------------------------------------
(* The rows.                                                               *)

ToggleEdit(r) ==
  /\ listed # NoList
  /\ editing' = IF editing = r THEN None ELSE r
  /\ UNCHANGED <<stored, listed, listReq, draft, dirty, save>>

\* setDraft: a field of the open row is typed.
Edit(v) ==
  /\ editing \in Rows /\ v # draft[editing]
  /\ draft' = [draft EXCEPT ![editing] = v]
  /\ dirty' = dirty \cup {editing}
  /\ UNCHANGED <<stored, listed, listReq, editing, save>>

\* saveSchedule, saveIntegration: what the row shows is sent.
SaveRow(s) ==
  /\ editing \in Rows /\ save[s] = None
  /\ save' = [save EXCEPT ![s] = [row |-> editing, value |-> draft[editing], stage |-> "sent"]]
  /\ UNCHANGED <<stored, listed, listReq, draft, dirty, editing>>

\* The server has stored it; the handler invalidates the list and awaits it.
SaveStored(s) ==
  /\ save[s] # None /\ save[s].stage = "sent"
  /\ stored' = [stored EXCEPT ![save[s].row] = save[s].value]
  /\ listReq' = AskAgain
  /\ save' = [Settled(save) EXCEPT ![s].stage = "refetching"]
  /\ UNCHANGED <<listed, draft, dirty, editing>>

\* runAction reports the error; the row stays as it is typed.
SaveRefused(s) ==
  /\ save[s] # None /\ save[s].stage = "sent"
  /\ save' = [save EXCEPT ![s] = None]
  /\ UNCHANGED <<stored, listed, listReq, draft, dirty, editing>>

ResetDraftUnread(s) ==
  /\ save[s] # None /\ save[s].stage = "settling"
  /\ dirty' = dirty \ {save[s].row}
  /\ save' = [save EXCEPT ![s] = None]
  /\ UNCHANGED <<stored, listed, listReq, draft, editing>>

\* runAction has returned true: resetDraft, with the list of the last render.
ResetDraft(s) ==
  /\ save[s] # None /\ save[s].stage = "settling"
  /\ dirty' = dirty \ {save[s].row}
  /\ draft' = [draft EXCEPT ![save[s].row] = listed[save[s].row]]
  /\ save' = [save EXCEPT ![s] = None]
  /\ UNCHANGED <<stored, listed, listReq, editing>>

DraftRowsNext ==
  \/ \E r \in Rows, v \in Values : Elsewhere(r, v)
  \/ Refetch \/ ListAnswered \/ ListLands \/ ListFails
  \/ \E r \in Rows : ToggleEdit(r)
  \/ \E v \in Values : Edit(v)
  \/ \E s \in Saves : SaveRow(s) \/ SaveStored(s) \/ SaveRefused(s) \/ ResetDraft(s)

DraftRowsSpec == DraftRowsInit /\ [][DraftRowsNext]_draftVars

-----------------------------------------------------------------------------
(* Properties.                                                             *)

\* A row without unsaved edits shows the list, however its last save, the
\* refetches and the saves of other rows were interleaved (useDraftSync: "the
\* draft to the current server value (as of the latest render)").
RowsShowList ==
  listed # NoList => \A r \in Rows \ dirty : draft[r] = listed[r]

\* Only its own form and its own save touch a row with unsaved edits: "this is
\* what lets saving row A avoid clobbering row B's in-progress edits".
OthersKeep ==
  [][\A r \in dirty :
       \/ r \in dirty' /\ (draft'[r] = draft[r] \/ editing = r)
       \/ \E s \in Saves : save[s] # None /\ save[s].row = r /\ save'[s] = None]_draftVars
=============================================================================
