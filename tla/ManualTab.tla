------------------------------- MODULE ManualTab -------------------------------
(***************************************************************************)
(* "Run by hand" on the sync page (SyncQueuePage, useSyncActions) and the  *)
(* dialog that asks before what cannot be undone (ConfirmDialog).  The     *)
(* dialog holds the request with its callback, which closes over the page  *)
(* as it was when it asked; it lies over the page while it is open, and    *)
(* forgets what was typed when it has closed.                              *)
(***************************************************************************)
EXTENDS FiniteSets, Naturals

CONSTANTS
  MaxRunning,  \* bound: actions under way at a time
  NoQuestion

VARIABLES
  ticked,    \* the ticked boxes of "Stuck state"
  request,   \* the open question: [kind, boxes], or NoQuestion
  typed,     \* the phrase in the dialog
  entered,   \* ghost: what was typed since this question opened
  running,   \* the actions under way: [kind, clears]
  policy,    \* the queue policy's draft: "", or typed values
  error      \* lastError is set

manualVars == <<ticked, request, typed, entered, running, policy, error>>

\* Kinds of actions that differ in what they ask and do to this state; the
\* others are like one of these.
Boxes == {"all_locks", "mal_lock", "warehouse_locks", "fail_runs"}
Plain == {"full_sync"}
Phrase == [reset_mal |-> "RESET_MAL", reset |-> "RESET", clear_stuck |-> "CLEAR_STUCK"]
Questions == Plain \cup DOMAIN Phrase
Direct == {"sync"}
Written == {"", "typed"}

ManualTypeOK ==
  /\ ticked \subseteq Boxes
  /\ request \in [kind : Questions, boxes : SUBSET Boxes] \cup {NoQuestion}
  /\ {typed, entered} \subseteq {"", "RESET_MAL", "RESET", "CLEAR_STUCK"}
  /\ running \in SUBSET [kind : Questions \cup Direct \cup {"save_policy"}, clears : SUBSET Boxes]
  /\ policy \in Written
  /\ error \in BOOLEAN

ManualInit ==
  /\ ticked = {"mal_lock"} /\ request = NoQuestion /\ typed = "" /\ entered = ""
  /\ running = {} /\ policy = "" /\ error = FALSE

\* The locks and rows that clear_stuck names: all locks, or those ticked.
Clears(boxes) ==
  IF "all_locks" \in boxes THEN boxes \ {"mal_lock", "warehouse_locks"} ELSE boxes

\* runAction: the call is under way.
Launch(kind, clears) ==
  /\ Cardinality(running) < MaxRunning
  /\ running' = running \cup {[kind |-> kind, clears |-> clears]}

-----------------------------------------------------------------------------
(* The page.                                                               *)

TickBehind(box) ==
  /\ "all_locks" \in ticked => box \notin {"mal_lock", "warehouse_locks"}
  /\ ticked' = IF box \in ticked THEN ticked \ {box} ELSE ticked \cup {box}
  /\ UNCHANGED <<request, typed, entered, running, policy, error>>

\* A box is ticked; two of them are disabled while all locks are to go.
Tick(box) ==
  /\ request = NoQuestion
  /\ "all_locks" \in ticked => box \notin {"mal_lock", "warehouse_locks"}
  /\ ticked' = IF box \in ticked THEN ticked \ {box} ELSE ticked \cup {box}
  /\ UNCHANGED <<request, typed, entered, running, policy, error>>

\* Actions that do not ask.
RunDirect(kind) ==
  /\ request = NoQuestion /\ Launch(kind, {})
  /\ UNCHANGED <<ticked, request, typed, entered, policy, error>>

Ask(kind) ==
  /\ request = NoQuestion
  /\ request' = [kind |-> kind, boxes |-> ticked] /\ entered' = ""
  /\ UNCHANGED <<ticked, typed, running, policy, error>>

WritePolicy(v) ==
  /\ request = NoQuestion /\ policy' = v
  /\ UNCHANGED <<ticked, request, typed, entered, running, error>>

SavePolicy ==
  /\ request = NoQuestion /\ policy # "" /\ Launch("save_policy", {})
  /\ UNCHANGED <<ticked, request, typed, entered, policy, error>>

-----------------------------------------------------------------------------
(* The dialog.                                                             *)

Typing(p) ==
  /\ request # NoQuestion /\ request.kind \in DOMAIN Phrase
  /\ typed' = p /\ entered' = p
  /\ UNCHANGED <<ticked, request, running, policy, error>>

PhraseOk == request.kind \in DOMAIN Phrase => typed = Phrase[request.kind]

CloseDialogFilled == request' = NoQuestion /\ UNCHANGED typed

\* onClose, and the effect on the request's end.
CloseDialog == request' = NoQuestion /\ typed' = ""

Confirm ==
  /\ request # NoQuestion /\ PhraseOk
  /\ Launch(request.kind, IF request.kind = "clear_stuck" THEN Clears(request.boxes) ELSE {})
  /\ CloseDialog
  /\ UNCHANGED <<ticked, entered, policy, error>>

Dismiss ==
  /\ request # NoQuestion /\ CloseDialog
  /\ UNCHANGED <<ticked, entered, running, policy, error>>

-----------------------------------------------------------------------------
(* runAction's end: any success clears the error; a saved policy empties   *)
(* its draft, a failed one keeps it.                                       *)

ActionEnds(a) ==
  /\ running' = running \ {a}
  /\ \/ error' = FALSE /\ policy' = IF a.kind = "save_policy" THEN "" ELSE policy
     \/ error' = TRUE /\ UNCHANGED policy
  /\ UNCHANGED <<ticked, request, typed, entered>>

ManualNext ==
  \/ \E box \in Boxes : Tick(box)
  \/ \E kind \in Direct : RunDirect(kind)
  \/ \E kind \in Questions : Ask(kind)
  \/ \E v \in Written : WritePolicy(v)
  \/ SavePolicy
  \/ \E kind \in DOMAIN Phrase : Typing(Phrase[kind])
  \/ Confirm \/ Dismiss
  \/ \E a \in running : ActionEnds(a)

ManualSpec == ManualInit /\ [][ManualNext]_manualVars

-----------------------------------------------------------------------------
(* Properties.                                                             *)

Started == running' \ running

\* A reset and a clearing run only when their own phrase was typed into the
\* question that asked for them, whatever was typed into the questions before.
EachResetIsTyped ==
  [][\A a \in Started : a.kind \in DOMAIN Phrase => entered = Phrase[a.kind]]_manualVars

\* The clearing does what the page shows as ticked when it starts, though its
\* callback was made before: no lock goes that is not ticked, and with all locks
\* ticked the boxes that are then disabled count for nothing.
ClearsWhatIsTicked ==
  [][\A a \in Started : a.kind = "clear_stuck" => a.clears = Clears(ticked)]_manualVars
=============================================================================
