------------------------------- MODULE SetupForm -------------------------------
(***************************************************************************)
(* The form of the setup wizard (SetupPage): fields that start from what   *)
(* the server has, a "skip" box per application, and an optional initial   *)
(* sync of the applications picked on a later step.  SessionGate has the   *)
(* steps and the calls around it.                                          *)
(***************************************************************************)
EXTENDS Naturals

CONSTANTS
  Apps,        \* the applications: their fields are base URLs
  Others,      \* the schedule's fields
  Typed,       \* what the user types
  Given,       \* what the server may have
  Empty,       \* a blank field, and nothing on the server
  NotLoaded    \* no payload yet

ASSUME FormAssumption == Empty \notin Typed /\ Empty \notin Given /\ NotLoaded # Empty

VARIABLES
  payload,     \* setup-status: [field -> value], cached by identity, or NotLoaded
  fields,      \* the form
  skipped,     \* applications whose skip box is ticked
  picked,      \* applications ticked for the initial sync
  syncing,     \* the initial sync is asked for
  configured,  \* what the server stored of this form: applications with a URL
  post         \* the call under way: [kind, ...], or NotLoaded

setupVars == <<payload, fields, skipped, picked, syncing, configured, post>>

Fields == Apps \cup Others
NoPost == [kind |-> "none", urls |-> {}, sources |-> {}]

SetupFormTypeOK ==
  /\ payload \in [Fields -> Given \cup {Empty}] \cup {NotLoaded}
  /\ fields \in [Fields -> Typed \cup Given \cup {Empty}]
  /\ skipped \subseteq Apps /\ picked \subseteq Apps /\ syncing \in BOOLEAN
  /\ configured \subseteq Apps
  /\ post \in [kind : {"none", "wizard", "sync"}, urls : SUBSET Apps, sources : SUBSET Apps]

SetupFormInit ==
  /\ payload = NotLoaded /\ fields = [f \in Fields |-> Empty]
  /\ skipped = {} /\ picked = Apps /\ syncing = FALSE
  /\ configured = {} /\ post = NoPost

\* A payload that differs in anything is a new object, and refills the fields the
\* server has a value for, also those typed in; one that does not is the old
\* object (structural sharing).
PayloadLands(p) ==
  /\ payload' = p
  /\ fields' = IF p = payload THEN fields
               ELSE [f \in Fields |-> IF p[f] = Empty THEN fields[f] ELSE p[f]]
  /\ UNCHANGED <<skipped, picked, syncing, configured, post>>

Idle == payload # NotLoaded /\ post = NoPost

\* The URL is disabled while its application is skipped.
TypeField(f, v) ==
  /\ Idle /\ f \notin skipped
  /\ fields' = [fields EXCEPT ![f] = v]
  /\ UNCHANGED <<payload, skipped, picked, syncing, configured, post>>

Flip(S, a) == IF a \in S THEN S \ {a} ELSE S \cup {a}

SkipApp(a) ==
  /\ Idle /\ skipped' = Flip(skipped, a)
  /\ UNCHANGED <<payload, fields, picked, syncing, configured, post>>

AskSync ==
  /\ Idle /\ syncing' = ~syncing
  /\ UNCHANGED <<payload, fields, skipped, picked, configured, post>>

\* Disabled for a skipped application, whose tick stays.
PickApp(a) ==
  /\ Idle /\ syncing /\ a \notin skipped
  /\ picked' = Flip(picked, a)
  /\ UNCHANGED <<payload, fields, skipped, syncing, configured, post>>

SourcesPicked == IF syncing THEN picked ELSE {}

\* setupSources.
Sources == IF syncing THEN picked \ skipped ELSE {}

\* The review step: submitWizard sends the form as it is now.
SubmitForm ==
  /\ Idle
  /\ post' = [kind |-> "wizard", urls |-> {a \in Apps : fields[a] # Empty} \ skipped,
              sources |-> Sources]
  /\ UNCHANGED <<payload, fields, skipped, picked, syncing, configured>>

\* The whole call is one transaction, refused when an application that is not
\* skipped has no URL.
FormStored ==
  /\ post.kind = "wizard" /\ Apps \ skipped \subseteq post.urls
  /\ configured' = configured \cup post.urls
  /\ post' = IF post.sources = {} THEN NoPost ELSE [post EXCEPT !.kind = "sync"]
  /\ UNCHANGED <<payload, fields, skipped, picked, syncing>>

\* catch: the form is open again.
PostFails ==
  /\ post # NoPost /\ post' = NoPost
  /\ UNCHANGED <<payload, fields, skipped, picked, syncing, configured>>

\* POST /api/setup/initial-sync.
SyncStarted ==
  /\ post.kind = "sync" /\ post' = NoPost
  /\ UNCHANGED <<payload, fields, skipped, picked, syncing, configured>>

SetupFormNext ==
  \/ \E p \in [Fields -> Given \cup {Empty}] : PayloadLands(p)
  \/ \E f \in Fields, v \in Typed \cup {Empty} : TypeField(f, v)
  \/ \E a \in Apps : SkipApp(a) \/ PickApp(a)
  \/ AskSync \/ SubmitForm \/ FormStored \/ PostFails \/ SyncStarted

SetupFormSpec == SetupFormInit /\ [][SetupFormNext]_setupVars

-----------------------------------------------------------------------------
(* Properties.                                                             *)

\* The initial sync starts only applications the wizard has just stored,
\* whatever boxes were ticked, skipped and ticked again before.
SyncsWhatItStored == post.kind = "sync" => post.sources \subseteq configured
=============================================================================
