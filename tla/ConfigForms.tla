----------------------------- MODULE ConfigForms -----------------------------
(***************************************************************************)
(* The settings forms that hold one record each: data retention            *)
(* (SchedulesPage), MyAnimeList, alerts and logging (the integrations      *)
(* page), of which the model has one open at a time.                       *)
(*                                                                         *)
(* They differ in what they do with the answers of their query: MAL fills  *)
(* its form from the first one, the others from every one; MAL and         *)
(* retention show and send nothing before it, alerts and logging show the  *)
(* defaults of the code and would send them.  A form has fields (`form`,   *)
(* one value for all of them) and one-shot fields (`once`: a new client    *)
(* id, new URLs, a password, "use the environment"), empty again after a   *)
(* save.                                                                   *)
(***************************************************************************)
EXTENDS Naturals

CONSTANTS
  Settings,   \* what the fields of a form may hold
  Unloaded,   \* fields never filled from the server
  Asking, Nothing

ASSUME FormsAssumption == Unloaded \notin Settings \cup {Asking, Nothing}

VARIABLES
  section,  \* "retention", "mal", "alerts" or "logging"
  conf,     \* the server's record
  seen,     \* the query's data, Nothing at first
  confReq,  \* its request: Nothing, Asking, or the record in the answer
  form,     \* the fields
  filled,   \* the fields were filled from the server (MAL: malPopulatedRef)
  once,     \* a one-shot field is filled
  posts     \* saves under way: [value, stage]

formVars == <<section, conf, seen, confReq, form, filled, once, posts>>

Sections == {"retention", "mal", "alerts", "logging"}

\* Shows no fields before the data (MalSection, SchedulesPage's retention).
Guarded == section \in {"retention", "mal"}
HasOnce == section # "retention"

ConfigFormsTypeOK ==
  /\ section \in Sections
  /\ conf \in Settings \cup {Unloaded}
  /\ seen \in Settings \cup {Unloaded, Nothing}
  /\ confReq \in Settings \cup {Unloaded, Nothing, Asking}
  /\ form \in Settings \cup {Unloaded}
  /\ filled \in BOOLEAN /\ once \in BOOLEAN
  /\ posts \in SUBSET [value : Settings \cup {Unloaded, Nothing},
                       stage : {"sent", "refetching"}]

ConfigFormsInit ==
  /\ section \in Sections /\ conf \in Settings
  /\ seen = Nothing /\ confReq = Asking
  /\ form = Unloaded /\ filled = FALSE /\ once = FALSE /\ posts = {}

-----------------------------------------------------------------------------
(* The query, and the effect that fills the form from its data.            *)

ConfAskAgain == IF seen = Nothing /\ confReq # Nothing THEN confReq ELSE Asking

ConfRefetch ==
  /\ confReq' = ConfAskAgain
  /\ UNCHANGED <<section, conf, seen, form, filled, once, posts>>

ConfAnswered ==
  /\ confReq = Asking /\ confReq' = conf
  /\ UNCHANGED <<section, conf, seen, form, filled, once, posts>>

\* The effect runs when the data change; MAL's returns after its first run.
Fill(data) ==
  IF data = seen \/ (section = "mal" /\ filled)
  THEN UNCHANGED <<form, filled>>
  ELSE form' = data /\ filled' = TRUE

ConfLands ==
  /\ confReq \notin {Nothing, Asking}
  /\ seen' = confReq /\ Fill(confReq) /\ confReq' = Nothing
  /\ posts' = {p \in posts : p.stage = "sent"}
  /\ UNCHANGED <<section, conf, once>>

ConfFails ==
  /\ confReq # Nothing /\ confReq' = Nothing
  /\ posts' = {p \in posts : p.stage = "sent"}
  /\ UNCHANGED <<section, conf, seen, form, filled, once>>

ConfElsewhere(v) ==
  /\ conf' = v
  /\ UNCHANGED <<section, seen, confReq, form, filled, once, posts>>

-----------------------------------------------------------------------------
(* The form.                                                               *)

\* A field is changed.  Of an unfilled form the other fields keep the code's
\* defaults.
Type(v) ==
  /\ Guarded => seen # Nothing
  /\ form' = IF filled THEN v ELSE Unloaded
  /\ UNCHANGED <<section, conf, seen, confReq, filled, once, posts>>

TypeOnce ==
  /\ HasOnce /\ once' = ~once
  /\ UNCHANGED <<section, conf, seen, confReq, form, filled, posts>>

\* The early returns of saveRetention and saveMalConfig: nothing to send, or
\* nothing changed.
MaySave ==
  CASE section = "retention" -> filled
    [] section = "mal" -> once \/ (seen # Nothing /\ form # seen)
    [] OTHER -> TRUE

PayloadUnloaded == IF section = "logging" /\ once THEN Nothing ELSE form

\* What is sent: MAL leaves the fields out before the data, logging when it
\* drops its override.
Payload ==
  IF (section = "mal" /\ seen = Nothing) \/ (section = "logging" /\ once)
  THEN Nothing ELSE form

\* One save at a time is a bound of the model: no button is disabled.
Submit ==
  /\ MaySave /\ posts = {}
  /\ posts' = {[value |-> Payload, stage |-> "sent"]}
  /\ UNCHANGED <<section, conf, seen, confReq, form, filled, once>>

\* Stored, or, without an override, whatever the environment says; the handler
\* empties the one-shot fields and refetches.
Stored(p) ==
  /\ p.stage = "sent"
  /\ conf' \in IF p.value # Nothing THEN {p.value}
               ELSE IF section = "logging" THEN Settings ELSE {conf}
  /\ posts' = {[p EXCEPT !.stage = "refetching"]}
  /\ once' = FALSE /\ confReq' = ConfAskAgain
  /\ UNCHANGED <<section, seen, form, filled>>

Refused(p) ==
  /\ p.stage = "sent" /\ posts' = posts \ {p}
  /\ UNCHANGED <<section, conf, seen, confReq, form, filled, once>>

ConfigFormsNext ==
  \/ ConfRefetch \/ ConfAnswered \/ ConfLands \/ ConfFails
  \/ \E v \in Settings : ConfElsewhere(v) \/ Type(v)
  \/ TypeOnce \/ Submit
  \/ \E p \in posts : Stored(p) \/ Refused(p)

ConfigFormsSpec == ConfigFormsInit /\ [][ConfigFormsNext]_formVars

-----------------------------------------------------------------------------
(* Properties.                                                             *)

\* The guarded forms never overwrite the stored record with fields that were
\* not loaded, whenever the save falls (MalSection: "sending them while it's
\* still loading would overwrite the stored settings with these fields' unloaded
\* defaults").
LoadedBeforeStored == Guarded => conf # Unloaded
=============================================================================
