------------------------------ MODULE LiveCheck ------------------------------
(***************************************************************************)
(* Validation as you type: the cron field of a schedule (CronPreview) and  *)
(* the rule editor (AutomationEditor).  The text is debounced, each        *)
(* debounced text is sent to the server, and the effect's cleanup cancels  *)
(* the request before: its answer still comes, in any order, and is        *)
(* ignored.  `valid` is the parent's copy of the verdict (SchedulesPage's  *)
(* cronValidity, AutomationsPage's valid), which disables its Save button  *)
(* and outlives the field.                                                 *)
(***************************************************************************)
EXTENDS Naturals

CONSTANTS
  Texts,   \* what may be typed
  Bad,     \* what the server calls invalid
  Blank    \* the empty field, which is not sent

ASSUME TextsAssumption == Bad \subseteq Texts /\ Blank \in Texts \ Bad

VARIABLES
  mounted,  \* the field is on the page
  text,     \* its content
  due,      \* the debounced content
  flights,  \* requests under way: [about, live], not live once cancelled
  verdict,  \* what is shown: "good", "bad" or "unknown"
  valid     \* the parent's copy

checkVars == <<mounted, text, due, flights, verdict, valid>>

Judge(t) == IF t \in Bad THEN "bad" ELSE "good"

LiveCheckTypeOK ==
  /\ mounted \in BOOLEAN /\ text \in Texts /\ due \in Texts
  /\ flights \in SUBSET [about : Texts, live : BOOLEAN]
  /\ verdict \in {"good", "bad", "unknown"} /\ valid \in BOOLEAN

LiveCheckInit ==
  /\ mounted = FALSE /\ text = Blank /\ due = Blank
  /\ flights = {} /\ verdict = "unknown" /\ valid = TRUE

Cancelled == {[f EXCEPT !.live = FALSE] : f \in flights}

\* The effect for debounced text t: no request for an empty field.
Check(t) ==
  IF t = Blank
  THEN flights' = Cancelled /\ verdict' = "unknown" /\ valid' = TRUE
  ELSE /\ flights' = Cancelled \cup {[about |-> t, live |-> TRUE]}
       /\ verdict' = "unknown" /\ UNCHANGED valid

\* The field appears with text t: the first debounced value is the text.
Mount(t) ==
  /\ mounted' = TRUE /\ text' = t /\ due' = t /\ Check(t)

Unmount ==
  /\ mounted' = FALSE /\ flights' = Cancelled
  /\ UNCHANGED <<text, due, verdict, valid>>

OpenField(t) == ~mounted /\ Mount(t)
CloseField == mounted /\ Unmount

TypeText(t) ==
  /\ mounted /\ t # text /\ text' = t
  /\ UNCHANGED <<mounted, due, flights, verdict, valid>>

\* The timer of the last change goes off.
Debounce ==
  /\ mounted /\ due # text
  /\ due' = text /\ Check(text)
  /\ UNCHANGED <<mounted, text>>

HearAny(f, says) ==
  /\ flights' = flights \ {f}
  /\ verdict' = says /\ valid' = (says # "bad")
  /\ UNCHANGED <<mounted, text, due>>

\* An answer, or the failure to get one, which blocks nothing.
Hear(f, says) ==
  /\ flights' = flights \ {f}
  /\ IF f.live THEN verdict' = says /\ valid' = (says # "bad")
               ELSE UNCHANGED <<verdict, valid>>
  /\ UNCHANGED <<mounted, text, due>>

Answered(f) == Hear(f, Judge(f.about))
Lost(f) == Hear(f, "unknown")

LiveCheckNext ==
  \/ \E t \in Texts : OpenField(t) \/ TypeText(t)
  \/ CloseField \/ Debounce
  \/ \E f \in flights : Answered(f) \/ Lost(f)

LiveCheckSpec == LiveCheckInit /\ [][LiveCheckNext]_checkVars

-----------------------------------------------------------------------------
(* Properties.                                                             *)

\* Once the field has settled, the verdict is about the text it holds, in
\* whatever order the answers came, and Save is not disabled for a good text: a
\* transport failure may leave the verdict unknown, an older answer may not judge.
SettledVerdict ==
  mounted /\ due = text /\ (\A f \in flights : ~f.live) =>
    /\ verdict \in {Judge(text), "unknown"}
    /\ ~valid => text \in Bad
=============================================================================
