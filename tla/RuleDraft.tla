------------------------------- MODULE RuleDraft -------------------------------
(***************************************************************************)
(* A rule being edited (AutomationEditor) and the sentence the editor      *)
(* leads with (automationSummary): which items it says the rule acts on,   *)
(* against the items the run selects (automation_rules).  A filter is one  *)
(* of the scope's (monitored, anime, folder, genre, tag); a requirement is *)
(* there or not, and a file meets it or not; the episodes of a show are    *)
(* the aired ones its rule counts.                                         *)
(***************************************************************************)
EXTENDS SequenceFilter

CONSTANTS
  Narrowings,      \* scope filters that any item may pass
  SeriesStatuses,  \* statuses of a show
  Ended            \* the status the templates ask for

ASSUME StatusAssumption == Ended \in SeriesStatuses

VARIABLE params    \* the draft's rule

ruleVars == <<params>>

Searches == {"search_missing", "search_upgrade"}
Types == Searches \cup {"tag", "set_monitored"}
Whens == {"non_conforming", "conforming"}

Act(type, when) == [type |-> type, when |-> when]
Falls(type) == Act(type, "non_conforming")
Meets(type) == Act(type, "conforming")

RuleDraftTypeOK ==
  /\ params \in [media : {"movies", "series", "both"}, filters : SUBSET Narrowings,
                 statuses : SUBSET SeriesStatuses, strict : BOOLEAN, gate : BOOLEAN,
                 fresh : BOOLEAN, actions : Seq([type : Types, when : Whens])]
  /\ params.media = "movies" => params.statuses = {}

Rule(media, statuses, strict, options, actions) ==
  [media |-> media, filters |-> Narrowings, statuses |-> statuses, strict |-> strict,
   gate |-> options # {}, fresh |-> options = {"gate", "fresh"}, actions |-> actions]

\* TEMPLATES, and a stored rule with a tag for each sense.
Starts ==
  {Rule("both", {}, TRUE, opts, <<Falls("search_missing"), Falls("search_upgrade")>>) :
     opts \in {{"gate"}, {"gate", "fresh"}}}
  \cup {Rule("both", {}, one[1], {}, <<Falls(one[2])>>) :
     one \in {<<TRUE, "search_upgrade">>, <<FALSE, "search_missing">>,
                           <<TRUE, "tag">>, <<TRUE, "search_missing">>}}
  \cup {Rule("series", {Ended}, TRUE, {}, <<Meets("tag")>>),
        Rule("series", {Ended}, TRUE, {}, <<Meets("tag"), Meets("set_monitored")>>),
        Rule("series", {}, TRUE, {}, <<Falls("tag")>>),
        Rule("series", {Ended}, FALSE, {}, <<Falls("tag")>>),
        Rule("movies", {}, TRUE, {}, <<Meets("tag"), Meets("set_monitored")>>),
        Rule("series", {}, TRUE, {}, <<Meets("tag"), Falls("tag")>>)}

RuleDraftInit == params \in Starts

-----------------------------------------------------------------------------
(* The editor's controls.                                                  *)

\* A movie has no series status: the filter goes with the media it belongs to.
SetMedia(m) ==
  /\ m # params.media
  /\ params' = [params EXCEPT !.media = m,
                              !.statuses = IF m = "movies" THEN {} ELSE @]

SetFilter(fs) == fs # params.filters /\ params' = [params EXCEPT !.filters = fs]

SetStatuses(ss) ==
  /\ params.media # "movies" /\ ss # params.statuses
  /\ params' = [params EXCEPT !.statuses = ss]

SetRequirement(b) == b # params.strict /\ params' = [params EXCEPT !.strict = b]

Has(type) == \E k \in DOMAIN params.actions : params.actions[k].type = type

\* toggleAction: off removes every action of the type, on appends one.
ToggleAction(type, when) ==
  params' = [params EXCEPT !.actions =
    IF Has(type) THEN Kept(@, [type : Types \ {type}, when : Whens])
                 ELSE Append(@, Act(type, when))]

\* patchAction: the select beside the tag is bound to the first one.
PatchTag(when) ==
  /\ Has("tag")
  /\ LET First == CHOOSE k \in DOMAIN params.actions :
                    /\ params.actions[k].type = "tag"
                    /\ \A j \in 1..(k - 1) : params.actions[j].type # "tag"
     IN /\ params.actions[First].when # when
        /\ params' = [params EXCEPT !.actions[First].when = when]

SetGate(b) == b # params.gate /\ params' = [params EXCEPT !.gate = b]

\* Acting on a new dub asks for the gate, which stays when it is taken back.
SetFresh(b) ==
  /\ b # params.fresh
  /\ params' = [params EXCEPT !.fresh = b, !.gate = b \/ @]

RuleDraftNext ==
  \/ \E m \in {"movies", "series", "both"} : SetMedia(m)
  \/ \E fs \in SUBSET Narrowings : SetFilter(fs)
  \/ \E ss \in SUBSET SeriesStatuses : SetStatuses(ss)
  \/ \E b \in BOOLEAN : SetRequirement(b) \/ SetGate(b) \/ SetFresh(b)
  \/ \E type \in Searches \cup {"tag"} : ToggleAction(type, "non_conforming")
  \/ ToggleAction("set_monitored", "conforming")
  \/ \E when \in Whens : PatchTag(when)

RuleDraftSpec == RuleDraftInit /\ [][RuleDraftNext]_ruleVars

-----------------------------------------------------------------------------
(* The library: a movie and its file, or a show and its episodes' files.   *)

Files == {"missing", "below", "good"}
Items(kind, statuses, files) ==
  [kind : {kind}, has : SUBSET Narrowings, status : statuses,
   dub : {"none", "known", "new"}, files : files]
Library ==
  Items("movies", {"none"}, {{f} : f \in Files})
    \cup Items("series", SeriesStatuses, (SUBSET Files) \ {{}})

Fine(f) == f = "good" \/ (f = "below" /\ ~params.strict)
AllFine(i) == \A f \in i.files : Fine(f)

-----------------------------------------------------------------------------
(* What the sentence says.                                                 *)

\* describeScope: the filters and the statuses qualify whatever media it names.
LooksAt(i) ==
  /\ params.media \in {"both", i.kind}
  /\ params.filters \subseteq i.has
  /\ params.statuses = {} \/ i.status \in params.statuses

\* describeAction: what the phrase can be about.
Concerns(type, i) ==
  CASE type = "search_missing" -> "missing" \in i.files
    [] type = "search_upgrade" -> "below" \in i.files /\ ~Fine("below")
    [] OTHER -> TRUE

ConditionOfFile(when, i) ==
  IF when = "non_conforming" THEN ~AllFine(i) ELSE \E f \in i.files : Fine(f)

\* summarizeAutomation: what falls short, and where "it" is fine; of a rule for
\* series alone the condition is about every episode, otherwise about the file.
Condition(when, i) ==
  IF when = "non_conforming" THEN ~AllFine(i)
  ELSE IF params.media = "series" THEN AllFine(i) ELSE \E f \in i.files : Fine(f)

Says(a, i) == LooksAt(i) /\ Condition(a.when, i) /\ Concerns(a.type, i)

-----------------------------------------------------------------------------
(* What the run does.                                                      *)

\* RuleParams and RuleAction: the rules that are stored.
Valid ==
  /\ params.actions # <<>>
  /\ Has("search_upgrade") => params.strict
  /\ params.fresh => params.gate
  /\ params.media = "movies" => params.statuses = {}
  /\ \A k \in DOMAIN params.actions :
       params.actions[k].type \in Searches => params.actions[k].when = "non_conforming"

\* The statuses select shows; the gate joins the dub list.
Selects(i) ==
  /\ params.media \in {"both", i.kind}
  /\ params.filters \subseteq i.has
  /\ i.kind = "series" /\ params.statuses # {} => i.status \in params.statuses
  /\ params.gate => i.dub # "none"

\* A search goes to what has no file or a file below the bar, for new dubs only
\* if the rule says so; the others act on all that fall short, or on movies and
\* whole shows that do not.
Does(a, i) ==
  /\ Selects(i)
  /\ CASE a.type = "search_missing" -> "missing" \in i.files
       [] a.type = "search_upgrade" -> \E f \in i.files \ {"missing"} : ~Fine(f)
       [] OTHER -> AllFine(i) <=> (a.when = "conforming")
  /\ a.type \in Searches /\ params.fresh => i.dub = "new"

-----------------------------------------------------------------------------
(* Properties.                                                             *)

Acts == {params.actions[k] : k \in DOMAIN params.actions}

\* For a rule about one kind of media, without the dub options, the sentence
\* names exactly the items each action is applied to: the browser's phrasing and
\* the server's selection are written apart and must agree.
SentenceFits ==
  Valid /\ params.media # "both" /\ ~params.gate =>
    \A a \in Acts, i \in Library : Says(a, i) <=> Does(a, i)
=============================================================================
