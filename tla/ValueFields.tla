------------------------------ MODULE ValueFields ------------------------------
(***************************************************************************)
(* The two controls for a list of values: TokenField, where values are     *)
(* typed and become chips (the rule editor's genres, tags and languages),  *)
(* and MultiSelectFilter, a menu of the values the rows of a report        *)
(* column have.  A click elsewhere first blurs the field.                  *)
(***************************************************************************)
EXTENDS SequencesExt, SequenceFilter

CONSTANTS
  Words,     \* values
  NoWord,    \* nothing typed
  MaxChips   \* bound: chips

ASSUME ValueFieldsAssumption == NoWord \notin Words /\ MaxChips \in Nat

VARIABLES
  chips,     \* TokenField values
  entry,     \* what is typed and not yet a chip
  focused,   \* the caret is in the field
  offered,   \* the values of the rows, as the menu gets them
  selected,    \* the values the column is filtered by
  menu,      \* open
  needle     \* what is searched in the menu

valueVars == <<chips, entry, focused, offered, selected, menu, needle>>
tokenVars == <<chips, entry, focused>>
menuVars == <<offered, selected, menu, needle>>

\* What is typed is in a focused field, a search in an open menu.
ValueTypeOK ==
  /\ chips \in Seq(Words) /\ Len(chips) <= MaxChips
  /\ entry \in Words \cup {NoWord} /\ focused \in BOOLEAN
  /\ offered \subseteq Words /\ selected \subseteq Words
  /\ menu \in BOOLEAN /\ needle \in Words \cup {NoWord}
  /\ focused \/ entry = NoWord
  /\ menu \/ needle = NoWord

ValueInit ==
  /\ chips = <<>> /\ entry = NoWord /\ focused = FALSE
  /\ offered = Words /\ selected = {} /\ menu = FALSE /\ needle = NoWord

-----------------------------------------------------------------------------
(* TokenField.                                                             *)

\* commit: what is no chip yet, of the words the text has between its commas.
Commit(text) ==
  LET additions == Kept(text, Words \ ToSet(chips))
  IN  /\ Len(chips) + Len(additions) <= MaxChips
      /\ chips' = chips \o additions
      /\ entry' = NoWord

FocusField ==
  /\ ~focused /\ focused' = TRUE
  /\ UNCHANGED <<chips, entry, menuVars>>

TypeWord(w) ==
  /\ focused /\ entry' = w
  /\ UNCHANGED <<chips, focused, menuVars>>

\* A comma is typed, or a list is pasted.
TypeComma(text) ==
  /\ focused /\ Commit(text)
  /\ UNCHANGED <<focused, menuVars>>

PressEnter ==
  /\ focused /\ Commit(<<entry>>)
  /\ UNCHANGED <<focused, menuVars>>

Without(w) == chips' = Kept(chips, Words \ {w})

PressBackspace ==
  /\ focused /\ entry = NoWord /\ chips # <<>>
  /\ Without(Last(chips))
  /\ UNCHANGED <<entry, focused, menuVars>>

BlurField ==
  /\ focused /\ focused' = FALSE
  /\ Commit(<<entry>>)
  /\ UNCHANGED menuVars

RemoveChip(w) ==
  /\ ~focused /\ w \in ToSet(chips)
  /\ Without(w)
  /\ UNCHANGED <<entry, focused, menuVars>>

-----------------------------------------------------------------------------
(* MultiSelectFilter.                                                      *)

\* The rows change: what is selected stays selected, offered or not.
OfferValues(S) ==
  /\ offered' = S
  /\ UNCHANGED <<tokenVars, selected, menu, needle>>

SetMenu(open) ==
  /\ menu' = open
  /\ needle' = IF open THEN needle ELSE NoWord
  /\ UNCHANGED <<tokenVars, offered, selected>>

SearchMenu(w) ==
  /\ menu /\ needle' = w
  /\ UNCHANGED <<tokenVars, offered, selected, menu>>

Listed == IF needle = NoWord THEN offered ELSE offered \cap {needle}

TogglePick(w) ==
  /\ menu /\ w \in Listed
  /\ selected' = IF w \in selected THEN selected \ {w} ELSE selected \cup {w}
  /\ UNCHANGED <<tokenVars, offered, menu, needle>>

ClearPicks ==
  /\ menu /\ selected # {} /\ selected' = {}
  /\ UNCHANGED <<tokenVars, offered, menu, needle>>

ValueNext ==
  \/ FocusField \/ PressEnter \/ PressBackspace \/ BlurField \/ ClearPicks
  \/ \E w \in Words : RemoveChip(w) \/ TogglePick(w)
  \/ \E w \in Words \cup {NoWord} : TypeWord(w) \/ SearchMenu(w)
  \/ \E v, w \in Words \cup {NoWord} : TypeComma(<<v, w>>)
  \/ \E S \in SUBSET Words : OfferValues(S)
  \/ \E open \in BOOLEAN : SetMenu(open)

ValueSpec == ValueInit /\ [][ValueNext]_valueVars
=============================================================================
