---------------------------- MODULE CommandPalette ----------------------------
(***************************************************************************)
(* The shell around every page (AppLayout): the navigation, the sheet with *)
(* the sections a phone has no tab for, the header's search box and the    *)
(* command palette.  The effects that follow a change of the palette's     *)
(* query or of its being open run before the next event.                   *)
(***************************************************************************)
EXTENDS Integers, Sequences

CONSTANTS
  Places,     \* the pages' paths
  MorePlaces, \* those the More sheet lists
  LibraryPath, \* the library's path
  Syncs,      \* the palette's commands that queue a sync
  Matching,   \* the commands whose label matches each query, in order
  NoQuery     \* the blank query, which every command matches

ASSUME PaletteAssumption ==
  /\ LibraryPath \in Places /\ MorePlaces \subseteq Places
  /\ NoQuery \in DOMAIN Matching
  /\ \A q \in DOMAIN Matching : Matching[q] \in Seq(Places \cup Syncs)

VARIABLES
  place,      \* location.pathname
  palette,    \* commandPalette: it is open
  query,      \* paletteQuery
  index,      \* paletteIndex: the highlighted match, from 0
  more,       \* moreOpen
  searching   \* the header's search box holds a text

shellVars == <<place, palette, query, index, more, searching>>

LastMatch == Len(Matching[query]) - 1

\* Whatever was typed and pressed, a match is highlighted when there is one; a
\* closed palette has forgotten its query.
ShellTypeOK ==
  /\ place \in Places /\ more \in BOOLEAN /\ searching \in BOOLEAN
  /\ palette \in BOOLEAN /\ query \in DOMAIN Matching
  /\ IF LastMatch = -1 THEN index \in {-1, 0} ELSE index \in 0..LastMatch
  /\ ~palette => query = NoQuery /\ index = 0

ShellInit ==
  /\ place \in Places /\ palette = FALSE /\ query = NoQuery /\ index = 0
  /\ more = FALSE /\ searching = FALSE

\* The effect on commandPalette.
SetOpen(b) ==
  /\ palette' = b
  /\ query' = IF b THEN query ELSE NoQuery
  /\ index' = IF b THEN index ELSE 0

-----------------------------------------------------------------------------
(* Keys that work anywhere.                                                *)

PressK == SetOpen(~palette) /\ UNCHANGED <<place, more, searching>>

\* The palette or the sheet stays open over the page that changes.
PressG ==
  /\ place' = LibraryPath
  /\ UNCHANGED <<palette, query, index, more, searching>>

\* The dialog closes by itself, and the same key reaches the window.
PressEscape ==
  /\ SetOpen(FALSE) /\ more' = FALSE
  /\ UNCHANGED <<place, searching>>

-----------------------------------------------------------------------------
(* The palette.                                                            *)

\* The header's button, or a click beside the open dialog.
ClickPalette ==
  /\ ~palette /\ ~more /\ SetOpen(TRUE)
  /\ UNCHANGED <<place, more, searching>>

ClickBeside == palette /\ SetOpen(FALSE) /\ UNCHANGED <<place, more, searching>>

\* The effect on paletteQuery goes back to the first match.
TypeQuery(q) ==
  /\ palette /\ q # query
  /\ query' = q /\ index' = 0
  /\ UNCHANGED <<place, palette, more, searching>>

ArrowDown ==
  /\ palette /\ index' = (IF index + 1 < LastMatch THEN index + 1 ELSE LastMatch)
  /\ UNCHANGED <<place, palette, query, more, searching>>

ArrowUp ==
  /\ palette /\ index' = (IF index > 0 THEN index - 1 ELSE 0)
  /\ UNCHANGED <<place, palette, query, more, searching>>

HoverCommand(i) ==
  /\ palette /\ i \in 0..LastMatch /\ index' = i
  /\ UNCHANGED <<place, palette, query, more, searching>>

\* runCommand: nothing for a match that is not there.
RunCommand ==
  /\ palette /\ index \in 0..LastMatch
  /\ LET command == Matching[query][index + 1]
     IN place' = IF command \in Syncs THEN place ELSE command
  /\ SetOpen(FALSE)
  /\ UNCHANGED <<more, searching>>

-----------------------------------------------------------------------------
(* The navigation and the header.                                          *)

ClickNav(p) ==
  /\ ~palette /\ ~more /\ place' = p
  /\ UNCHANGED <<palette, query, index, more, searching>>

OpenMore ==
  /\ ~palette /\ ~more /\ more' = TRUE
  /\ UNCHANGED <<place, palette, query, index, searching>>

PickMore(p) ==
  /\ more /\ ~palette /\ p \in MorePlaces
  /\ place' = p /\ more' = FALSE
  /\ UNCHANGED <<palette, query, index, searching>>

CloseMore ==
  /\ more /\ ~palette /\ more' = FALSE
  /\ UNCHANGED <<place, palette, query, index, searching>>

TypeSearch ==
  /\ ~palette /\ ~more /\ searching' \in BOOLEAN
  /\ UNCHANGED <<place, palette, query, index, more>>

\* onHeaderSearch: also with nothing typed.
SubmitSearch ==
  /\ ~palette /\ ~more /\ place' = LibraryPath /\ searching' = FALSE
  /\ UNCHANGED <<palette, query, index, more>>

ShellNext ==
  \/ PressK \/ PressG \/ PressEscape \/ ClickPalette \/ ClickBeside
  \/ \E q \in DOMAIN Matching : TypeQuery(q)
  \/ ArrowDown \/ ArrowUp \/ RunCommand
  \/ \E q \in DOMAIN Matching : \E k \in DOMAIN Matching[q] : HoverCommand(k - 1)
  \/ \E p \in Places : ClickNav(p) \/ PickMore(p)
  \/ OpenMore \/ CloseMore \/ TypeSearch \/ SubmitSearch

ShellSpec == ShellInit /\ [][ShellNext]_shellVars
=============================================================================
