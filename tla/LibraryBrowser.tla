----------------------------- MODULE LibraryBrowser -----------------------------
(***************************************************************************)
(* The library page's controls (LibraryPage): three lists share the        *)
(* filters, and the list of shows opens one show with its episodes, a      *)
(* season filter and a pager of their own.  A link or a saved view sets    *)
(* mode, show and filters at once, from a view of this page, and the       *)
(* search in the header makes such a link from the stored filters.  The    *)
(* rows come from queries keyed by all of this.                            *)
(***************************************************************************)
EXTENDS Integers, SequenceFilter

CONSTANTS
  Shows,
  Seasons,      \* pairs <<show, number>>
  LastPage,     \* bound: pages of a list
  NoShow, AllSeasons

ASSUME LibraryAssumption ==
  /\ Seasons \subseteq Shows \X Nat /\ LastPage \in Nat
  /\ NoShow \notin Shows /\ AllSeasons \notin Nat

VARIABLES
  mode,         \* libraryMode
  searched,     \* a search is typed
  sortBy,
  listPage,     \* libraryFilters.offset, in pages
  shownSeason,  \* libraryFilters.showSeason
  openShow,     \* selectedShow
  episodePage,  \* episodesOffset
  episodeSort,  \* episodeSortBy
  chosen,       \* the show whose episode is picked in the season grid
  comparing,    \* compareMode
  compared,     \* the rows being compared, by show
  drawer        \* the row in the detail sheet, by show

filterVars == <<mode, searched, sortBy, listPage>>
showVars == <<shownSeason, openShow, chosen>>
rowVars == <<comparing, compared, drawer>>
libraryVars == <<filterVars, showVars, episodePage, episodeSort, rowVars>>

Modes == {"drilldown", "all-episodes", "movies"}
\* SORT_OPTIONS, the first of a mode before the others; those omitted here are
\* like one of these.
SortOptions(m) ==
  CASE m = "drilldown" -> <<"title", "season_count">>
    [] m = "all-episodes" -> <<"series_title", "size_bytes">>
    [] m = "movies" -> <<"title", "size_bytes">>
EpisodeSorts == {"season_number", "size_bytes"}
Sorts(m) == {SortOptions(m)[i] : i \in DOMAIN SortOptions(m)}
SeasonNumbers == {s[2] : s \in Seasons}
SeasonsOf(show) == {s[2] : s \in {t \in Seasons : t[1] = show}}

LibraryTypeOK ==
  /\ mode \in Modes /\ sortBy \in UNION {Sorts(m) : m \in Modes}
  /\ searched \in BOOLEAN
  /\ listPage \in 0 .. LastPage /\ episodePage \in 0 .. LastPage
  /\ shownSeason \in SeasonNumbers \cup {AllSeasons}
  /\ {openShow, chosen, drawer} \subseteq Shows \cup {NoShow}
  /\ episodeSort \in EpisodeSorts /\ comparing \in BOOLEAN
  /\ compared \in UNION {[1 .. n -> Shows] : n \in 0 .. 2}

LibraryInit ==
  /\ mode = "drilldown" /\ searched = FALSE /\ sortBy = "title" /\ listPage = 0
  /\ shownSeason = AllSeasons /\ openShow = NoShow
  /\ episodePage = 0 /\ episodeSort = "season_number" /\ chosen = NoShow
  /\ comparing = FALSE /\ compared = <<>> /\ drawer = NoShow

\* The effects of another show or season: the episodes turn back to their first
\* page, the picked episode of another show is dropped.
EpisodesFrom(show, season) ==
  /\ episodePage' = IF show = openShow /\ season = shownSeason THEN episodePage ELSE 0
  /\ chosen' = IF show = openShow THEN chosen ELSE NoShow

-----------------------------------------------------------------------------
(* The filters.                                                            *)

\* A tab: a sort order the new list does not know is replaced.
SwitchMode(m) ==
  /\ m # mode /\ mode' = m
  /\ IF sortBy \in Sorts(m) THEN UNCHANGED <<sortBy, listPage>>
     ELSE sortBy' = SortOptions(m)[1] /\ listPage' = 0
  /\ UNCHANGED <<searched, showVars, episodePage, episodeSort, rowVars>>

SetSearch(typedAny) ==
  /\ searched' = typedAny /\ listPage' = 0
  /\ UNCHANGED <<mode, sortBy, showVars, episodePage, episodeSort, rowVars>>

SortList(s) ==
  /\ s \in Sorts(mode) /\ s # sortBy /\ sortBy' = s /\ listPage' = 0
  /\ UNCHANGED <<mode, searched, showVars, episodePage, episodeSort, rowVars>>

\* Rows per page.
ResizePages ==
  /\ listPage' = 0 /\ episodePage' = 0
  /\ UNCHANGED <<mode, searched, sortBy, showVars, episodeSort, rowVars>>

\* The direction orders the episodes too, and leaves the list's page alone.
SortDirection ==
  /\ episodePage' = 0
  /\ UNCHANGED <<filterVars, showVars, episodeSort, rowVars>>

TurnPage(p) ==
  /\ p # listPage /\ listPage' = p
  /\ UNCHANGED <<mode, searched, sortBy, showVars, episodePage, episodeSort, rowVars>>

-----------------------------------------------------------------------------
(* The list of shows.                                                      *)

ClickShowKeeping(show) ==
  /\ mode = "drilldown"
  /\ openShow' = IF openShow = show THEN NoShow ELSE show
  /\ EpisodesFrom(openShow', shownSeason)
  /\ UNCHANGED <<filterVars, shownSeason, episodeSort, rowVars>>

\* A click on a show opens it and drops the season, a click on the open one
\* closes it and does not.
ClickShow(show) ==
  /\ mode = "drilldown"
  /\ IF openShow = show
     THEN openShow' = NoShow /\ UNCHANGED shownSeason
     ELSE openShow' = show /\ shownSeason' = AllSeasons
  /\ EpisodesFrom(openShow', shownSeason')
  /\ UNCHANGED <<filterVars, episodeSort, rowVars>>

\* The open show lists its own seasons.
PickSeason(n) ==
  /\ mode = "drilldown" /\ openShow # NoShow
  /\ n \in SeasonsOf(openShow) \cup {AllSeasons}
  /\ shownSeason' = n /\ EpisodesFrom(openShow, n)
  /\ UNCHANGED <<filterVars, openShow, episodeSort, rowVars>>

TurnEpisodes(p) ==
  /\ mode = "drilldown" /\ openShow # NoShow
  /\ p # episodePage /\ episodePage' = p
  /\ UNCHANGED <<filterVars, showVars, episodeSort, rowVars>>

\* The episodes have an order of their own, which no address and no store keeps.
SortEpisodes(s) ==
  /\ mode = "drilldown" /\ openShow # NoShow
  /\ s # episodeSort /\ episodeSort' = s /\ episodePage' = 0
  /\ UNCHANGED <<filterVars, showVars, rowVars>>

\* A cell of the season grid.
ChooseEpisode ==
  /\ mode = "drilldown" /\ openShow # NoShow /\ chosen' = openShow
  /\ UNCHANGED <<filterVars, shownSeason, openShow, episodePage, episodeSort, rowVars>>

-----------------------------------------------------------------------------
(* The rows.                                                               *)

\* The rows of the table of episodes, if the mode has one.
InTable(row) == mode = "all-episodes" \/ (mode = "drilldown" /\ row = openShow)

SwitchCompare ==
  /\ comparing' = ~comparing
  /\ UNCHANGED <<filterVars, showVars, episodePage, episodeSort, compared, drawer>>

\* A row of the table, the picked episode or a movie's poster.
OpenDetail(row) ==
  /\ mode = "movies" \/ InTable(row)
  /\ drawer' = row
  /\ UNCHANGED <<filterVars, showVars, episodePage, episodeSort, comparing, compared>>

CloseDetail ==
  /\ drawer # NoShow /\ drawer' = NoShow
  /\ UNCHANGED <<filterVars, showVars, episodePage, episodeSort, comparing, compared>>

\* toggleCompare: the oldest of three goes.  Leaving compare mode keeps the rows.
ToggleCompare(row) ==
  /\ comparing /\ InTable(row)
  /\ compared' = IF \E i \in DOMAIN compared : compared[i] = row
                 THEN Kept(compared, Shows \ {row})
                 ELSE IF Len(compared) >= 2 THEN <<compared[2], row>>
                      ELSE Append(compared, row)
  /\ UNCHANGED <<filterVars, showVars, episodePage, episodeSort, comparing, drawer>>

-----------------------------------------------------------------------------
(* Addresses.                                                              *)

\* The view an address names (serializeLibraryState): a show only among shows.
ShowInUrl(m, show) == IF m = "drilldown" THEN show ELSE NoShow

\* An address of a view of this page is applied: all of it.
ApplyUrl(m, show, season) ==
  /\ season \in SeasonNumbers \cup {AllSeasons}
  /\ ShowInUrl(m, show) # NoShow => season \in SeasonsOf(show) \cup {AllSeasons}
  /\ mode' = m /\ openShow' = ShowInUrl(m, show) /\ shownSeason' = season
  /\ searched' \in BOOLEAN /\ sortBy' \in Sorts(m) /\ listPage' \in 0 .. LastPage
  /\ EpisodesFrom(openShow', season)
  /\ UNCHANGED <<episodeSort, rowVars>>

\* The search in the header (buildLibrarySearchParams).
HeaderSearch ==
  /\ searched' = TRUE /\ listPage' = 0
  /\ openShow' = NoShow /\ shownSeason' = AllSeasons
  /\ EpisodesFrom(NoShow, AllSeasons)
  /\ UNCHANGED <<mode, sortBy, episodeSort, rowVars>>

\* The page's own controls, under the detail sheet while it is open.
LibraryControls ==
  \/ ResizePages \/ SortDirection \/ ChooseEpisode \/ SwitchCompare
  \/ \E m \in Modes : SwitchMode(m)
  \/ \E b \in BOOLEAN : SetSearch(b)
  \/ \E s \in Sorts(mode) : SortList(s)
  \/ \E s \in EpisodeSorts : SortEpisodes(s)
  \/ \E p \in 0 .. LastPage : TurnPage(p) \/ TurnEpisodes(p)
  \/ \E show \in Shows : ClickShow(show) \/ ToggleCompare(show) \/ OpenDetail(show)
  \/ \E n \in SeasonNumbers \cup {AllSeasons} : PickSeason(n)

LibraryNext ==
  \/ drawer = NoShow /\ LibraryControls
  \/ CloseDetail \/ HeaderSearch
  \/ \E m \in Modes, show \in Shows \cup {NoShow}, season \in SeasonNumbers \cup {AllSeasons} :
       ApplyUrl(m, show, season)

LibrarySpec == LibraryInit /\ [][LibraryNext]_libraryVars

-----------------------------------------------------------------------------
(* Properties.                                                             *)

\* The filters fit what they filter: the season of an open show is one of its
\* own, though closing a show, leaving the list of shows and links all leave a
\* season behind (another show's would "silently return zero rows"); no list is
\* sorted by a column it does not have; the picked episode is of the open show.
FiltersFit ==
  /\ openShow # NoShow /\ shownSeason # AllSeasons => shownSeason \in SeasonsOf(openShow)
  /\ sortBy \in Sorts(mode)
  /\ chosen # NoShow => chosen = openShow
=============================================================================
