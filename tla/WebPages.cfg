\* Each page in a tab of its own, with small tables, forms and lists.
SPECIFICATION WebSpec
CONSTANTS
  Rows = {r1, r2}
  Values = {v1, v2}
  Saves = {save1}
  NoList = NoList
  Asked = Asked
  None = None
  Settings = {c1, c2}
  Unloaded = Unloaded
  Asking = Asking
  Nothing = Nothing
  Texts = {blank, good, bad}
  Bad = {bad}
  Blank = blank
  Rules = {rule1, rule2}
  New = New
  Nowhere = Nowhere
  Names = {n1}
  MaxSending = 2
  NoViews = NoViews
  ViewsAsked = ViewsAsked
  NoRequest = NoRequest
  Statuses = {all, dead}
  PageSize = 2
  MaxJobs = 4
  MaxClicks = 2
  MaxShrinks = 1
  NoPage = NoPage
  MaxRunning = 1
  NoQuestion = NoQuestion
  Views = {plain, viewA, viewB}
  Default = plain
  Bare = Bare
  Sentinel = Sentinel
  NoAddress = NoAddress
  s1 = s1
  s2 = s2
  Shows = {s1, s2}
  Seasons <- MCSeasons
  LastPage = 1
  NoShow = NoShow
  AllSeasons = AllSeasons
  Dashboards = {d1, d2}
  Panels = {p1, p2}
  Wide = {w1, w2}
  Filters = {nofilter, f1}
  NoFilter = nofilter
  TableSize = 1
  MaxRows = 2
  MaxVisits = 2
  Sizes = {b1, b2}
  Unset = Unset
  MaxArtChanges = 2
  MaxArtFails = 1
  NotRead = NotRead
  AskedArt = AskedArt
  NoArt = NoArt
  Narrowings = {filter}
  SeriesStatuses = {ended, continuing}
  Ended = ended
  Apps = {sonarr, radarr}
  Others = {cron}
  Typed = {u1}
  Given = {u2}
  Empty = Empty
  NotLoaded = NotLoaded
  home = home
  books = books
  logs = logs
  sync = sync
  every = every
  some = some
  none = none
  Places = {home, books, logs}
  MorePlaces = {logs}
  LibraryPath = books
  Syncs = {sync}
  Matching <- MCMatching
  NoQuery = every
  MaxLines = 4
  Height = 2
  Near = 1
  Words = {word1, word2}
  NoWord = NoWord
  MaxChips = 2
  MaxTokens = 2
  AuthCalls = {call1, call2}
  NoCall = NoCall
INVARIANTS
  WebTypeOK
  RowsShowList
  LoadedBeforeStored
  SettledVerdict
  VerdictOfThisRule
  SettlesOnServer
  FiltersFit
  PagesOfTheseRows
  OnePipelineAtATime
  SentenceFits
  SyncsWhatItStored
  SectionLeavesAccess
PROPERTIES
  OthersKeep
  ReaderStaysPut
  EachResetIsTyped
  ClearsWhatIsTicked
  OwnWritesNeverRevert
  QueueNeverStuckEmpty
  ArtworkSettles
CHECK_DEADLOCK FALSE
