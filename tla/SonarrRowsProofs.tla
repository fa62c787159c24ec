--------------------------- MODULE SonarrRowsProofs ---------------------------
(***************************************************************************)
(* Proofs about the rows of the warehouse, for any library and any number  *)
(* of passes, drains, changes and faults: their types, that the rows of a  *)
(* series nothing happened to stay live, and what the passes repair while  *)
(* the library rests.                                                      *)
(***************************************************************************)
EXTENDS SonarrWatermarkProofs

(* Types.                                                                  *)

FullStates == [at : {"off", "syncing", "tombstones"}, todo : SUBSET Series,
               chunk : Fetched, seen : Fetched]
IncStates == [at : IncStages, list : SUBSET Series, todo : SUBSET Series, latest : Times, chunk : Fetched]

\* A drain that has a state has a job.
HookStates ==
  {h \in [at : {"off", "taken", "fetched"}, job : Jobs \cup {<<>>}, chunk : Fetched] :
     h.at # "off" => h.job \in Jobs}

LibraryTyped ==
  /\ library \in [Series -> {"new", "in", "gone"}]
  /\ disk \in [Episodes -> 0 .. MaxFile] /\ made \in [Episodes -> 0 .. MaxFile]
  /\ clock \in Times /\ last \in [Series -> Times] /\ mark \in Times
  /\ mail \subseteq Jobs
  /\ touched \subseteq Series /\ owed \subseteq Series /\ blind \subseteq Series
  /\ changes \in 0 .. MaxChanges /\ clock <= changes + 1

RowsTyped == series \subseteq Series /\ episodes \subseteq Episodes /\ files \subseteq Files

PassesTyped ==
  /\ full \in [Lanes -> FullStates] /\ inc \in IncStates /\ hook \in [Drains -> HookStates]
  /\ stopping \in BOOLEAN /\ faults \in 0 .. MaxFaults

\* TypeOK, and that times are bounded because changes are.
Typed == LibraryTyped /\ RowsTyped /\ PassesTyped

LEMMA OffTypes ==
  /\ Nothing \in Fetched
  /\ FullOff \in FullStates /\ IncOff \in IncStates /\ HookOff \in HookStates
<1>1. Nothing \in Fetched BY DEF Nothing, Fetched
<1>2. 0 \in Times BY WarehouseAssumption DEF Times
<1> QED BY <1>1, <1>2 DEF FullOff, FullStates, IncOff, IncStates, IncStages, HookOff, HookStates

LEMMA InitTyped == Init => Typed
<1> SUFFICES ASSUME Init PROVE Typed OBVIOUS
<1>1. 0 \in Times /\ 1 \in Times /\ 0 \in 0 .. MaxFile /\ 1 \in 0 .. MaxFile
  BY WarehouseAssumption DEF Times
<1>2. library \in [Series -> {"new", "in", "gone"}] BY DEF Init
<1>3. disk \in [Episodes -> 0 .. MaxFile] /\ made \in [Episodes -> 0 .. MaxFile]
  BY <1>1 DEF Init
<1>4. clock \in Times /\ last \in [Series -> Times] /\ mark \in Times BY <1>1 DEF Init
<1>5. series \subseteq Series /\ episodes \subseteq Episodes /\ files \subseteq Files
  BY DEF Init, InSonarr, EpisodesOf, OnDisk
<1>6. full \in [Lanes -> FullStates] /\ inc \in IncStates /\ hook \in [Drains -> HookStates]
  BY OffTypes DEF Init
<1>7. changes \in 0 .. MaxChanges /\ faults \in 0 .. MaxFaults /\ clock <= changes + 1
  BY WarehouseAssumption DEF Init
<1> QED BY <1>2, <1>3, <1>4, <1>5, <1>6, <1>7
        DEF Init, Typed, LibraryTyped, RowsTyped, PassesTyped

LEMMA FaultTyped == Fault /\ faults \in 0 .. MaxFaults => faults' \in 0 .. MaxFaults
BY WarehouseAssumption DEF Fault

LEMMA ChangeTyped ==
  ASSUME Typed, NEW s \in Series, NEW J \in SUBSET Jobs, Change(s, J)
  PROVE  /\ clock' \in Times /\ changes' \in 0 .. MaxChanges /\ clock' <= changes' + 1
         /\ touched' \subseteq Series /\ mail' \subseteq Jobs
         /\ RowsTyped' /\ PassesTyped' /\ mark' = mark
<1>1. clock' \in Times /\ changes' \in 0 .. MaxChanges /\ clock' <= changes' + 1
  BY WarehouseAssumption DEF Typed, LibraryTyped, Change, Times
<1>2. RowsTyped' /\ PassesTyped' /\ mark' = mark
  BY DEF Typed, Change, RowsTyped, PassesTyped, rows, passes
<1> QED BY <1>1, <1>2 DEF Typed, LibraryTyped, Change

\* A change of the library.
LEMMA SonarrTyped ==
  ASSUME Typed, SonarrStep
  PROVE  Typed'
<1> USE DEF Typed, LibraryTyped
<1>0. LibraryTyped OBVIOUS
<1>1. ASSUME NEW s \in Series, AddSeries(s) PROVE Typed'
  <2>1. {<<"refresh", s>>} \in SUBSET Jobs BY DEF Jobs
  <2>2. Change(s, {<<"refresh", s>>}) BY <1>1 DEF AddSeries
  <2> QED BY <1>0, <1>1, <2>1, <2>2, ChangeTyped DEF AddSeries
<1>2. ASSUME NEW s \in Series, DeleteSeries(s) PROVE Typed'
  <2>1. {<<"series_delete", s>>} \in SUBSET Jobs BY DEF Jobs
  <2>2. Change(s, {<<"series_delete", s>>}) BY <1>2 DEF DeleteSeries
  <2>3. disk' \in [Episodes -> 0 .. MaxFile] BY <1>0, <1>2, WarehouseAssumption DEF DeleteSeries
  <2>4. last' \in [Series -> Times]
    BY <1>0, <1>2, OffTypes DEF DeleteSeries, IncOff, IncStates
  <2> QED BY <1>0, <1>2, <2>1, <2>2, <2>3, <2>4, ChangeTyped DEF DeleteSeries
<1>3. ASSUME NEW e \in Episodes, Import(e) PROVE Typed'
  <2>0. SeriesOf[e] \in Series BY WarehouseAssumption
  <2>1. {<<"refresh", SeriesOf[e]>>} \in SUBSET Jobs BY <2>0 DEF Jobs
  <2>2. Change(SeriesOf[e], {<<"refresh", SeriesOf[e]>>}) /\ Recorded(SeriesOf[e])
    BY <1>3 DEF Import
  <2>3. made' \in [Episodes -> 0 .. MaxFile] /\ made'[e] \in 0 .. MaxFile
    BY <1>0, <1>3, WarehouseAssumption DEF Import
  <2>4. disk' \in [Episodes -> 0 .. MaxFile] /\ library' = library
    BY <1>0, <1>3, <2>3 DEF Import
  <2>5. clock' \in Times BY <2>0, <2>1, <2>2, ChangeTyped
  <2>6. last' \in [Series -> Times] /\ owed' \subseteq Series /\ blind' \subseteq Series
    BY <1>0, <2>0, <2>2, <2>5 DEF Recorded
  <2> QED BY <1>0, <2>0, <2>1, <2>2, <2>3, <2>4, <2>6, ChangeTyped
<1>4. ASSUME NEW e \in Episodes, RemoveFile(e) PROVE Typed'
  <2>0. SeriesOf[e] \in Series BY WarehouseAssumption
  <2>1. {<<"file_delete", e>>} \in SUBSET Jobs BY DEF Jobs
  <2>2. Change(SeriesOf[e], {<<"file_delete", e>>}) /\ Recorded(SeriesOf[e])
    BY <1>4 DEF RemoveFile
  <2>3. 0 \in 0 .. MaxFile BY WarehouseAssumption
  <2>4. disk' \in [Episodes -> 0 .. MaxFile] /\ library' = library /\ made' = made
    BY <1>0, <1>4, <2>3 DEF RemoveFile
  <2>5. clock' \in Times BY <2>0, <2>1, <2>2, ChangeTyped
  <2>6. last' \in [Series -> Times] /\ owed' \subseteq Series /\ blind' \subseteq Series
    BY <1>0, <2>0, <2>2, <2>5 DEF Recorded
  <2> QED BY <1>0, <2>0, <2>1, <2>2, <2>4, <2>6, ChangeTyped
<1> QED BY <1>1, <1>2, <1>3, <1>4 DEF SonarrStep

\* What a pass or a job leaves alone.
LEMMA LibraryKept ==
  ASSUME Typed, UNCHANGED <<sonarr, mark, touched, changes>>, owed' \subseteq owed,
         blind' \subseteq Series, mail' \subseteq mail
  PROVE  LibraryTyped'
BY DEF Typed, LibraryTyped, sonarr

LEMMA ListTyped ==
  ASSUME NEW s, NEW c, ListEpisodes(s, c), faults \in 0 .. MaxFaults
  PROVE  faults' \in 0 .. MaxFaults
BY FaultTyped DEF ListEpisodes

LEMMA InSonarrTyped == InSonarr \in SUBSET Series /\ {} \in SUBSET Series
BY DEF InSonarr

LEMMA WriteTyped == \A c \in Fetched : RowsTyped /\ WriteChunk(c) => RowsTyped'
BY DEF RowsTyped, WriteChunk, Fetched

LEMMA FullTyped ==
  ASSUME Typed, NEW l \in Lanes, FullStep(l) \/ FullFails(l)
  PROVE  Typed'
<1>0. LibraryTyped /\ RowsTyped /\ PassesTyped /\ full[l] \in FullStates
  BY DEF Typed, PassesTyped
<1>1. LibraryTyped'
  BY <1>0, LibraryKept DEF LibraryTyped, FullStep, FullList, FullFetch, FullWrite, FullLoopEnds,
     FullTombstones, FullFails, bounds, history
<1>2. ASSUME NEW p \in FullStates, full' = [full EXCEPT ![l] = p],
             UNCHANGED <<inc, hook, stopping>>, faults' \in 0 .. MaxFaults
      PROVE  PassesTyped'
  BY <1>0, <1>2 DEF PassesTyped
<1>3. CASE FullList(l)
  <2>1. PICK L \in {InSonarr, {}} :
          /\ IF L = InSonarr THEN UNCHANGED faults ELSE Fault
          /\ full' = [full EXCEPT ![l] = [FullOff EXCEPT !.at = "syncing", !.todo = L]]
    BY <1>3 DEF FullList
  <2>2. [FullOff EXCEPT !.at = "syncing", !.todo = L] \in FullStates
    BY OffTypes, InSonarrTyped DEF FullOff, FullStates
  <2>3. faults' \in 0 .. MaxFaults BY <1>0, <2>1, FaultTyped DEF PassesTyped
  <2>4. UNCHANGED <<rows, inc, hook, stopping>> BY <1>3 DEF FullList
  <2> QED BY <1>0, <1>1, <1>2, <2>1, <2>2, <2>3, <2>4 DEF Typed, RowsTyped, rows
<1>4. ASSUME NEW s \in Series, FullFetch(l, s) PROVE Typed'
  <2>1. PICK c \in Answers(s) : ListEpisodes(s, c) /\ full' = [full EXCEPT ![l].chunk = c]
    BY <1>4 DEF FullFetch
  <2>2. [full[l] EXCEPT !.chunk = c] \in FullStates
    BY <1>0, AnswersFetched DEF FullStates
  <2>3. full' = [full EXCEPT ![l] = [full[l] EXCEPT !.chunk = c]]
    BY <2>1, <1>0 DEF PassesTyped
  <2>4. UNCHANGED <<rows, inc, hook, stopping>> BY <1>4 DEF FullFetch
  <2>5. faults' \in 0 .. MaxFaults BY <1>0, <2>1, ListTyped DEF PassesTyped
  <2> QED BY <1>0, <1>1, <1>2, <2>2, <2>3, <2>4, <2>5 DEF Typed, RowsTyped, rows
<1>5. CASE FullWrite(l)
  <2> DEFINE c == full[l].chunk
             d == full[l].seen
             seen2 == [of |-> d.of \cup c.of, episodes |-> d.episodes \cup c.episodes,
                       files |-> d.files \cup c.files]
             p == [full[l] EXCEPT !.chunk = Nothing, !.todo = @ \ c.of, !.seen = seen2]
  <2>1. c \in Fetched /\ d \in Fetched BY <1>0 DEF FullStates
  <2>2. seen2 \in Fetched BY <2>1 DEF Fetched
  <2>3. p \in FullStates BY <1>0, <2>2, OffTypes DEF FullStates
  <2>4. full' = [full EXCEPT ![l] = p] BY <1>0, <1>5 DEF FullWrite, PassesTyped
  <2>5. WriteChunk(c) /\ UNCHANGED <<inc, hook, stopping, faults>> BY <1>5 DEF FullWrite, bounds
  <2>6. RowsTyped' BY <1>0, <2>1, <2>5, WriteTyped
  <2>7. PassesTyped' BY <1>0, <1>2, <2>3, <2>4, <2>5 DEF PassesTyped
  <2> QED BY <1>1, <2>6, <2>7 DEF Typed
<1>6. CASE FullLoopEnds(l)
  <2> DEFINE p == IF Complete THEN [full[l] EXCEPT !.at = "tombstones"] ELSE FullOff
  <2>1. p \in FullStates BY <1>0, OffTypes DEF FullStates
  <2>2. full' = [full EXCEPT ![l] = p] BY <1>0, <1>6 DEF FullLoopEnds, PassesTyped
  <2>3. UNCHANGED <<rows, inc, hook, stopping, faults>> BY <1>6 DEF FullLoopEnds, bounds
  <2> QED BY <1>0, <1>1, <1>2, <2>1, <2>2, <2>3 DEF Typed, RowsTyped, rows, PassesTyped
<1>7. CASE FullTombstones(l)
  <2>1. full' = [full EXCEPT ![l] = FullOff] /\ UNCHANGED <<inc, hook, stopping, faults>>
    BY <1>7 DEF FullTombstones, bounds
  <2>2. RowsTyped' BY <1>0, <1>7 DEF FullTombstones, Tombstone, RowsTyped, rows
  <2>3. PassesTyped' BY <1>0, <1>2, <2>1, OffTypes DEF PassesTyped
  <2> QED BY <1>1, <2>2, <2>3 DEF Typed
<1>8. CASE FullFails(l)
  <2>1. /\ full' = [full EXCEPT ![l] = FullOff] /\ UNCHANGED <<rows, inc, hook, stopping>>
        /\ faults' \in 0 .. MaxFaults
    BY <1>0, <1>8, FaultTyped DEF FullFails, PassesTyped
  <2> QED BY <1>0, <1>1, <1>2, <2>1, OffTypes DEF Typed, RowsTyped, rows
<1> QED BY <1>3, <1>4, <1>5, <1>6, <1>7, <1>8 DEF FullStep

LEMMA HistorySinceTyped == \A m \in Times : HistorySince(m) \in SUBSET Series
BY DEF HistorySince

\* The incremental pass; each step gives it a state of its type.
LEMMA IncTyped ==
  ASSUME Typed, IncStep \/ IncFails
  PROVE  Typed'
<1>0. LibraryTyped /\ RowsTyped /\ PassesTyped /\ inc \in IncStates /\ inc.chunk \in Fetched
  BY DEF Typed, PassesTyped, IncStates
<1> USE <1>0
<1>1. UNCHANGED <<sonarr, mail, full, hook, stopping, touched, changes>>
  BY DEF IncStep, IncFails, ScopeList, ScopeWrite, HistoryFetch, IncAsk, IncFetch, IncWrite,
         IncReconcile, IncEnds, bounds, history
<1>2. owed' \subseteq owed /\ blind' \subseteq Series
  <2>1. CASE IncFetch
    <3>1. PICK s \in inc.chunk.of : \E c \in Answers(s) :
            blind' = IF c = Whole(s) THEN blind ELSE blind \cup {s}
      BY <2>1 DEF IncFetch
    <3>2. s \in Series BY <3>1 DEF Fetched
    <3> QED BY <2>1, <3>1, <3>2 DEF IncFetch, LibraryTyped
  <2>2. CASE ~IncFetch
    BY <2>2 DEF LibraryTyped, IncStep, IncFails, ScopeList, ScopeWrite, HistoryFetch, IncAsk,
       IncWrite, IncReconcile, IncEnds, history
  <2> QED BY <2>1, <2>2
<1>3. ASSUME mark' \in Times, RowsTyped', inc' \in IncStates, faults' \in 0 .. MaxFaults
      PROVE  Typed'
  BY <1>1, <1>2, <1>3 DEF Typed, LibraryTyped, PassesTyped, sonarr
<1>4. mark \in Times /\ faults \in 0 .. MaxFaults BY DEF LibraryTyped, PassesTyped
<1>5. CASE ScopeList
  <2>1. PICK L \in {InSonarr, {}} :
          /\ IF L = InSonarr THEN UNCHANGED faults ELSE Fault
          /\ inc' = [IncOff EXCEPT !.at = "listed", !.list = L]
    BY <1>5 DEF ScopeList
  <2>2. inc' \in IncStates BY <2>1, OffTypes, InSonarrTyped DEF IncOff, IncStates, IncStages
  <2>3. faults' \in 0 .. MaxFaults BY <1>4, <2>1, FaultTyped
  <2> QED BY <1>3, <1>4, <1>5, <2>2, <2>3 DEF ScopeList, RowsTyped, rows
<1>6. CASE ScopeWrite
  <2>1. inc' \in IncStates BY <1>6, OffTypes DEF ScopeWrite, IncOff, IncStates, IncStages
  <2>2. RowsTyped' BY <1>6 DEF ScopeWrite, RowsTyped, IncStates
  <2> QED BY <1>3, <1>4, <1>6, <2>1, <2>2 DEF ScopeWrite, bounds
<1>7. CASE HistoryFetch
  <2>1. PICK latest \in {0} \cup {last[s] : s \in HistorySince(mark)} :
          inc' = [IncOff EXCEPT !.at = "ingesting",
                                !.todo = IF mark = 0 THEN {} ELSE HistorySince(mark),
                                !.latest = latest]
    BY <1>7 DEF HistoryFetch
  <2>2. HistorySince(mark) \in SUBSET Series BY <1>4, HistorySinceTyped
  <2>3. latest \in Times BY <2>1, <2>2, OffTypes DEF LibraryTyped, IncOff, IncStates
  <2>4. inc' \in IncStates BY <2>1, <2>2, <2>3, OffTypes DEF IncOff, IncStates, IncStages
  <2> QED BY <1>3, <1>4, <1>7, <2>4 DEF HistoryFetch, RowsTyped, rows, bounds
<1>8. ASSUME NEW s \in Series, IncAsk(s) PROVE Typed'
  <2>1. [Nothing EXCEPT !.of = {s}] \in Fetched BY DEF Nothing, Fetched
  <2>2. inc' \in IncStates BY <1>8, <2>1 DEF IncAsk, IncStates, IncStages
  <2> QED BY <1>3, <1>4, <1>8, <2>2 DEF IncAsk, RowsTyped, rows, bounds
<1>9. CASE IncFetch
  <2>1. PICK s \in inc.chunk.of : \E c \in Answers(s) :
          ListEpisodes(s, c) /\ inc' = [inc EXCEPT !.at = "fetched", !.chunk = c]
    BY <1>9 DEF IncFetch
  <2>2. PICK c \in Answers(s) :
          ListEpisodes(s, c) /\ inc' = [inc EXCEPT !.at = "fetched", !.chunk = c]
    BY <2>1
  <2>3. s \in Series BY <2>1 DEF Fetched
  <2>4. inc' \in IncStates BY <2>2, <2>3, AnswersFetched DEF IncStates, IncStages
  <2>5. faults' \in 0 .. MaxFaults BY <1>4, <2>2, ListTyped
  <2> QED BY <1>3, <1>4, <1>9, <2>4, <2>5 DEF IncFetch, RowsTyped, rows
<1>10. CASE IncWrite
  <2>1. inc' \in IncStates BY <1>10 DEF IncWrite, IncStates, IncStages
  <2>2. RowsTyped' BY <1>10, WriteTyped DEF IncWrite
  <2> QED BY <1>3, <1>4, <1>10, <2>1, <2>2 DEF IncWrite, bounds
<1>11. CASE IncReconcile
  <2>1. inc' \in IncStates BY <1>11, OffTypes DEF IncReconcile, IncStates, IncStages
  <2>2. RowsTyped'
    BY <1>11 DEF IncReconcile, ReconcilePresent, ReconcileMissing, RowsTyped
  <2> QED BY <1>3, <1>4, <1>11, <2>1, <2>2 DEF IncReconcile, bounds
<1>12. CASE IncEnds
  <2>1. mark' \in Times BY <1>4, <1>12 DEF IncEnds, IncStates
  <2> QED BY <1>3, <1>4, <1>12, <2>1, OffTypes DEF IncEnds, RowsTyped, rows, bounds
<1>13. CASE IncFails
  BY <1>3, <1>4, <1>13, OffTypes, FaultTyped DEF IncFails, RowsTyped, rows
<1> QED BY <1>5, <1>6, <1>7, <1>8, <1>9, <1>10, <1>11, <1>12, <1>13 DEF IncStep

LEMMA HookTyped ==
  ASSUME Typed, NEW w \in Drains, HookStep(w) \/ HookFails(w)
  PROVE  Typed'
<1>0. LibraryTyped /\ RowsTyped /\ PassesTyped /\ hook[w] \in HookStates
  BY DEF Typed, PassesTyped
<1> USE <1>0
<1>1. UNCHANGED <<sonarr, mark, full, inc, stopping, history, changes>> /\ mail' \subseteq mail
  BY DEF HookStep, HookFails, HookTake, HookFetch, HookRefresh, HookSeriesDelete,
         HookFileDelete, HookDone, bounds
<1>2. faults' \in 0 .. MaxFaults
  BY FaultTyped, ListTyped DEF HookStep, HookFails, HookTake, HookFetch, HookRefresh, HookSeriesDelete,
         HookFileDelete, HookDone, bounds, PassesTyped
<1>3. ASSUME NEW h \in HookStates, hook' = [hook EXCEPT ![w] = h], RowsTyped'
      PROVE  Typed'
  BY <1>1, <1>2, <1>3 DEF Typed, LibraryTyped, PassesTyped, sonarr, history
<1>4. ASSUME NEW j \in Jobs, HookTake(w, j) PROVE Typed'
  <2>1. [HookOff EXCEPT !.at = "taken", !.job = j] \in HookStates
    BY OffTypes DEF HookOff, HookStates
  <2> QED BY <1>3, <1>4, <2>1 DEF HookTake, RowsTyped, rows
<1>5. CASE HookFetch(w)
  <2>1. PICK c \in Answers(hook[w].job[2]) :
          hook' = [hook EXCEPT ![w].at = "fetched", ![w].chunk = c]
    BY <1>5 DEF HookFetch
  <2>2. hook[w].job \in Jobs BY <1>5 DEF HookFetch, HookStates
  <2>3. hook[w].job[2] \in Series BY <1>5, <2>2 DEF HookFetch, Jobs
  <2>4. [hook[w] EXCEPT !.at = "fetched", !.chunk = c] \in HookStates
    BY <2>2, <2>3, AnswersFetched DEF HookStates
  <2>5. hook' = [hook EXCEPT ![w] = [hook[w] EXCEPT !.at = "fetched", !.chunk = c]]
    BY <2>1 DEF PassesTyped
  <2> QED BY <1>3, <1>5, <2>4, <2>5 DEF HookFetch, RowsTyped, rows
<1>6. CASE HookRefresh(w)
  <2>1. RowsTyped' BY <1>6 DEF HookRefresh, WriteRefresh, RowsTyped, HookStates, Fetched
  <2> QED BY <1>3, <1>6, <2>1, OffTypes DEF HookRefresh, HookDone
<1>7. CASE HookSeriesDelete(w)
  <2>1. RowsTyped' BY <1>7 DEF HookSeriesDelete, RowsTyped
  <2> QED BY <1>3, <1>7, <2>1, OffTypes DEF HookSeriesDelete, HookDone
<1>8. CASE HookFileDelete(w)
  <2>1. RowsTyped' BY <1>8 DEF HookFileDelete, RowsTyped
  <2> QED BY <1>3, <1>8, <2>1, OffTypes DEF HookFileDelete, HookDone
<1>9. CASE HookFails(w)
  BY <1>3, <1>9, OffTypes DEF HookFails, RowsTyped, rows
<1> QED BY <1>4, <1>5, <1>6, <1>7, <1>8, <1>9 DEF HookStep

LEMMA NextTyped ==
  ASSUME Typed, [Next]_vars
  PROVE  Typed'
<1> USE DEF Typed, LibraryTyped, RowsTyped, PassesTyped, sonarr, rows, history
<1>1. CASE Stop BY <1>1, FaultTyped DEF Stop, passes
<1>2. CASE Restart BY <1>2, FaultTyped, OffTypes DEF Restart
<1>3. CASE UNCHANGED vars BY <1>3 DEF vars, passes, bounds
<1> QED BY <1>1, <1>2, <1>3, SonarrTyped, FullTyped, IncTyped, HookTyped DEF Next

\* Every variable keeps its type through every step of the passes and jobs.
THEOREM SonarrTypes == Spec => []TypeOK
<1>1. Init => Typed BY InitTyped
<1>2. Typed /\ [Next]_vars => Typed' BY NextTyped
<1>3. Typed => TypeOK
  BY DEF Typed, TypeOK, LibraryTyped, RowsTyped, PassesTyped, FullStates, IncStates, HookStates
<1> QED BY <1>1, <1>2, <1>3, PTL DEF Spec

-----------------------------------------------------------------------------
(* Steady rows.                                                            *)

\* What SteadyRowsStayLive says of a step.
Kept ==
  /\ series \cap Steady \subseteq series'
  /\ {e \in episodes : SeriesOf[e] \in Steady} \subseteq episodes'
  /\ \A f \in files \cap FilesOf(Steady) \cap OnDisk(Episodes) :
       f \in files' \/ TombstonesUnlisted(SeriesOf[f[1]])

LEMMA SteadyTyped == Steady \in SUBSET Series
BY DEF Steady, InSonarr

\* An answer is all there is of the series, or all but its files.
LEMMA AnswerIs ==
  ASSUME NEW s, NEW c \in Answers(s)
  PROVE  c.of = {s} /\ c.episodes = Answer(s) /\ (c.files = OnDisk(Answer(s)) \/ c.files = {})
BY DEF Answers, Whole, Bare

LEMMA AnswersFit ==
  ASSUME NEW s \in Series, NEW c \in Answers(s)
  PROVE  Fits(c)
<1>1. c.of = {s} /\ c.episodes = Answer(s) /\ (c.files = OnDisk(Answer(s)) \/ c.files = {})
  BY AnswerIs
<1> QED BY <1>1 DEF Fits, Answer, EpisodesOf, OnDisk

LEMMA SteadyAnswer ==
  ASSUME NEW c, Fits(c), NEW s \in Steady \cap c.of
  PROVE  /\ c.of = {s} /\ c.episodes = EpisodesOf(s)
         /\ c.files = OnDisk(EpisodesOf(s)) \/ c.files = {}
<1>1. Answer(s) = EpisodesOf(s) BY DEF Steady, InSonarr, Answer
<1>2. c \in Answers(s) BY DEF Fits
<1> QED BY <1>1, <1>2, AnswerIs

\* What a full pass has seen of a series it has seen whole or all but the files, also
\* with one more answer.
LEMMA SeenGrows ==
  ASSUME NEW d, NEW c, NEW m, m.of = d.of \cup c.of, m.files = d.files \cup c.files,
         \A f \in d.files : SeriesOf[f[1]] \in d.of,
         \A f \in c.files : SeriesOf[f[1]] \in c.of,
         NEW s \in m.of,
         s \in d.of => OnDisk(EpisodesOf(s)) \subseteq d.files \/ Unlisted(d, s),
         s \in c.of => OnDisk(EpisodesOf(s)) \subseteq c.files \/ c.files = {}
  PROVE  OnDisk(EpisodesOf(s)) \subseteq m.files \/ Unlisted(m, s)
<1>1. CASE OnDisk(EpisodesOf(s)) \subseteq d.files \/ OnDisk(EpisodesOf(s)) \subseteq c.files
  BY <1>1
<1>2. CASE ~(OnDisk(EpisodesOf(s)) \subseteq d.files) /\ ~(OnDisk(EpisodesOf(s)) \subseteq c.files)
  <2>1. OnDisk(EpisodesOf(s)) # {} BY <1>2
  <2>2. d.files \cap FilesOf({s}) = {} BY <1>2 DEF Unlisted, FilesOf
  <2>3. c.files \cap FilesOf({s}) = {} BY <1>2 DEF FilesOf
  <2> QED BY <2>1, <2>2, <2>3 DEF Unlisted
<1> QED BY <1>1, <1>2

LEMMA NothingFits == Fits(Nothing)
BY DEF Fits, Nothing

\* A change of the library touches one series and leaves the answers of the others.
LEMMA SonarrTouchesOne ==
  ASSUME Typed, SonarrStep
  PROVE  \E t \in Series :
           /\ touched' = touched \cup {t}
           /\ UNCHANGED <<rows, passes>>
           /\ \A j \in mail' \ mail : (IF j[1] = "file_delete" THEN SeriesOf[j[2]] ELSE j[2]) = t
           /\ \A s \in Series \ {t} : /\ library'[s] = library[s]
                                      /\ \A e \in EpisodesOf(s) : disk'[e] = disk[e]
<1> USE DEF Typed, LibraryTyped, EpisodesOf
<1>1. ASSUME NEW s \in Series, AddSeries(s)
      PROVE  /\ touched' = touched \cup {s} /\ UNCHANGED <<rows, passes>>
             /\ \A j \in mail' \ mail : (IF j[1] = "file_delete" THEN SeriesOf[j[2]] ELSE j[2]) = s
             /\ \A u \in Series \ {s} : /\ library'[u] = library[u]
                                        /\ \A e \in EpisodesOf(u) : disk'[e] = disk[e]
  BY <1>1 DEF AddSeries, Change
<1>2. ASSUME NEW s \in Series, DeleteSeries(s)
      PROVE  /\ touched' = touched \cup {s} /\ UNCHANGED <<rows, passes>>
             /\ \A j \in mail' \ mail : (IF j[1] = "file_delete" THEN SeriesOf[j[2]] ELSE j[2]) = s
             /\ \A u \in Series \ {s} : /\ library'[u] = library[u]
                                        /\ \A e \in EpisodesOf(u) : disk'[e] = disk[e]
  BY <1>2 DEF DeleteSeries, Change
<1>3. ASSUME NEW d \in Episodes, Import(d) \/ RemoveFile(d)
      PROVE  /\ touched' = touched \cup {SeriesOf[d]} /\ UNCHANGED <<rows, passes>>
             /\ \A j \in mail' \ mail : (IF j[1] = "file_delete" THEN SeriesOf[j[2]] ELSE j[2]) = SeriesOf[d]
             /\ \A u \in Series \ {SeriesOf[d]} : /\ library'[u] = library[u]
                                        /\ \A e \in EpisodesOf(u) : disk'[e] = disk[e]
  BY <1>3 DEF Import, RemoveFile, Change
<1> QED BY <1>1, <1>2, <1>3, WarehouseAssumption DEF SonarrStep

LEMMA AnswerKept ==
  ASSUME NEW s \in Series, library'[s] = library[s],
         \A e \in EpisodesOf(s) : disk'[e] = disk[e]
  PROVE  /\ Answers(s)' = Answers(s)
         /\ OnDisk(EpisodesOf(s))' = OnDisk(EpisodesOf(s))
<1>1. \A E \in SUBSET EpisodesOf(s) : OnDisk(E)' = OnDisk(E) BY DEF OnDisk
<1>2. Answer(s)' = Answer(s) /\ Answer(s) \in SUBSET EpisodesOf(s) BY DEF Answer
<1> QED BY <1>1, <1>2 DEF Answers, Whole, Bare

LEMMA SteadySonarr ==
  ASSUME Typed, SteadyInv, SonarrStep
  PROVE  SteadyInv' /\ Kept
<1>1. PICK t \in Series :
        /\ touched' = touched \cup {t} /\ UNCHANGED <<rows, passes>>
        /\ \A j \in mail' \ mail : (IF j[1] = "file_delete" THEN SeriesOf[j[2]] ELSE j[2]) = t
        /\ \A s \in Series \ {t} : /\ library'[s] = library[s]
                                   /\ \A e \in EpisodesOf(s) : disk'[e] = disk[e]
  BY SonarrTouchesOne
<1>2. Steady' = Steady \ {t} BY <1>1 DEF Steady, InSonarr
<1>3. \A s \in Steady' : Answers(s)' = Answers(s) /\ OnDisk(EpisodesOf(s))' = OnDisk(EpisodesOf(s))
  BY <1>1, <1>2, SteadyTyped, AnswerKept
<1>4. \A c : Fits(c) => Fits(c)' BY <1>2, <1>3 DEF Fits
<1>5. UNCHANGED <<series, episodes, files, full, inc, hook>> BY <1>1 DEF rows, passes
<1>6. JobsOfTouched' BY <1>1, <1>5 DEF SteadyInv, JobsOfTouched, OfTouched
<1>7. FetchedFits' BY <1>2, <1>4, <1>5 DEF SteadyInv, FetchedFits
<1>8. ASSUME NEW l \in Lanes PROVE FullAt(l)' /\ SeenSteady(l)'
  BY <1>2, <1>3, <1>5 DEF SteadyInv, FullAt, SeenSteady, Unlisted
<1>9. SteadyWhole' BY <1>2, <1>5 DEF SteadyInv, SteadyWhole
<1> QED BY <1>5, <1>6, <1>7, <1>8, <1>9 DEF SteadyInv, Kept

\* What holds of a step that is not Sonarr's.
LEMMA OursKeep ==
  ASSUME UNCHANGED <<sonarr, touched>>
  PROVE  /\ Steady' = Steady /\ InSonarr' = InSonarr
         /\ \A s : Answer(s)' = Answer(s) /\ Answers(s)' = Answers(s)
         /\ \A E : OnDisk(E)' = OnDisk(E)
         /\ \A c : Fits(c)' = Fits(c)
BY DEF sonarr, Steady, InSonarr, Answer, Answers, Whole, Bare, OnDisk, Fits

\* Rows that come with their series, or are of a series that changed, leave the
\* steady ones whole.
LEMMA WholeKept ==
  ASSUME SteadyWhole, Kept, Steady' = Steady,
         \A e \in episodes' \ episodes : SeriesOf[e] \in series' \cup touched,
         \A f \in files' \ files : SeriesOf[f[1]] \in series' \cup touched
  PROVE  SteadyWhole'
BY DEF SteadyWhole, Kept, Steady

LEMMA SteadyFull ==
  ASSUME Typed, SteadyInv, NEW l \in Lanes, FullStep(l) \/ FullFails(l)
  PROVE  SteadyInv' /\ Kept
<1>1. UNCHANGED <<sonarr, touched, mail, inc, hook>>
  BY DEF FullStep, FullList, FullFetch, FullWrite, FullLoopEnds, FullTombstones, FullFails, bounds,
         history
<1>2. /\ Steady' = Steady /\ InSonarr' = InSonarr
      /\ \A s : Answer(s)' = Answer(s) /\ Answers(s)' = Answers(s)
      /\ \A E : OnDisk(E)' = OnDisk(E)
      /\ \A c : Fits(c)' = Fits(c)
  BY <1>1, OursKeep
<1>3. JobsOfTouched' BY <1>1 DEF SteadyInv, JobsOfTouched, OfTouched
<1>4. /\ full \in [Lanes -> FullStates] /\ full[l].chunk \in Fetched /\ full[l].seen \in Fetched
      /\ full[l] \in FullStates
  BY DEF Typed, PassesTyped, FullStates
<1>5. ASSUME NEW p, full' = [full EXCEPT ![l] = p], Fits(p.chunk),
             FullAt(l)', SeenSteady(l)', SteadyWhole'
      PROVE  SteadyInv'
  <2>1. \A k \in Lanes : full'[k] = IF k = l THEN p ELSE full[k] BY <1>4, <1>5
  <2>2. FetchedFits' BY <1>1, <1>2, <1>5, <2>1 DEF SteadyInv, FetchedFits
  <2>3. \A k \in Lanes \ {l} : FullAt(k)' /\ SeenSteady(k)'
    BY <1>2, <2>1 DEF SteadyInv, FullAt, SeenSteady, Unlisted
  <2> QED BY <1>3, <1>5, <2>2, <2>3 DEF SteadyInv
<1>6. UNCHANGED rows => Kept /\ SteadyWhole'
  BY <1>2 DEF rows, Kept, SteadyInv, SteadyWhole
<1>7. full' = [full EXCEPT ![l] = FullOff] => FullAt(l)' /\ SeenSteady(l)' /\ Fits(FullOff.chunk)
  BY <1>4, NothingFits DEF FullAt, SeenSteady, FullOff, Nothing
<1>8. CASE FullList(l)
  <2>1. PICK L \in {InSonarr, {}} :
          full' = [full EXCEPT ![l] = [FullOff EXCEPT !.at = "syncing", !.todo = L]]
    BY <1>8 DEF FullList
  <2> DEFINE p == [FullOff EXCEPT !.at = "syncing", !.todo = L]
  <2>2. full'[l] = p /\ p.at = "syncing" /\ p.todo = L /\ p.chunk = Nothing /\ p.seen = Nothing
    BY <1>4, <2>1 DEF FullOff
  <2>3. FullAt(l)' BY <2>2 DEF FullAt
  <2>4. SeenSteady(l)' BY <1>2, <2>2 DEF SeenSteady, Nothing, Steady
  <2>5. UNCHANGED rows BY <1>8 DEF FullList
  <2> QED BY <1>5, <1>6, <2>1, <2>2, <2>3, <2>4, <2>5, NothingFits
<1>9. ASSUME NEW s \in Series, FullFetch(l, s) PROVE SteadyInv' /\ Kept
  <2>1. PICK c \in Answers(s) : full' = [full EXCEPT ![l].chunk = c] BY <1>9 DEF FullFetch
  <2> DEFINE p == [full[l] EXCEPT !.chunk = c]
  <2>2. full' = [full EXCEPT ![l] = p] /\ p.chunk = c BY <1>4, <2>1 DEF FullStates
  <2>3. full'[l] = p BY <1>4, <2>2
  <2>4. p.at = "syncing" /\ p.todo = full[l].todo /\ p.seen = full[l].seen /\ s \in full[l].todo
    BY <1>4, <1>9 DEF FullFetch, FullStates
  <2>5. FullAt(l)' BY <2>3, <2>4 DEF FullAt
  <2>6. SeenSteady(l)' BY <1>2, <1>9, <2>3, <2>4 DEF SteadyInv, SeenSteady, FullFetch, Unlisted
  <2>7. UNCHANGED rows BY <1>9 DEF FullFetch
  <2> QED BY <1>5, <1>6, <2>2, <2>5, <2>6, <2>7, AnswersFit
<1>10. CASE FullWrite(l)
  <2> DEFINE c == full[l].chunk
             d == full[l].seen
             seen2 == [of |-> d.of \cup c.of, episodes |-> d.episodes \cup c.episodes,
                       files |-> d.files \cup c.files]
             p == [full[l] EXCEPT !.chunk = Nothing, !.todo = @ \ c.of, !.seen = seen2]
  <2>1. full' = [full EXCEPT ![l] = p] /\ WriteChunk(c) /\ c # Nothing
    BY <1>4, <1>10 DEF FullWrite
  <2>2. /\ full'[l] = p /\ p.chunk = Nothing /\ p.todo = full[l].todo \ c.of /\ p.seen = seen2
        /\ p.at = full[l].at /\ p.at = "syncing"
    BY <1>4, <2>1 DEF FullStates, SteadyInv, FullAt
  <2>3. Fits(c) BY DEF SteadyInv, FetchedFits
  <2>4. \A s \in Steady \cap c.of :
          /\ EpisodesOf(s) \subseteq c.episodes
          /\ OnDisk(EpisodesOf(s)) \subseteq c.files \/ c.files = {}
    BY <2>3, SteadyAnswer
  <2>5. FullAt(l)' BY <2>2 DEF FullAt
  <2>6. SeenSteady(l)'
    <3>0. /\ \A f \in c.files : SeriesOf[f[1]] \in c.of
          /\ \A f \in d.files : SeriesOf[f[1]] \in d.of
          /\ \A s \in Steady \cap d.of :
               /\ EpisodesOf(s) \subseteq d.episodes
               /\ OnDisk(EpisodesOf(s)) \subseteq d.files \/ Unlisted(d, s)
      BY <2>3 DEF Fits, SteadyInv, SeenSteady
    <3>1. ASSUME NEW s \in Steady \cap seen2.of
          PROVE  /\ EpisodesOf(s) \subseteq seen2.episodes
                 /\ OnDisk(EpisodesOf(s)) \subseteq seen2.files \/ Unlisted(seen2, s)
      <4>1. EpisodesOf(s) \subseteq seen2.episodes BY <2>4, <3>0
      <4>2. /\ s \in d.of => OnDisk(EpisodesOf(s)) \subseteq d.files \/ Unlisted(d, s)
            /\ s \in c.of => OnDisk(EpisodesOf(s)) \subseteq c.files \/ c.files = {}
        BY <2>4, <3>0
      <4>3. seen2.of = d.of \cup c.of /\ seen2.files = d.files \cup c.files /\ s \in seen2.of
        OBVIOUS
      <4> HIDE DEF c, d, seen2
      <4> QED BY <3>0, <4>1, <4>2, <4>3, SeenGrows
    <3>5. \A f \in seen2.files : SeriesOf[f[1]] \in seen2.of BY <3>0
    <3>2. Steady \subseteq full[l].todo \cup d.of BY <2>1, <2>2 DEF SteadyInv, SeenSteady
    <3>3. Steady' \subseteq p.todo \cup seen2.of BY <1>2, <2>2, <3>2
    <3>4. \A E : OnDisk(E)' = OnDisk(E) BY <1>2
    <3> HIDE DEF p, d, seen2
    <3> QED BY <1>2, <2>2, <3>1, <3>3, <3>4, <3>5 DEF SeenSteady, Unlisted
  <2>7. Kept BY <2>1 DEF WriteChunk, Kept
  <2>8. SteadyWhole'
    BY <1>2, <2>1, <2>3, <2>7, WholeKept DEF WriteChunk, Fits, SteadyInv
  <2>9. Fits(p.chunk) BY <2>2, NothingFits
  <2> HIDE DEF p
  <2>10. full' = [full EXCEPT ![l] = p] BY <2>1
  <2>11. SteadyInv' BY <1>5, <2>5, <2>6, <2>8, <2>9, <2>10, Zenon
  <2> QED BY <2>7, <2>11
<1>11. CASE FullLoopEnds(l)
  <2>1. UNCHANGED rows /\ full[l].chunk = Nothing BY <1>11 DEF FullLoopEnds
  <2>2. CASE ~Complete
    <3>1. full' = [full EXCEPT ![l] = FullOff] BY <1>11, <2>2 DEF FullLoopEnds
    <3> QED BY <1>5, <1>6, <1>7, <2>1, <3>1
  <2>3. CASE Complete
    <3> DEFINE p == [full[l] EXCEPT !.at = "tombstones"]
    <3>1. full' = [full EXCEPT ![l] = p] /\ full[l].todo = {} /\ full[l].at = "syncing"
      BY <1>4, <1>11, <2>3 DEF FullLoopEnds, Complete
    <3>2. full'[l] = p /\ p.at = "tombstones" /\ p.todo = {} /\ p.chunk = Nothing /\ p.seen = full[l].seen
      BY <1>4, <2>1, <3>1 DEF FullStates
    <3>3. FullAt(l)' BY <3>2 DEF FullAt
    <3>4. SeenSteady(l)' BY <1>2, <2>1, <3>1, <3>2 DEF SteadyInv, SeenSteady, Unlisted
    <3> QED BY <1>5, <1>6, <2>1, <3>1, <3>2, <3>3, <3>4, NothingFits
  <2> QED BY <2>2, <2>3
<1>12. CASE FullTombstones(l)
  <2> DEFINE d == full[l].seen
  <2>1. full' = [full EXCEPT ![l] = FullOff] BY <1>12 DEF FullTombstones
  <2>2. CASE EmptyFetch(d) BY <1>5, <1>6, <1>7, <1>12, <2>1, <2>2 DEF FullTombstones
  <2>3. CASE ~EmptyFetch(d)
    <3>1. /\ series' = series \cap d.of /\ episodes' = episodes \cap d.episodes
          /\ files' = files \cap d.files
      BY <1>12, <2>3 DEF FullTombstones, Tombstone
    <3>2. /\ \A s \in Steady \cap d.of :
               /\ EpisodesOf(s) \subseteq d.episodes
               /\ OnDisk(EpisodesOf(s)) \subseteq d.files \/ Unlisted(d, s)
          /\ Steady \subseteq d.of \/ d.of = {}
      BY <1>12 DEF FullTombstones, SteadyInv, FullAt, SeenSteady
    <3>3. CASE Steady \subseteq d.of
      <4>1. \A e \in episodes : SeriesOf[e] \in Steady => e \in d.episodes
        BY <3>2, <3>3 DEF EpisodesOf, Typed, RowsTyped
      <4>2. ASSUME NEW f \in files \cap FilesOf(Steady) \cap OnDisk(Episodes)
            PROVE  f \in d.files \/ TombstonesUnlisted(SeriesOf[f[1]])
        <5>1. SeriesOf[f[1]] \in Steady \cap d.of BY <3>3 DEF FilesOf
        <5>2. f \in OnDisk(EpisodesOf(SeriesOf[f[1]])) BY DEF OnDisk, EpisodesOf, Files
        <5>3. f \in d.files \/ Unlisted(d, SeriesOf[f[1]]) BY <3>2, <5>1, <5>2
        <5> QED BY <1>12, <5>3 DEF TombstonesUnlisted
      <4>3. Kept BY <3>1, <3>3, <4>1, <4>2 DEF Kept
      <4>4. SteadyWhole' BY <1>2, <3>1, <4>3, WholeKept DEF SteadyInv
      <4> QED BY <1>5, <1>7, <2>1, <4>3, <4>4
    <3>4. CASE d.of = {}
      <4>1. series = {} BY <2>3, <3>4 DEF EmptyFetch
      <4>2. (\A e \in episodes : SeriesOf[e] \notin Steady) /\ (\A f \in files : SeriesOf[f[1]] \notin Steady)
        BY <4>1 DEF SteadyInv, SteadyWhole
      <4>3. Kept BY <4>1, <4>2 DEF Kept, FilesOf
      <4>4. SteadyWhole' BY <1>2, <3>1, <4>3, WholeKept DEF SteadyInv
      <4> QED BY <1>5, <1>7, <2>1, <4>3, <4>4
    <3> QED BY <3>2, <3>3, <3>4
  <2> QED BY <2>2, <2>3
<1>13. CASE FullFails(l) BY <1>5, <1>6, <1>7, <1>13 DEF FullFails
<1> QED BY <1>8, <1>9, <1>10, <1>11, <1>12, <1>13 DEF FullStep

LEMMA SteadyInc ==
  ASSUME Typed, SteadyInv, IncStep \/ IncFails
  PROVE  SteadyInv' /\ Kept
<1>1. UNCHANGED <<sonarr, touched, mail, full, hook>>
  BY DEF IncStep, IncFails, ScopeList, ScopeWrite, HistoryFetch, IncAsk, IncFetch, IncWrite,
         IncReconcile, IncEnds, bounds, history
<1>2. /\ Steady' = Steady /\ InSonarr' = InSonarr
      /\ \A s : Answer(s)' = Answer(s) /\ Answers(s)' = Answers(s)
      /\ \A E : OnDisk(E)' = OnDisk(E)
      /\ \A c : Fits(c)' = Fits(c)
  BY <1>1, OursKeep
<1>3. JobsOfTouched' BY <1>1 DEF SteadyInv, JobsOfTouched, OfTouched
<1>4. \A l \in Lanes : FullAt(l)' /\ SeenSteady(l)'
  BY <1>1, <1>2 DEF SteadyInv, FullAt, SeenSteady, Unlisted
<1>5. inc \in IncStates /\ inc.chunk \in Fetched BY DEF Typed, PassesTyped, IncStates
<1>6. ASSUME inc'.at \in {"fetched", "written"} => Fits(inc'.chunk),
             inc'.at = "missing" => inc'.chunk.of \cap Steady = {}, SteadyWhole'
      PROVE  SteadyInv'
  <2>1. FetchedFits' BY <1>1, <1>2, <1>6 DEF SteadyInv, FetchedFits
  <2> QED BY <1>3, <1>4, <1>6, <2>1 DEF SteadyInv
<1>7. UNCHANGED rows => Kept /\ SteadyWhole'
  BY <1>2 DEF rows, Kept, SteadyInv, SteadyWhole
<1>8. inc' = IncOff => inc'.at = "off" BY DEF IncOff
<1>9. CASE ScopeList
  <2>1. inc'.at = "listed" BY <1>9 DEF ScopeList, IncOff
  <2> QED BY <1>6, <1>7, <1>9, <2>1 DEF ScopeList
<1>10. CASE ScopeWrite
  <2>1. inc'.at = "scoped" BY <1>10 DEF ScopeWrite, IncOff
  <2>2. Kept BY <1>10 DEF ScopeWrite, Kept
  <2>3. SteadyWhole' BY <1>2, <1>10, <2>2, WholeKept DEF ScopeWrite, SteadyInv
  <2> QED BY <1>6, <2>1, <2>2, <2>3
<1>11. CASE HistoryFetch
  <2>1. inc'.at = "ingesting" BY <1>11 DEF HistoryFetch, IncOff
  <2> QED BY <1>6, <1>7, <1>11, <2>1 DEF HistoryFetch
<1>12. ASSUME NEW s \in Series, IncAsk(s) PROVE SteadyInv' /\ Kept
  <2>1. inc'.at = (IF library[s] = "in" THEN "present" ELSE "missing") /\ inc'.chunk.of = {s}
    BY <1>5, <1>12 DEF IncAsk, IncStates, Nothing
  <2>2. library[s] # "in" => s \notin Steady BY DEF Steady, InSonarr
  <2> QED BY <1>6, <1>7, <1>12, <2>1, <2>2 DEF IncAsk
<1>13. CASE IncFetch
  <2>1. PICK s \in inc.chunk.of : \E c \in Answers(s) :
          inc' = [inc EXCEPT !.at = "fetched", !.chunk = c]
    BY <1>13 DEF IncFetch
  <2>2. PICK c \in Answers(s) : inc' = [inc EXCEPT !.at = "fetched", !.chunk = c] BY <2>1
  <2>3. Fits(c) BY <1>5, <2>1, AnswersFit DEF Fetched
  <2>4. inc'.at = "fetched" /\ inc'.chunk = c BY <1>5, <2>2 DEF IncStates
  <2> QED BY <1>6, <1>7, <1>13, <2>3, <2>4 DEF IncFetch
<1>14. CASE IncWrite
  <2>1. inc'.at = "written" /\ inc'.chunk = inc.chunk BY <1>5, <1>14 DEF IncWrite, IncStates
  <2>2. Fits(inc.chunk) /\ WriteChunk(inc.chunk) BY <1>14 DEF IncWrite, SteadyInv, FetchedFits
  <2>3. Kept BY <2>2 DEF WriteChunk, Kept
  <2>4. SteadyWhole' BY <1>2, <2>2, <2>3, WholeKept DEF WriteChunk, Fits, SteadyInv
  <2> QED BY <1>6, <2>1, <2>2, <2>3, <2>4
<1>15. CASE IncReconcile
  <2> DEFINE c == inc.chunk
  <2>1. inc'.at = "ingesting" BY <1>5, <1>15 DEF IncReconcile, IncStates
  <2>2. CASE inc.at = "written"
    <3>1. /\ episodes' = {e \in episodes : SeriesOf[e] \in c.of => e \in c.episodes}
          /\ files' = {f \in files : f[1] \in c.episodes => f \in c.files}
          /\ series' = series
      BY <1>15, <2>2 DEF IncReconcile, ReconcilePresent
    <3>2. Fits(c) BY <2>2 DEF SteadyInv, FetchedFits
    <3>3. \A e \in episodes : SeriesOf[e] \in Steady => e \in episodes'
      <4> SUFFICES ASSUME NEW e \in episodes, SeriesOf[e] \in Steady, SeriesOf[e] \in c.of
                   PROVE  e \in c.episodes
        BY <3>1
      <4>1. c.episodes = EpisodesOf(SeriesOf[e]) BY <3>2, SteadyAnswer
      <4> QED BY <4>1 DEF EpisodesOf, Typed, RowsTyped
    <3>4. \A f \in files \cap FilesOf(Steady) \cap OnDisk(Episodes) :
            f \in files' \/ TombstonesUnlisted(SeriesOf[f[1]])
      <4> SUFFICES ASSUME NEW f \in files \cap FilesOf(Steady) \cap OnDisk(Episodes),
                          f[1] \in c.episodes, f \notin c.files
                   PROVE  TombstonesUnlisted(SeriesOf[f[1]])
        BY <3>1
      <4>1. SeriesOf[f[1]] \in Steady \cap c.of BY <3>2 DEF FilesOf, Fits
      <4>2. f \in OnDisk(EpisodesOf(SeriesOf[f[1]])) BY DEF OnDisk, EpisodesOf, Files
      <4>3. c.files = {} BY <3>2, <4>1, <4>2, SteadyAnswer
      <4>4. Unlisted(c, SeriesOf[f[1]]) BY <4>1, <4>2, <4>3 DEF Unlisted
      <4> QED BY <1>15, <2>2, <4>4 DEF TombstonesUnlisted
    <3>5. Kept BY <3>1, <3>3, <3>4 DEF Kept
    <3>6. SteadyWhole' BY <1>2, <3>1, <3>5, WholeKept DEF SteadyInv
    <3> QED BY <1>6, <2>1, <3>5, <3>6
  <2>3. CASE inc.at = "missing"
    <3>1. /\ series' = series \ c.of
          /\ episodes' = {e \in episodes : SeriesOf[e] \notin c.of}
          /\ files' = files \ FilesOf(c.of)
      BY <1>15, <2>3 DEF IncReconcile, ReconcileMissing
    <3>2. c.of \cap Steady = {} BY <2>3 DEF SteadyInv, FetchedFits
    <3>3. Kept BY <3>1, <3>2 DEF Kept, FilesOf
    <3>4. SteadyWhole' BY <1>2, <3>1, <3>3, WholeKept DEF SteadyInv
    <3> QED BY <1>6, <2>1, <3>3, <3>4
  <2> QED BY <1>15, <2>2, <2>3 DEF IncReconcile
<1>16. CASE IncEnds BY <1>6, <1>7, <1>8, <1>16 DEF IncEnds
<1>17. CASE IncFails BY <1>6, <1>7, <1>8, <1>17 DEF IncFails
<1> QED BY <1>9, <1>10, <1>11, <1>12, <1>13, <1>14, <1>15, <1>16, <1>17 DEF IncStep

LEMMA SteadyHook ==
  ASSUME Typed, SteadyInv, NEW w \in Drains, HookStep(w) \/ HookFails(w)
  PROVE  SteadyInv' /\ Kept
<1>1. UNCHANGED <<sonarr, touched, full, inc>> /\ mail' \subseteq mail
  BY DEF HookStep, HookFails, HookTake, HookFetch, HookRefresh, HookSeriesDelete,
         HookFileDelete, HookDone, bounds, history
<1>2. /\ Steady' = Steady /\ InSonarr' = InSonarr
      /\ \A s : Answer(s)' = Answer(s) /\ Answers(s)' = Answers(s)
      /\ \A E : OnDisk(E)' = OnDisk(E)
      /\ \A c : Fits(c)' = Fits(c)
  BY <1>1, OursKeep
<1>3. \A l \in Lanes : FullAt(l)' /\ SeenSteady(l)'
  BY <1>1, <1>2 DEF SteadyInv, FullAt, SeenSteady, Unlisted
<1>4. hook \in [Drains -> HookStates] /\ hook[w] \in HookStates BY DEF Typed, PassesTyped
<1>5. ASSUME NEW h, hook' = [hook EXCEPT ![w] = h], h.at # "off" => OfTouched(h.job),
             h.at = "fetched" => h.job[1] = "refresh" /\ h.chunk.of = {h.job[2]} /\ Fits(h.chunk),
             SteadyWhole'
      PROVE  SteadyInv'
  <2>1. \A v \in Drains : hook'[v] = IF v = w THEN h ELSE hook[v] BY <1>4, <1>5
  <2>2. JobsOfTouched' BY <1>1, <1>5, <2>1 DEF SteadyInv, JobsOfTouched, OfTouched
  <2>3. FetchedFits' BY <1>1, <1>2, <1>5, <2>1 DEF SteadyInv, FetchedFits
  <2> QED BY <1>3, <1>5, <2>2, <2>3 DEF SteadyInv
<1>6. UNCHANGED rows => Kept /\ SteadyWhole'
  BY <1>2 DEF rows, Kept, SteadyInv, SteadyWhole
<1>7. hook' = [hook EXCEPT ![w] = HookOff] /\ SteadyWhole' => SteadyInv' BY <1>5 DEF HookOff
<1>8. ASSUME NEW j \in Jobs, HookTake(w, j) PROVE SteadyInv' /\ Kept
  <2> DEFINE h == [HookOff EXCEPT !.at = "taken", !.job = j]
  <2>1. hook' = [hook EXCEPT ![w] = h] /\ h.at = "taken" /\ h.job = j BY <1>8 DEF HookTake, HookOff
  <2>2. OfTouched(j) BY <1>8 DEF HookTake, SteadyInv, JobsOfTouched
  <2> QED BY <1>5, <1>6, <1>8, <2>1, <2>2 DEF HookTake
<1>9. CASE HookFetch(w)
  <2>1. PICK c \in Answers(hook[w].job[2]) :
          hook' = [hook EXCEPT ![w].at = "fetched", ![w].chunk = c]
    BY <1>9 DEF HookFetch
  <2> DEFINE h == [hook[w] EXCEPT !.at = "fetched", !.chunk = c]
  <2>2. hook[w].at = "taken" /\ hook[w].job[1] = "refresh" /\ hook[w].job \in Jobs
    BY <1>4, <1>9 DEF HookFetch, HookStates
  <2>3. hook[w].job[2] \in Series BY <2>2 DEF Jobs
  <2>4. hook' = [hook EXCEPT ![w] = h] /\ h.at = "fetched" /\ h.job = hook[w].job /\ h.chunk = c
    BY <1>4, <2>1 DEF HookStates
  <2>5. Fits(c) /\ c.of = {hook[w].job[2]} BY <2>3, AnswersFit, AnswersFetched
  <2>6. OfTouched(hook[w].job) BY <2>2 DEF SteadyInv, JobsOfTouched
  <2> QED BY <1>5, <1>6, <1>9, <2>2, <2>4, <2>5, <2>6 DEF HookFetch
<1>10. CASE HookRefresh(w)
  <2> DEFINE c == hook[w].chunk
  <2>1. /\ episodes' = episodes \cup c.episodes /\ series' = series
        /\ files' = {f \in files : \A g \in c.files : g[1] = f[1] => g = f} \cup c.files
        /\ hook' = [hook EXCEPT ![w] = HookOff]
    BY <1>10 DEF HookRefresh, WriteRefresh, HookDone
  <2>2. /\ Fits(c) /\ c.of = {hook[w].job[2]} /\ hook[w].job[1] = "refresh"
        /\ OfTouched(hook[w].job)
    BY <1>10 DEF HookRefresh, SteadyInv, FetchedFits, JobsOfTouched
  <2>3. c.of \subseteq touched BY <2>2 DEF OfTouched
  <2>4. \A g \in c.files : SeriesOf[g[1]] \in touched BY <2>2, <2>3 DEF Fits
  <2>5. \A f \in files \cap FilesOf(Steady) : f \in files'
    BY <2>1, <2>4 DEF FilesOf, Steady
  <2>6. Kept BY <2>1, <2>5 DEF Kept
  <2>7. SteadyWhole' BY <1>2, <2>1, <2>2, <2>3, <2>4, <2>6, WholeKept DEF Fits, SteadyInv
  <2> QED BY <1>7, <2>1, <2>6, <2>7
<1>11. CASE HookSeriesDelete(w)
  <2>1. /\ files' = files \ FilesOf({hook[w].job[2]})
        /\ series' = series \ {hook[w].job[2]} /\ episodes' = episodes
        /\ hook' = [hook EXCEPT ![w] = HookOff]
    BY <1>11 DEF HookSeriesDelete, HookDone
  <2>2. OfTouched(hook[w].job) /\ hook[w].job[1] = "series_delete"
    BY <1>11 DEF HookSeriesDelete, SteadyInv, JobsOfTouched
  <2>3. hook[w].job[2] \notin Steady BY <2>2 DEF OfTouched, Steady
  <2>4. Kept BY <2>1, <2>3 DEF Kept, FilesOf
  <2>5. SteadyWhole' BY <1>2, <2>1, <2>4, WholeKept DEF SteadyInv
  <2> QED BY <1>7, <2>1, <2>4, <2>5
<1>12. CASE HookFileDelete(w)
  <2>1. /\ episodes' = episodes \ {hook[w].job[2]} /\ series' = series /\ files' = files
        /\ hook' = [hook EXCEPT ![w] = HookOff]
    BY <1>12 DEF HookFileDelete, HookDone
  <2>2. OfTouched(hook[w].job) /\ hook[w].job[1] = "file_delete"
    BY <1>12 DEF HookFileDelete, SteadyInv, JobsOfTouched
  <2>3. SeriesOf[hook[w].job[2]] \notin Steady BY <2>2 DEF OfTouched, Steady
  <2>4. Kept BY <2>1, <2>3 DEF Kept
  <2>5. SteadyWhole' BY <1>2, <2>1, <2>4, WholeKept DEF SteadyInv
  <2> QED BY <1>7, <2>1, <2>4, <2>5
<1>13. CASE HookFails(w) BY <1>6, <1>7, <1>13 DEF HookFails
<1> QED BY <1>8, <1>9, <1>10, <1>11, <1>12, <1>13 DEF HookStep

LEMMA SteadyRestart ==
  ASSUME SteadyInv, Restart
  PROVE  SteadyInv' /\ Kept
<1>1. /\ UNCHANGED <<sonarr, rows, touched, mail>>
      /\ full' = [l \in Lanes |-> FullOff] /\ inc' = IncOff /\ hook' = [w \in Drains |-> HookOff]
  BY DEF Restart, history
<1>2. /\ Steady' = Steady /\ \A c : Fits(c)' = Fits(c) BY <1>1, OursKeep
<1>3. JobsOfTouched' BY <1>1 DEF SteadyInv, JobsOfTouched, OfTouched, HookOff
<1>4. FetchedFits' BY <1>1, <1>2, NothingFits DEF FetchedFits, FullOff, IncOff, HookOff
<1>5. \A l \in Lanes : FullAt(l)' /\ SeenSteady(l)'
  BY <1>1 DEF FullAt, SeenSteady, FullOff, Nothing
<1>6. SteadyWhole' /\ Kept BY <1>1, <1>2 DEF SteadyInv, SteadyWhole, Kept, rows
<1> QED BY <1>3, <1>4, <1>5, <1>6 DEF SteadyInv

LEMMA SteadyStutters ==
  ASSUME SteadyInv, UNCHANGED <<sonarr, rows, passes, touched, mail>>
  PROVE  SteadyInv' /\ Kept
<1>1. /\ Steady' = Steady /\ (\A c : Fits(c)' = Fits(c)) /\ \A E : OnDisk(E)' = OnDisk(E)
  BY OursKeep
<1>2. JobsOfTouched' /\ FetchedFits'
  BY <1>1 DEF SteadyInv, JobsOfTouched, OfTouched, FetchedFits, passes
<1>3. \A l \in Lanes : FullAt(l)' /\ SeenSteady(l)'
  BY <1>1 DEF SteadyInv, FullAt, SeenSteady, Unlisted, passes
<1>4. SteadyWhole' /\ Kept BY <1>1 DEF SteadyInv, SteadyWhole, Kept, rows
<1> QED BY <1>2, <1>3, <1>4 DEF SteadyInv

LEMMA SteadyStep ==
  ASSUME Typed, SteadyInv, [Next]_vars
  PROVE  SteadyInv' /\ Kept
<1>1. CASE Stop BY <1>1, SteadyStutters DEF Stop, history
<1>2. CASE UNCHANGED vars BY <1>2, SteadyStutters DEF vars, history
<1> QED BY <1>1, <1>2, SteadySonarr, SteadyFull, SteadyInc, SteadyHook, SteadyRestart DEF Next

LEMMA InitSteady == Init => SteadyInv
<1> SUFFICES ASSUME Init PROVE SteadyInv OBVIOUS
<1>1. JobsOfTouched BY DEF Init, JobsOfTouched, HookOff
<1>2. FetchedFits BY NothingFits DEF Init, FetchedFits, FullOff, IncOff, HookOff
<1>3. \A l \in Lanes : FullAt(l) /\ SeenSteady(l)
  BY DEF Init, FullAt, SeenSteady, FullOff, Nothing
<1>4. SteadyWhole BY DEF Init, SteadyWhole, Steady, InSonarr, OnDisk
<1> QED BY <1>1, <1>2, <1>3, <1>4 DEF SteadyInv

\* A step touches more series, never fewer.
LEMMA TouchedGrow ==
  ASSUME Typed, [Next]_vars
  PROVE  touched \subseteq touched'
<1>1. CASE SonarrStep BY <1>1, SonarrTouchesOne
<1>2. CASE ~SonarrStep
  BY <1>2 DEF Next, vars, FullStep, FullList, FullFetch, FullWrite, FullLoopEnds, FullTombstones,
    FullFails, IncStep, IncFails, ScopeList, ScopeWrite, HistoryFetch, IncAsk, IncFetch, IncWrite,
    IncReconcile, IncEnds, HookStep, HookFails, HookTake, HookFetch, HookRefresh,
    HookSeriesDelete, HookFileDelete, HookDone, Stop, Restart, history
<1> QED BY <1>1, <1>2

\* The strengthening holds throughout.
THEOREM SteadyInvariance == Spec => [](Typed /\ SteadyInv)
<1>1. Init => Typed /\ SteadyInv BY InitTyped, InitSteady
<1>2. Typed /\ SteadyInv /\ [Next]_vars => (Typed /\ SteadyInv)' BY NextTyped, SteadyStep
<1> QED BY <1>1, <1>2, PTL DEF Spec

\* mark_tombstones, the reconciles and the webhook jobs tombstone no row of a series
\* nothing happened to (the mass-tombstone guard, the check of stop_event and the
\* complete seen-set are what this rests on), but its files where list_episodes left
\* them out.
THEOREM SteadyStaysLive == Spec => SteadyRowsStayLive
<1> DEFINE Untouched == {s \in InSonarr : s \notin touched'}
           Goal == /\ series \cap Untouched \subseteq series'
                   /\ {e \in episodes : SeriesOf[e] \in Untouched} \subseteq episodes'
                   /\ \A f \in files \cap FilesOf(Untouched) \cap OnDisk(Episodes) :
                        f \in files' \/ TombstonesUnlisted(SeriesOf[f[1]])
<1>1. Typed /\ SteadyInv /\ [Next]_vars => [Goal]_vars
  <2> SUFFICES ASSUME Typed, SteadyInv, [Next]_vars PROVE Goal OBVIOUS
  <2>1. Kept BY SteadyStep
  <2>2. Untouched \subseteq Steady BY TouchedGrow DEF Steady
  <2> QED BY <2>1, <2>2 DEF Kept, FilesOf
<1> QED BY <1>1, SteadyInvariance, PTL DEF Spec, SteadyRowsStayLive

-----------------------------------------------------------------------------
(* Repairs.                                                                *)

\* A step that tombstones nothing that is there, but files its list came without, and
\* brings back nothing that is not.
Faithful ==
  /\ series \cap InSonarr \subseteq series' /\ series' \subseteq series \cup InSonarr
  /\ \A e \in episodes : SeriesOf[e] \in InSonarr => e \in episodes'
  /\ \A e \in episodes' \ episodes : SeriesOf[e] \in InSonarr
  /\ \A f \in files \cap OnDisk(Episodes) : f \in files' \/ TombstonesUnlisted(SeriesOf[f[1]])
  /\ files' \subseteq files \cup OnDisk(Episodes)

\* One that tombstones no file on disk at all.
Spares == files \cap OnDisk(Episodes) \subseteq files'

\* Files on disk are of series of the library.
LEMMA DiskFiled ==
  ASSUME Typed, Filed
  PROVE  /\ \A f \in OnDisk(Episodes) : SeriesOf[f[1]] \in InSonarr
         /\ OnDisk(UNION {EpisodesOf(s) : s \in InSonarr}) = OnDisk(Episodes)
<1>1. \A f \in OnDisk(Episodes) : SeriesOf[f[1]] \in InSonarr
  BY WarehouseAssumption DEF OnDisk, Files, Filed, InSonarr
<1>2. \A e \in UNION {EpisodesOf(s) : s \in InSonarr} : e \in Episodes BY DEF EpisodesOf
<1>3. \A f \in OnDisk(Episodes) : f[1] \in UNION {EpisodesOf(s) : s \in InSonarr}
  BY <1>1 DEF EpisodesOf, OnDisk, Files
<1> QED BY <1>1, <1>2, <1>3 DEF OnDisk

\* The calm goes on, unless a pass tombstones files its list came without.
CalmKept == Calm' \/ \E s \in Series : TombstonesUnlisted(s)

LEMMA SparesOrNot ==
  ASSUME Typed, Filed, Faithful, ~Spares
  PROVE  CalmKept
<1>1. PICK f \in files \cap OnDisk(Episodes) : f \notin files' BY DEF Spares
<1>2. TombstonesUnlisted(SeriesOf[f[1]]) BY <1>1 DEF Faithful
<1>3. SeriesOf[f[1]] \in Series BY <1>1, DiskFiled DEF InSonarr
<1> QED BY <1>2, <1>3 DEF CalmKept

\* The rows of a series, one by one.
LEMMA ShowsRows ==
  ASSUME Typed, Filed, NEW s \in Series
  PROVE  /\ s \in InSonarr <=> Answer(s) = EpisodesOf(s) /\ library[s] = "in"
         /\ s \notin InSonarr => Answer(s) = {} /\ OnDisk(Answer(s)) = {}
         /\ OnDisk(Answer(s)) = OnDisk(Episodes) \cap FilesOf({s})
<1>1. s \in InSonarr <=> library[s] = "in" BY DEF InSonarr
<1>2. s \in InSonarr => Answer(s) = EpisodesOf(s) BY <1>1 DEF Answer
<1>3. s \notin InSonarr => Answer(s) = {} BY <1>1 DEF Answer
<1>4. OnDisk({}) = {} BY DEF OnDisk
<1>5. CASE s \in InSonarr
  <2>1. \A f \in Files : f[1] \in EpisodesOf(s) <=> SeriesOf[f[1]] = s BY DEF Files, EpisodesOf
  <2>2. \A f \in Files : f[1] \in Episodes BY DEF Files
  <2>3. OnDisk(EpisodesOf(s)) = OnDisk(Episodes) \cap FilesOf({s})
    BY <2>1, <2>2 DEF OnDisk, FilesOf
  <2> QED BY <1>1, <1>2, <1>5, <2>3
<1>6. CASE s \notin InSonarr
  <2>1. OnDisk(Episodes) \cap FilesOf({s}) = {} BY <1>6, DiskFiled DEF FilesOf
  <2> QED BY <1>1, <1>3, <1>4, <1>6, <2>1
<1> QED BY <1>5, <1>6

\* A faithful step leaves the rows of a series that show the library alone.
StillShown ==
  \A s \in Series :
    /\ ShowsTitles(s) => ShowsTitles(s)'
    /\ Shows(s) => ShowsFiles(s)' \/ TombstonesUnlisted(s)

LEMMA ShowsKept ==
  ASSUME Typed, RowsTyped', Filed, Faithful, UNCHANGED <<sonarr, touched>>
  PROVE  StillShown
<1> SUFFICES ASSUME NEW s \in Series, ShowsTitles(s)
             PROVE  /\ ShowsTitles(s)'
                    /\ ShowsFiles(s) => ShowsFiles(s)' \/ TombstonesUnlisted(s)
  BY DEF StillShown, Shows
<1>1. /\ InSonarr' = InSonarr /\ Answer(s)' = Answer(s)
      /\ OnDisk(Answer(s))' = OnDisk(Answer(s))
  BY OursKeep
<1>2. /\ s \in InSonarr => Answer(s) = EpisodesOf(s)
      /\ s \notin InSonarr => Answer(s) = {}
      /\ OnDisk(Answer(s)) = OnDisk(Episodes) \cap FilesOf({s})
  BY ShowsRows
<1>3. s \in series' <=> s \in InSonarr BY DEF ShowsTitles, Faithful
<1>4. \A e : e \in episodes' /\ SeriesOf[e] = s <=> e \in Answer(s)
  <2>1. \A e : e \in episodes /\ SeriesOf[e] = s <=> e \in Answer(s) BY DEF ShowsTitles
  <2>2. CASE s \in InSonarr BY <1>2, <2>1, <2>2 DEF Faithful, EpisodesOf, RowsTyped
  <2>3. CASE s \notin InSonarr BY <1>2, <2>1, <2>3 DEF Faithful
  <2> QED BY <2>2, <2>3
<1>5. ASSUME ShowsFiles(s), ~TombstonesUnlisted(s) PROVE files' \cap FilesOf({s}) = OnDisk(Answer(s))
  <2>1. files \cap FilesOf({s}) = OnDisk(Episodes) \cap FilesOf({s}) BY <1>2, <1>5 DEF ShowsFiles
  <2>2. \A f \in OnDisk(Episodes) \cap FilesOf({s}) : f \in files'
    BY <1>5, <2>1 DEF Faithful, FilesOf
  <2> QED BY <1>2, <2>1, <2>2 DEF Faithful
<1>6. {e \in episodes' : SeriesOf[e] = s} = Answer(s) BY <1>4
<1>7. FilesOf({s})' = FilesOf({s}) BY DEF FilesOf
<1>8. ShowsTitles(s)' BY <1>1, <1>3, <1>6 DEF ShowsTitles
<1>9. ShowsFiles(s) => ShowsFiles(s)' \/ TombstonesUnlisted(s) BY <1>1, <1>5, <1>7 DEF ShowsFiles
<1> QED BY <1>8, <1>9

\* The rows that a list of the whole library leaves, of every series.
LEMMA ListedRows ==
  ASSUME Typed, Filed, UNCHANGED <<sonarr, touched>>, NEW d,
         series' = InSonarr, episodes' = UNION {EpisodesOf(s) : s \in InSonarr},
         files' = d.files, d.files \subseteq OnDisk(Episodes),
         \A s \in InSonarr : OnDisk(EpisodesOf(s)) \subseteq d.files \/ Unlisted(d, s),
         NEW s \in Series
  PROVE  ShowsTitles(s)' /\ (ShowsFiles(s)' \/ Unlisted(d, s))
<1>1. /\ InSonarr' = InSonarr /\ Answer(s)' = Answer(s)
      /\ OnDisk(Answer(s))' = OnDisk(Answer(s))
  BY OursKeep
<1>2. /\ s \in InSonarr => Answer(s) = EpisodesOf(s)
      /\ s \notin InSonarr => Answer(s) = {} /\ OnDisk(Answer(s)) = {}
      /\ OnDisk(Answer(s)) = OnDisk(Episodes) \cap FilesOf({s})
  BY ShowsRows
<1>3. {e \in episodes' : SeriesOf[e] = s} = Answer(s) BY <1>2 DEF EpisodesOf
<1>4. ShowsTitles(s)' BY <1>1, <1>3 DEF ShowsTitles
<1>5. ASSUME ~Unlisted(d, s) PROVE files' \cap FilesOf({s}) = OnDisk(Answer(s))
  <2>1. OnDisk(Answer(s)) \subseteq d.files BY <1>2, <1>5
  <2> QED BY <1>2, <2>1
<1>6. FilesOf({s})' = FilesOf({s}) BY DEF FilesOf
<1>7. ShowsFiles(s)' \/ Unlisted(d, s) BY <1>1, <1>5, <1>6 DEF ShowsFiles
<1> QED BY <1>4, <1>7

\* What a full pass has seen stays current while the library rests, and live.
LEMMA SeenKept ==
  ASSUME Typed, NEW l \in Lanes, SeenCurrent(l), Faithful, Spares, full'[l] = full[l],
         UNCHANGED <<sonarr, touched>>
  PROVE  SeenCurrent(l)'
<1>1. /\ InSonarr' = InSonarr /\ \A s : Answers(s)' = Answers(s)
      /\ \A E : OnDisk(E)' = OnDisk(E)
  BY OursKeep
<1> DEFINE d == full[l].seen
<1>2. d.of \subseteq InSonarr /\ d.of \subseteq series'
  BY DEF SeenCurrent, Live, Faithful
<1>3. d.episodes \subseteq episodes'
  <2>1. \A e \in d.episodes : e \in episodes /\ SeriesOf[e] \in InSonarr
    BY <1>2 DEF SeenCurrent, Live, EpisodesOf
  <2> QED BY <2>1 DEF Faithful
<1>4. d.files \subseteq files'
  <2>1. d.episodes \subseteq Episodes BY DEF SeenCurrent, EpisodesOf
  <2>2. d.files \subseteq OnDisk(Episodes) BY <2>1 DEF SeenCurrent, OnDisk
  <2> QED BY <2>2 DEF SeenCurrent, Live, Spares
<1> QED BY <1>1, <1>2, <1>3, <1>4 DEF SeenCurrent, Live, FullAt, Current, EpisodesOf, Unlisted

\* A pass that is over, or has not begun, has seen nothing.
LEMMA OffCurrent ==
  ASSUME NEW l \in Lanes, full'[l] = FullOff
  PROVE  SeenCurrent(l)'
<1>1. OnDisk({})' = {} BY DEF OnDisk
<1>2. UNION {EpisodesOf(s) : s \in {}} = {} OBVIOUS
<1>3. /\ full'[l].at = "off" /\ full'[l].todo = {} /\ full'[l].chunk = Nothing
      /\ full'[l].seen = Nothing
  BY DEF FullOff
<1>4. Nothing.of = {} /\ Nothing.episodes = {} /\ Nothing.files = {} BY DEF Nothing
<1> QED BY <1>1, <1>2, <1>3, <1>4 DEF SeenCurrent, Live, FullAt

\* The parts of a calm that are not the full passes'.
CalmJobs ==
  /\ \A j \in mail : Harmless(j)
  /\ \A w \in Drains : hook[w].at # "off" =>
       Harmless(hook[w].job) /\ (hook[w].at = "fetched" => Current(hook[w].chunk))
CalmInc ==
  /\ inc.at = "listed" => inc.list \subseteq InSonarr
  /\ inc.at = "missing" => inc.chunk.of \cap InSonarr = {}
  /\ inc.at \in {"present", "fetched", "written"} => inc.chunk.of \subseteq InSonarr
  /\ inc.at \in {"fetched", "written"} => Current(inc.chunk)
  /\ inc.at = "written" => Live(inc.chunk)

LEMMA CalmParts == Calm => CalmJobs /\ CalmInc /\ \A l \in Lanes : SeenCurrent(l)
BY DEF Calm, CalmJobs, CalmInc

LEMMA CalmPartsNext == CalmJobs' /\ CalmInc' /\ (\A l \in Lanes : SeenCurrent(l)') => Calm'
BY DEF Calm, CalmJobs, CalmInc

LEMMA JobsKept ==
  ASSUME CalmJobs, UNCHANGED <<sonarr, touched, hook>>, mail' \subseteq mail
  PROVE  CalmJobs'
<1>1. InSonarr' = InSonarr /\ \A s : Answers(s)' = Answers(s) BY OursKeep
<1> QED BY <1>1 DEF CalmJobs, Harmless, Current

\* A current chunk of the library is the rows of its series, if not the files.
LEMMA CurrentChunk ==
  ASSUME NEW c, Current(c), c.of \subseteq InSonarr
  PROVE  \E s \in InSonarr :
           /\ c.of = {s} /\ c.episodes = EpisodesOf(s)
           /\ c.files = OnDisk(EpisodesOf(s)) \/ c.files = {}
<1>1. PICK s \in c.of : c \in Answers(s) BY DEF Current
<1>2. s \in InSonarr /\ Answer(s) = EpisodesOf(s) BY <1>1 DEF InSonarr, Answer
<1> QED BY <1>1, <1>2, AnswerIs

LEMMA IncKept ==
  ASSUME Typed, CalmInc, Faithful, Spares, UNCHANGED <<sonarr, touched, inc>>
  PROVE  CalmInc'
<1>1. InSonarr' = InSonarr /\ \A s : Answers(s)' = Answers(s) BY OursKeep
<1>2. ASSUME inc.at = "written" PROVE Live(inc.chunk)'
  <2> DEFINE c == inc.chunk
  <2>1. Live(c) /\ Current(c) /\ c.of \subseteq InSonarr BY <1>2 DEF CalmInc
  <2>2. PICK s \in InSonarr :
          /\ c.of = {s} /\ c.episodes = EpisodesOf(s)
          /\ c.files = OnDisk(EpisodesOf(s)) \/ c.files = {}
    BY <2>1, CurrentChunk
  <2>3. \A e \in c.episodes : SeriesOf[e] \in InSonarr BY <2>2 DEF EpisodesOf
  <2>4. c.files \subseteq OnDisk(Episodes) BY <2>2 DEF OnDisk, EpisodesOf
  <2> HIDE DEF c
  <2>5. c.of \subseteq series' /\ c.episodes \subseteq episodes' /\ c.files \subseteq files'
    BY <2>1, <2>3, <2>4 DEF Live, Faithful, Spares
  <2>6. inc'.chunk = c BY DEF c
  <2> QED BY <2>5, <2>6 DEF Live
<1> QED BY <1>1, <1>2 DEF CalmInc, Current

LEMMA OnDiskMonotone == \A E \in SUBSET Episodes : OnDisk(E) \subseteq OnDisk(Episodes)
BY DEF OnDisk

\* Writing it is faithful.
LEMMA WriteFaithful ==
  ASSUME NEW c, Current(c), c.of \subseteq InSonarr, WriteChunk(c)
  PROVE  Faithful /\ Spares
<1>1. PICK s \in InSonarr :
        /\ c.of = {s} /\ c.episodes = EpisodesOf(s)
        /\ c.files = OnDisk(EpisodesOf(s)) \/ c.files = {}
  BY CurrentChunk
<1>2. EpisodesOf(s) \in SUBSET Episodes BY DEF EpisodesOf
<1>3. c.files \subseteq OnDisk(Episodes) BY <1>1, <1>2, OnDiskMonotone
<1>4. \A e \in c.episodes : SeriesOf[e] \in InSonarr BY <1>1 DEF EpisodesOf
<1> QED BY <1>1, <1>3, <1>4 DEF WriteChunk, Faithful, Spares

LEMMA RowsUntouched == UNCHANGED rows => Faithful /\ Spares
BY DEF Faithful, Spares, rows

\* The full pass.
LEMMA CalmFull ==
  ASSUME Typed, Filed, Calm, NEW l \in Lanes, FullStep(l) \/ FullFails(l)
  PROVE  /\ CalmKept /\ StillShown
         /\ FullTombstones(l) /\ full[l].seen.of # {} =>
              \A s \in Series : ShowsTitles(s)' /\ (ShowsFiles(s)' \/ Unlisted(full[l].seen, s))
<1>1. UNCHANGED <<sonarr, touched, mail, inc, hook>> /\ mail' \subseteq mail
  BY DEF FullStep, FullList, FullFetch, FullWrite, FullLoopEnds, FullTombstones, FullFails, bounds,
         history
<1>2. /\ InSonarr' = InSonarr
      /\ \A s : Answer(s)' = Answer(s) /\ Answers(s)' = Answers(s)
      /\ \A E : OnDisk(E)' = OnDisk(E)
  BY <1>1, OursKeep
<1>3. CalmJobs' /\ CalmInc /\ (Faithful /\ Spares => CalmInc') BY <1>1, CalmParts, JobsKept, IncKept
<1>4. /\ full \in [Lanes -> FullStates] /\ full[l] \in FullStates /\ RowsTyped /\ RowsTyped'
      /\ \A k \in Lanes : SeenCurrent(k)
  BY FullTyped, CalmParts DEF Typed, PassesTyped
<1>5. ASSUME NEW p, full' = [full EXCEPT ![l] = p], Faithful, Spares, SeenCurrent(l)'
      PROVE  CalmKept /\ StillShown
  <2>1. \A k \in Lanes \ {l} : SeenCurrent(k)' BY <1>1, <1>4, <1>5, SeenKept
  <2>2. Calm' BY <1>3, <1>5, <2>1, CalmPartsNext
  <2> QED BY <1>1, <1>4, <1>5, <2>2, ShowsKept DEF CalmKept
<1>6. ASSUME full' = [full EXCEPT ![l] = FullOff], Faithful, Spares PROVE CalmKept /\ StillShown
  <2>1. full'[l] = FullOff BY <1>4, <1>6
  <2> QED BY <1>5, <1>6, <2>1, OffCurrent
<1>7. CASE FullList(l)
  <2>1. PICK L \in {InSonarr, {}} :
          full' = [full EXCEPT ![l] = [FullOff EXCEPT !.at = "syncing", !.todo = L]]
    BY <1>7 DEF FullList
  <2> DEFINE p == [FullOff EXCEPT !.at = "syncing", !.todo = L]
  <2>2. full'[l] = p /\ p.at = "syncing" /\ p.todo = L /\ p.chunk = Nothing /\ p.seen = Nothing
    BY <1>4, <2>1 DEF FullOff
  <2>3. Nothing.of = {} /\ Nothing.episodes = {} /\ Nothing.files = {} BY DEF Nothing
  <2>4. OnDisk({})' = {} /\ UNION {EpisodesOf(s) : s \in {}} = {} BY DEF OnDisk
  <2>5. SeenCurrent(l)' BY <1>2, <2>2, <2>3, <2>4 DEF SeenCurrent, Live, FullAt
  <2>6. ~FullTombstones(l) BY <1>7 DEF FullList, FullTombstones
  <2> QED BY <1>5, <1>7, <2>1, <2>5, <2>6, RowsUntouched DEF FullList
<1>8. ASSUME NEW s \in Series, FullFetch(l, s)
      PROVE  CalmKept /\ StillShown /\ ~FullTombstones(l)
  <2>1. PICK c \in Answers(s) : full' = [full EXCEPT ![l].chunk = c] BY <1>8 DEF FullFetch
  <2> DEFINE p == [full[l] EXCEPT !.chunk = c]
  <2>2. full' = [full EXCEPT ![l] = p] BY <1>4, <2>1 DEF FullStates
  <2>3. /\ full'[l] = p /\ p.at = "syncing" /\ p.todo = full[l].todo /\ p.seen = full[l].seen
        /\ p.chunk = c /\ s \in full[l].todo /\ full[l].at = "syncing"
    BY <1>4, <1>8, <2>2 DEF FullFetch, FullStates
  <2>4. c.of = {s} BY AnswersFetched
  <2>5. UNCHANGED <<series, episodes, files>> BY <1>8 DEF FullFetch, rows
  <2>6. SeenCurrent(l) BY <1>4
  <2>7. SeenCurrent(l)' BY <1>2, <2>3, <2>4, <2>5, <2>6 DEF SeenCurrent, Live, FullAt, Current, Unlisted
  <2>8. ~FullTombstones(l) BY <2>3 DEF FullTombstones
  <2> QED BY <1>5, <2>2, <2>5, <2>7, <2>8, RowsUntouched DEF rows
<1>9. CASE FullWrite(l)
  <2> DEFINE c == full[l].chunk
             d == full[l].seen
             seen2 == [of |-> d.of \cup c.of, episodes |-> d.episodes \cup c.episodes,
                       files |-> d.files \cup c.files]
             p == [full[l] EXCEPT !.chunk = Nothing, !.todo = @ \ c.of, !.seen = seen2]
  <2>1. full' = [full EXCEPT ![l] = p] /\ WriteChunk(c) /\ c # Nothing
    BY <1>4, <1>9 DEF FullWrite
  <2>2. SeenCurrent(l) BY <1>4
  <2>3. /\ full'[l] = p /\ p.chunk = Nothing /\ p.todo = full[l].todo \ c.of /\ p.seen = seen2
        /\ p.at = "syncing" /\ full[l].at = "syncing"
    BY <1>4, <2>1, <2>2 DEF FullStates, SeenCurrent, FullAt
  <2>4. Current(c) /\ c.of \subseteq InSonarr /\ c.of \subseteq full[l].todo
    BY <2>1, <2>2 DEF SeenCurrent
  <2>5. PICK s \in InSonarr :
          /\ c.of = {s} /\ c.episodes = EpisodesOf(s)
          /\ c.files = OnDisk(EpisodesOf(s)) \/ c.files = {}
    BY <2>4, CurrentChunk
  <2>6. Faithful /\ Spares BY <2>1, <2>4, WriteFaithful
  <2>7. seen2.episodes = UNION {EpisodesOf(t) : t \in seen2.of}
    BY <2>2, <2>5 DEF SeenCurrent
  <2>8. seen2.files \subseteq OnDisk(seen2.episodes) BY <2>2, <2>5 DEF SeenCurrent, OnDisk
  <2>14. ASSUME NEW t \in seen2.of PROVE OnDisk(EpisodesOf(t)) \subseteq seen2.files \/ Unlisted(seen2, t)
    <3>1. \A f \in c.files : SeriesOf[f[1]] \in c.of BY <2>5 DEF OnDisk, EpisodesOf
    <3>2. \A f \in d.files : SeriesOf[f[1]] \in d.of BY <2>2 DEF SeenCurrent, OnDisk, EpisodesOf
    <3>3. /\ t \in d.of => OnDisk(EpisodesOf(t)) \subseteq d.files \/ Unlisted(d, t)
          /\ t \in c.of => OnDisk(EpisodesOf(t)) \subseteq c.files \/ c.files = {}
      BY <2>2, <2>5 DEF SeenCurrent
    <3>4. seen2.of = d.of \cup c.of /\ seen2.files = d.files \cup c.files OBVIOUS
    <3> HIDE DEF c, d, seen2
    <3> QED BY <2>14, <3>1, <3>2, <3>3, <3>4, SeenGrows
  <2>9. (full[l].todo \ c.of) \cup seen2.of \in {{}, InSonarr}
    BY <2>2, <2>3, <2>4, <2>5 DEF SeenCurrent
  <2>10. /\ seen2.of \subseteq series' /\ seen2.episodes \subseteq episodes'
         /\ seen2.files \subseteq files'
    BY <2>1, <2>2 DEF SeenCurrent, Live, WriteChunk
  <2>11. seen2.of \cup (full[l].todo \ c.of) \subseteq InSonarr /\ Nothing.of = {}
    BY <2>2, <2>4 DEF SeenCurrent, Nothing
  <2>12. SeenCurrent(l)'
    <3> HIDE DEF seen2, p, c, d
    <3>1. \A E : OnDisk(E)' = OnDisk(E) BY <1>2
    <3>2. full'[l] = p /\ p.seen = seen2 BY <2>3
    <3>3. \A t \in seen2.of : OnDisk(EpisodesOf(t)) \subseteq seen2.files \/ Unlisted(seen2, t)
      BY <2>14
    <3>4. (\A t \in full[l].seen.of :
              OnDisk(EpisodesOf(t)) \subseteq full[l].seen.files \/ Unlisted(full[l].seen, t))'
      BY <3>1, <3>2, <3>3 DEF Unlisted
    <3>5. Live(full[l].seen)' BY <2>10, <3>2 DEF Live
    <3>6. /\ (full[l].seen.episodes = UNION {EpisodesOf(t) : t \in full[l].seen.of})'
          /\ (full[l].seen.files \subseteq OnDisk(full[l].seen.episodes))'
      BY <2>7, <2>8, <3>1, <3>2
    <3>7. FullAt(l)' BY <2>3 DEF FullAt
    <3> QED BY <1>2, <2>3, <2>9, <2>11, <3>4, <3>5, <3>6, <3>7 DEF SeenCurrent
  <2>13. ~FullTombstones(l) BY <2>3 DEF FullTombstones
  <2> QED BY <1>5, <2>1, <2>6, <2>12, <2>13
<1>10. CASE FullLoopEnds(l)
  <2>1. UNCHANGED <<series, episodes, files>> /\ full[l].chunk = Nothing /\ full[l].at = "syncing"
    BY <1>10 DEF FullLoopEnds, rows
  <2>2. ~FullTombstones(l) BY <2>1 DEF FullTombstones
  <2>3. CASE ~Complete
    <3>1. full' = [full EXCEPT ![l] = FullOff] BY <1>10, <2>3 DEF FullLoopEnds
    <3> QED BY <1>6, <2>1, <2>2, <3>1, RowsUntouched DEF rows
  <2>4. CASE Complete
    <3> DEFINE p == [full[l] EXCEPT !.at = "tombstones"]
    <3>1. full' = [full EXCEPT ![l] = p] /\ full[l].todo = {}
      BY <1>4, <1>10, <2>4 DEF FullLoopEnds, Complete
    <3>2. full'[l] = p /\ p.at = "tombstones" /\ p.todo = {} /\ p.chunk = Nothing /\ p.seen = full[l].seen
      BY <1>4, <2>1, <3>1 DEF FullStates
    <3>3. SeenCurrent(l) BY <1>4
    <3>4. SeenCurrent(l)' BY <1>2, <2>1, <3>1, <3>2, <3>3 DEF SeenCurrent, Live, FullAt, Unlisted
    <3> QED BY <1>5, <2>1, <2>2, <3>1, <3>4, RowsUntouched DEF rows
  <2> QED BY <2>3, <2>4
<1>11. CASE FullTombstones(l)
  <2> DEFINE d == full[l].seen
  <2>1. full' = [full EXCEPT ![l] = FullOff] BY <1>11 DEF FullTombstones
  <2>2. SeenCurrent(l) /\ full[l].todo = {} /\ full[l].at = "tombstones"
    BY <1>4, <1>11 DEF FullTombstones, SeenCurrent, FullAt
  <2>3. d.of = {} \/ d.of = InSonarr BY <2>2 DEF SeenCurrent
  <2>4. CASE EmptyFetch(d)
    <3>1. UNCHANGED rows BY <1>11, <2>4 DEF FullTombstones
    <3> QED BY <1>6, <2>1, <2>4, <3>1, RowsUntouched DEF EmptyFetch
  <2>5. ASSUME ~EmptyFetch(d)
        PROVE  series' = series \cap d.of /\ episodes' = episodes \cap d.episodes /\ files' = files \cap d.files
    BY <1>11, <2>5 DEF FullTombstones, Tombstone
  <2>6. CASE d.of # {}
    <3>1. series' = series \cap d.of /\ episodes' = episodes \cap d.episodes /\ files' = files \cap d.files
      BY <2>5, <2>6 DEF EmptyFetch
    <3>2. /\ d.of = InSonarr /\ d.episodes = UNION {EpisodesOf(s) : s \in InSonarr}
          /\ d.files \subseteq OnDisk(Episodes)
          /\ d.of \subseteq series /\ d.episodes \subseteq episodes /\ d.files \subseteq files
          /\ \A s \in InSonarr : OnDisk(EpisodesOf(s)) \subseteq d.files \/ Unlisted(d, s)
      BY <2>2, <2>3, <2>6, DiskFiled DEF SeenCurrent, Live
    <3>3. series' = InSonarr /\ episodes' = UNION {EpisodesOf(s) : s \in InSonarr} /\ files' = d.files
      BY <3>1, <3>2
    <3>4. \A s \in Series : ShowsTitles(s)' /\ (ShowsFiles(s)' \/ Unlisted(d, s))
      <4> HIDE DEF d
      <4> QED BY <1>1, <3>2, <3>3, ListedRows
    <3>5. \A e \in episodes : SeriesOf[e] \in InSonarr => e \in episodes'
      BY <1>4, <3>3 DEF EpisodesOf, RowsTyped
    <3>6. \A f \in files \cap OnDisk(Episodes) : f \in files' \/ TombstonesUnlisted(SeriesOf[f[1]])
      <4> SUFFICES ASSUME NEW f \in files \cap OnDisk(Episodes), f \notin d.files
                   PROVE  TombstonesUnlisted(SeriesOf[f[1]])
        BY <3>3
      <4>1. SeriesOf[f[1]] \in InSonarr BY DiskFiled
      <4>2. f \in OnDisk(EpisodesOf(SeriesOf[f[1]])) BY DEF OnDisk, EpisodesOf, Files
      <4>3. Unlisted(d, SeriesOf[f[1]]) BY <3>2, <4>1, <4>2
      <4> QED BY <1>11, <4>3 DEF TombstonesUnlisted
    <3>7. Faithful BY <3>1, <3>2, <3>3, <3>5, <3>6 DEF Faithful
    <3>8. CASE Spares BY <1>6, <2>1, <3>4, <3>7, <3>8
    <3>9. CASE ~Spares BY <1>1, <1>4, <3>4, <3>7, <3>9, SparesOrNot, ShowsKept
    <3> QED BY <3>8, <3>9
  <2>7. CASE d.of = {} /\ ~EmptyFetch(d)
    <3>1. series = {} BY <2>7 DEF EmptyFetch
    <3>2. series' = {} /\ episodes' = {} /\ files' = {}
      <4>1. d.episodes = {} BY <2>2, <2>7 DEF SeenCurrent
      <4>2. d.files = {} BY <2>2, <4>1 DEF SeenCurrent, OnDisk
      <4> QED BY <2>5, <2>7, <3>1, <4>1, <4>2
    <3>3. ASSUME NEW k \in Lanes \ {l} PROVE SeenCurrent(k)'
      <4>1. SeenCurrent(k) /\ full'[k] = full[k] BY <1>4, <2>1
      <4>2. full[k].seen.of = {} BY <3>1, <4>1 DEF SeenCurrent, Live
      <4>3. full[k].seen.episodes = {} BY <4>1, <4>2 DEF SeenCurrent
      <4>4. full[k].seen.files = {} BY <4>1, <4>3 DEF SeenCurrent, OnDisk
      <4> QED BY <1>2, <4>1, <4>2, <4>3, <4>4 DEF SeenCurrent, Live, FullAt, Current, EpisodesOf
    <3>4. SeenCurrent(l)' BY <1>4, <2>1, OffCurrent
    <3>5. CalmInc'
      <4>1. ASSUME inc.at = "written" PROVE FALSE
        <5>1. Current(inc.chunk) /\ Live(inc.chunk) BY <1>3, <4>1 DEF CalmInc
        <5> QED BY <3>1, <5>1 DEF Current, Live
      <4>2. \A c : Current(c)' = Current(c) BY <1>2 DEF Current
      <4> QED BY <1>1, <1>2, <1>3, <4>1, <4>2 DEF CalmInc
    <3>6. Calm' BY <1>3, <3>3, <3>4, <3>5, CalmPartsNext
    <3>7. StillShown
      <4> SUFFICES ASSUME NEW s \in Series, ShowsTitles(s) PROVE ShowsTitles(s)' /\ ShowsFiles(s)'
        BY DEF StillShown, Shows
      <4>1. s \notin InSonarr BY <3>1 DEF ShowsTitles
      <4>2. Answer(s) = {} /\ OnDisk(Answer(s)) = {} BY <4>1, ShowsRows
      <4> QED BY <1>2, <3>2, <4>1, <4>2 DEF ShowsTitles, ShowsFiles
    <3> QED BY <2>7, <3>6, <3>7 DEF CalmKept
  <2> QED BY <2>4, <2>6, <2>7
<1>12. CASE FullFails(l) /\ ~FullTombstones(l) BY <1>6, <1>12, RowsUntouched DEF FullFails
<1> QED BY <1>7, <1>8, <1>9, <1>10, <1>11, <1>12 DEF FullStep

\* A step of the incremental pass or of a job, that is faithful, keeps the calm of the
\* full passes and the mirror.
LEMMA CalmOthers ==
  ASSUME Typed, RowsTyped', Filed, Calm, UNCHANGED <<sonarr, touched, full>>, Faithful, Spares,
         CalmJobs', CalmInc'
  PROVE  CalmKept /\ StillShown
<1>1. \A l \in Lanes : SeenCurrent(l)' BY CalmParts, SeenKept
<1> QED BY <1>1, CalmPartsNext, ShowsKept DEF CalmKept

LEMMA CalmIncStep ==
  ASSUME Typed, Filed, Calm, IncStep \/ IncFails
  PROVE  CalmKept /\ StillShown
<1>1. UNCHANGED <<sonarr, touched, mail, full, hook>> /\ mail' \subseteq mail
  BY DEF IncStep, IncFails, ScopeList, ScopeWrite, HistoryFetch, IncAsk, IncFetch, IncWrite,
         IncReconcile, IncEnds, bounds, history
<1>2. InSonarr' = InSonarr /\ \A s : Answers(s)' = Answers(s) BY <1>1, OursKeep
<1>3. RowsTyped /\ RowsTyped' /\ CalmJobs' /\ CalmInc BY <1>1, IncTyped, CalmParts, JobsKept DEF Typed
<1>4. inc \in IncStates /\ inc.chunk \in Fetched BY DEF Typed, PassesTyped, IncStates
<1>5. ASSUME Faithful, Spares, CalmInc' PROVE CalmKept /\ StillShown
  BY <1>1, <1>3, <1>5, CalmOthers
<1>6. inc'.at \in {"off", "scoped", "ingesting"} => CalmInc' BY DEF CalmInc
<1>7. CASE ScopeList
  <2>1. PICK L \in {InSonarr, {}} : inc' = [IncOff EXCEPT !.at = "listed", !.list = L]
    BY <1>7 DEF ScopeList
  <2>2. inc'.at = "listed" /\ inc'.list \subseteq InSonarr BY <2>1 DEF IncOff
  <2>3. CalmInc' BY <1>2, <2>2 DEF CalmInc
  <2> QED BY <1>5, <1>7, <2>3, RowsUntouched DEF ScopeList
<1>8. CASE ScopeWrite
  <2>1. inc'.at = "scoped" BY <1>8 DEF ScopeWrite, IncOff
  <2>2. Faithful /\ Spares BY <1>3, <1>8 DEF ScopeWrite, CalmInc, Faithful, Spares
  <2> QED BY <1>5, <1>6, <2>1, <2>2
<1>9. CASE HistoryFetch
  <2>1. inc'.at = "ingesting" BY <1>9 DEF HistoryFetch, IncOff
  <2> QED BY <1>5, <1>6, <1>9, <2>1, RowsUntouched DEF HistoryFetch
<1>10. ASSUME NEW s \in Series, IncAsk(s) PROVE CalmKept /\ StillShown
  <2>1. inc'.at = (IF library[s] = "in" THEN "present" ELSE "missing") /\ inc'.chunk.of = {s}
    BY <1>4, <1>10 DEF IncAsk, IncStates, Nothing
  <2>2. s \in InSonarr <=> library[s] = "in" BY DEF InSonarr
  <2>3. CalmInc' BY <1>2, <2>1, <2>2 DEF CalmInc
  <2> QED BY <1>5, <1>10, <2>3, RowsUntouched DEF IncAsk
<1>11. CASE IncFetch
  <2>1. PICK s \in inc.chunk.of : \E c \in Answers(s) :
          inc' = [inc EXCEPT !.at = "fetched", !.chunk = c]
    BY <1>11 DEF IncFetch
  <2>2. PICK c \in Answers(s) : inc' = [inc EXCEPT !.at = "fetched", !.chunk = c] BY <2>1
  <2>3. s \in InSonarr /\ s \in Series BY <1>3, <1>11, <2>1 DEF IncFetch, CalmInc, InSonarr
  <2>4. c.of = {s} BY <2>3, AnswersFetched
  <2>5. inc'.at = "fetched" /\ inc'.chunk = c BY <1>4, <2>2 DEF IncStates
  <2>6. CalmInc' BY <1>2, <2>3, <2>4, <2>5 DEF CalmInc, Current
  <2> QED BY <1>5, <1>11, <2>6, RowsUntouched DEF IncFetch
<1>12. CASE IncWrite
  <2>1. inc'.at = "written" /\ inc'.chunk = inc.chunk /\ inc.at = "fetched"
    BY <1>4, <1>12 DEF IncWrite, IncStates
  <2>2. Live(inc.chunk)'
    BY <1>12, <2>1 DEF IncWrite, WriteChunk, Live
  <2>3. CalmInc' BY <1>2, <1>3, <2>1, <2>2 DEF CalmInc, Current
  <2>4. Faithful /\ Spares BY <1>3, <1>12, <2>1, WriteFaithful DEF IncWrite, CalmInc
  <2> QED BY <1>5, <2>3, <2>4
<1>13. CASE IncReconcile
  <2> DEFINE c == inc.chunk
  <2>1. inc'.at = "ingesting" BY <1>4, <1>13 DEF IncReconcile, IncStates
  <2>2. CASE inc.at = "written"
    <3>1. /\ episodes' = {e \in episodes : SeriesOf[e] \in c.of => e \in c.episodes}
          /\ files' = {f \in files : f[1] \in c.episodes => f \in c.files}
          /\ series' = series
      BY <1>13, <2>2 DEF IncReconcile, ReconcilePresent
    <3>2. PICK s \in InSonarr :
            /\ c.of = {s} /\ c.episodes = EpisodesOf(s)
            /\ c.files = OnDisk(EpisodesOf(s)) \/ c.files = {}
      BY <1>3, <2>2, CurrentChunk DEF CalmInc
    <3>3. \A e \in episodes : e \in episodes' BY <1>3, <3>1, <3>2 DEF EpisodesOf, RowsTyped
    <3>4. \A f \in files \cap OnDisk(Episodes) : f \in files' \/ TombstonesUnlisted(SeriesOf[f[1]])
      <4> SUFFICES ASSUME NEW f \in files \cap OnDisk(Episodes), f[1] \in c.episodes, f \notin c.files
                   PROVE  TombstonesUnlisted(SeriesOf[f[1]])
        BY <3>1
      <4>1. SeriesOf[f[1]] = s BY <3>2 DEF EpisodesOf
      <4>2. f \in OnDisk(EpisodesOf(s)) BY <3>2 DEF OnDisk
      <4>3. Unlisted(c, s) BY <3>2, <4>2 DEF Unlisted
      <4> QED BY <1>13, <2>2, <4>1, <4>3 DEF TombstonesUnlisted
    <3>5. Faithful BY <3>1, <3>3, <3>4 DEF Faithful
    <3>6. CASE Spares BY <1>5, <1>6, <2>1, <3>5, <3>6
    <3>7. CASE ~Spares BY <1>1, <1>3, <3>5, <3>7, SparesOrNot, ShowsKept
    <3> QED BY <3>6, <3>7
  <2>3. CASE inc.at = "missing"
    <3>1. /\ series' = series \ c.of
          /\ episodes' = {e \in episodes : SeriesOf[e] \notin c.of}
          /\ files' = files \ FilesOf(c.of)
      BY <1>13, <2>3 DEF IncReconcile, ReconcileMissing
    <3>2. c.of \cap InSonarr = {} BY <1>3, <2>3 DEF CalmInc
    <3>3. \A f \in files \cap OnDisk(Episodes) : f \in files' BY <3>1, <3>2, DiskFiled DEF FilesOf
    <3>4. Faithful /\ Spares BY <3>1, <3>2, <3>3 DEF Faithful, Spares
    <3> QED BY <1>5, <1>6, <2>1, <3>4
  <2> QED BY <1>13, <2>2, <2>3 DEF IncReconcile
<1>14. CASE IncEnds
  <2>1. inc'.at = "off" BY <1>14 DEF IncEnds, IncOff
  <2> QED BY <1>5, <1>6, <1>14, <2>1, RowsUntouched DEF IncEnds
<1>15. CASE IncFails
  <2>1. inc'.at = "off" BY <1>15 DEF IncFails, IncOff
  <2> QED BY <1>5, <1>6, <1>15, <2>1, RowsUntouched DEF IncFails
<1> QED BY <1>7, <1>8, <1>9, <1>10, <1>11, <1>12, <1>13, <1>14, <1>15 DEF IncStep

\* What the incremental pass reconciles, it repairs: of a series that is there the
\* chunk just written is all that stays, of one that is gone nothing does; but a list
\* without the files leaves none of them.
LEMMA ReconcileRepairs ==
  ASSUME Typed, Filed, Calm, IncReconcile, NEW s \in inc.chunk.of
  PROVE  /\ ShowsTitles(s)'
         /\ ShowsFiles(s)' \/ (inc.at = "written" /\ Unlisted(inc.chunk, s))
<1> DEFINE c == inc.chunk
<1>1. UNCHANGED <<sonarr, touched>> BY DEF IncReconcile
<1>2. CalmInc /\ RowsTyped /\ s \in Series
  BY CalmParts DEF Typed, PassesTyped, IncStates, Fetched
<1>3. /\ InSonarr' = InSonarr /\ Answer(s)' = Answer(s)
      /\ OnDisk(Answer(s))' = OnDisk(Answer(s)) /\ FilesOf({s})' = FilesOf({s})
  BY <1>1, OursKeep DEF FilesOf
<1>4. CASE inc.at = "written"
  <2>1. /\ episodes' = {e \in episodes : SeriesOf[e] \in c.of => e \in c.episodes}
        /\ files' = {f \in files : f[1] \in c.episodes => f \in c.files}
        /\ series' = series
    BY <1>4 DEF IncReconcile, ReconcilePresent
  <2>2. /\ c.of = {s} /\ s \in InSonarr /\ c.episodes = EpisodesOf(s)
        /\ c.files = OnDisk(EpisodesOf(s)) \/ c.files = {}
    BY <1>2, <1>4, CurrentChunk DEF CalmInc
  <2>3. Live(c) BY <1>2, <1>4 DEF CalmInc
  <2>4. Answer(s) = EpisodesOf(s) BY <1>2, <2>2, ShowsRows
  <2>5. {e \in episodes' : SeriesOf[e] = s} = EpisodesOf(s)
    BY <1>2, <2>1, <2>2, <2>3 DEF Live, RowsTyped, EpisodesOf
  <2>6. \A f \in Files : f \in FilesOf({s}) <=> f[1] \in EpisodesOf(s)
    BY DEF Files, FilesOf, EpisodesOf
  <2>7. OnDisk(EpisodesOf(s)) \subseteq FilesOf({s}) BY <2>6 DEF OnDisk
  <2>8. c.files = OnDisk(EpisodesOf(s)) => files' \cap FilesOf({s}) = OnDisk(EpisodesOf(s))
    BY <1>2, <2>1, <2>2, <2>3, <2>6, <2>7 DEF Live, RowsTyped
  <2>9. s \in series' BY <2>1, <2>2, <2>3 DEF Live
  <2>10. c.files = OnDisk(EpisodesOf(s)) \/ Unlisted(c, s) BY <2>2 DEF Unlisted
  <2>11. ShowsTitles(s)' BY <1>3, <2>2, <2>4, <2>5, <2>9 DEF ShowsTitles
  <2>12. c.files = OnDisk(EpisodesOf(s)) => ShowsFiles(s)' BY <1>3, <2>4, <2>8 DEF ShowsFiles
  <2> QED BY <1>4, <2>10, <2>11, <2>12
<1>5. CASE inc.at = "missing"
  <2>1. /\ series' = series \ c.of
        /\ episodes' = {e \in episodes : SeriesOf[e] \notin c.of}
        /\ files' = files \ FilesOf(c.of)
    BY <1>5 DEF IncReconcile, ReconcileMissing
  <2>2. s \notin InSonarr BY <1>2, <1>5 DEF CalmInc
  <2>3. Answer(s) = {} /\ OnDisk(Answer(s)) = {} BY <1>2, <2>2, ShowsRows
  <2>4. files' \cap FilesOf({s}) = {} BY <2>1 DEF FilesOf
  <2> QED BY <1>3, <2>1, <2>2, <2>3, <2>4 DEF ShowsTitles, ShowsFiles
<1> QED BY <1>4, <1>5 DEF IncReconcile

LEMMA CalmHook ==
  ASSUME Typed, SteadyInv, Filed, Calm, NEW w \in Drains, HookStep(w) \/ HookFails(w)
  PROVE  CalmKept /\ StillShown
<1>1. UNCHANGED <<sonarr, touched, full, inc>> /\ mail' \subseteq mail
  BY DEF HookStep, HookFails, HookTake, HookFetch, HookRefresh, HookSeriesDelete,
         HookFileDelete, HookDone, bounds, history
<1>2. /\ InSonarr' = InSonarr /\ (\A s : Answers(s)' = Answers(s)) /\ (\A j : Harmless(j)' = Harmless(j))
      /\ \A c : Current(c)' = Current(c)
  BY <1>1, OursKeep DEF Harmless, Current
<1>3. RowsTyped /\ RowsTyped' /\ CalmJobs /\ CalmInc
  BY <1>1, HookTyped, CalmParts DEF Typed
<1>4. hook \in [Drains -> HookStates] /\ hook[w] \in HookStates BY DEF Typed, PassesTyped
<1>5. ASSUME NEW h, hook' = [hook EXCEPT ![w] = h], Faithful, Spares,
             h.at # "off" => Harmless(h.job) /\ (h.at = "fetched" => Current(h.chunk))
      PROVE  CalmKept /\ StillShown
  <2>1. \A v \in Drains : hook'[v] = IF v = w THEN h ELSE hook[v] BY <1>4, <1>5
  <2>2. CalmJobs' BY <1>1, <1>2, <1>3, <1>5, <2>1 DEF CalmJobs
  <2>3. CalmInc' BY <1>1, <1>3, <1>5, IncKept
  <2> QED BY <1>1, <1>3, <1>5, <2>2, <2>3, CalmOthers
<1>6. hook' = [hook EXCEPT ![w] = HookOff] /\ Faithful /\ Spares => CalmKept /\ StillShown
  BY <1>5 DEF HookOff
<1>7. ASSUME NEW j \in Jobs, HookTake(w, j) PROVE CalmKept /\ StillShown
  <2> DEFINE h == [HookOff EXCEPT !.at = "taken", !.job = j]
  <2>1. hook' = [hook EXCEPT ![w] = h] /\ h.at = "taken" /\ h.job = j BY <1>7 DEF HookTake, HookOff
  <2>2. Harmless(j) BY <1>3, <1>7 DEF HookTake, CalmJobs
  <2> QED BY <1>5, <1>7, <2>1, <2>2, RowsUntouched DEF HookTake
<1>8. CASE HookFetch(w)
  <2>1. PICK c \in Answers(hook[w].job[2]) :
          hook' = [hook EXCEPT ![w].at = "fetched", ![w].chunk = c]
    BY <1>8 DEF HookFetch
  <2> DEFINE h == [hook[w] EXCEPT !.at = "fetched", !.chunk = c]
  <2>2. hook[w].at = "taken" /\ hook[w].job[1] = "refresh" /\ hook[w].job \in Jobs
    BY <1>4, <1>8 DEF HookFetch, HookStates
  <2>3. hook[w].job[2] \in Series BY <2>2 DEF Jobs
  <2>4. hook' = [hook EXCEPT ![w] = h] /\ h.at = "fetched" /\ h.job = hook[w].job /\ h.chunk = c
    BY <1>4, <2>1 DEF HookStates
  <2>5. c.of = {hook[w].job[2]} BY <2>3, AnswersFetched
  <2>6. Current(c) BY <2>5 DEF Current
  <2>7. Harmless(hook[w].job) BY <1>3, <2>2 DEF CalmJobs
  <2> QED BY <1>5, <1>8, <2>4, <2>6, <2>7, RowsUntouched DEF HookFetch
<1>9. CASE HookRefresh(w)
  <2> DEFINE c == hook[w].chunk
  <2>1. /\ episodes' = episodes \cup c.episodes /\ series' = series
        /\ files' = {f \in files : \A g \in c.files : g[1] = f[1] => g = f} \cup c.files
        /\ hook' = [hook EXCEPT ![w] = HookOff]
    BY <1>9 DEF HookRefresh, WriteRefresh, HookDone
  <2>2. PICK s \in c.of : c \in Answers(s) BY <1>3, <1>9 DEF HookRefresh, CalmJobs, Current
  <2>3. c.episodes = Answer(s) /\ c.files \subseteq OnDisk(Answer(s)) BY <2>2, AnswerIs
  <2>4. Answer(s) \in SUBSET Episodes /\ \A e \in Answer(s) : SeriesOf[e] \in InSonarr
    <3>1. CASE library[s] = "in"
      <4>1. s \in Series BY <1>4, <2>2 DEF HookStates, Fetched
      <4> QED BY <3>1, <4>1 DEF Answer, EpisodesOf, InSonarr
    <3>2. CASE library[s] # "in" BY <3>2 DEF Answer
    <3> QED BY <3>1, <3>2
  <2>5. c.files \subseteq OnDisk(Episodes) BY <2>3, <2>4, OnDiskMonotone
  <2>6. \A f \in files \cap OnDisk(Episodes) : f \in files'
    <3> SUFFICES ASSUME NEW f \in files \cap OnDisk(Episodes), NEW g \in c.files, g[1] = f[1]
                 PROVE  g = f
      BY <2>1
    <3>1. g \in Files /\ f \in Files /\ g[2] = disk[g[1]] /\ f[2] = disk[f[1]] BY <2>5 DEF OnDisk
    <3> QED BY <3>1 DEF Files
  <2>7. Faithful /\ Spares BY <2>1, <2>3, <2>4, <2>5, <2>6 DEF Faithful, Spares
  <2> QED BY <1>6, <2>1, <2>7
<1>10. CASE HookSeriesDelete(w)
  <2>1. /\ files' = files \ FilesOf({hook[w].job[2]})
        /\ series' = series \ {hook[w].job[2]} /\ episodes' = episodes
        /\ hook' = [hook EXCEPT ![w] = HookOff]
    BY <1>10 DEF HookSeriesDelete, HookDone
  <2>2. hook[w].job[2] \notin InSonarr
    BY <1>3, <1>10 DEF HookSeriesDelete, CalmJobs, Harmless
  <2>3. \A f \in files \cap OnDisk(Episodes) : f \in files' BY <2>1, <2>2, DiskFiled DEF FilesOf
  <2>4. Faithful /\ Spares BY <2>1, <2>2, <2>3 DEF Faithful, Spares
  <2> QED BY <1>6, <2>1, <2>4
<1>11. CASE HookFileDelete(w)
  <2>1. /\ episodes' = episodes \ {hook[w].job[2]} /\ series' = series /\ files' = files
        /\ hook' = [hook EXCEPT ![w] = HookOff]
    BY <1>11 DEF HookFileDelete, HookDone
  <2>2. SeriesOf[hook[w].job[2]] \notin InSonarr
    BY <1>3, <1>11 DEF HookFileDelete, CalmJobs, Harmless
  <2>3. Faithful /\ Spares BY <2>1, <2>2 DEF Faithful, Spares
  <2> QED BY <1>6, <2>1, <2>3
<1>12. CASE HookFails(w) BY <1>6, <1>12, RowsUntouched DEF HookFails
<1> QED BY <1>7, <1>8, <1>9, <1>10, <1>11, <1>12 DEF HookStep

LEMMA CalmRest ==
  ASSUME Typed, Filed, Calm, Stop \/ Restart \/ UNCHANGED vars
  PROVE  CalmKept /\ StillShown
<1>1. UNCHANGED <<sonarr, touched, rows, mail>> BY DEF Stop, Restart, vars, history
<1>2. Faithful /\ Spares /\ RowsTyped' BY <1>1, RowsUntouched DEF Typed, RowsTyped, rows
<1>3. CASE Stop \/ UNCHANGED vars
  <2>1. UNCHANGED <<full, inc, hook>> BY <1>3 DEF Stop, vars, passes
  <2>2. CalmJobs' /\ CalmInc' BY <1>1, <1>2, <2>1, CalmParts, JobsKept, IncKept
  <2> QED BY <1>1, <1>2, <2>1, <2>2, CalmOthers
<1>4. CASE Restart
  <2>1. full' = [l \in Lanes |-> FullOff] /\ inc' = IncOff /\ hook' = [w \in Drains |-> HookOff]
    BY <1>4 DEF Restart
  <2>2. InSonarr' = InSonarr BY <1>1, OursKeep
  <2>3. CalmJobs' BY <1>1, <2>1, <2>2, CalmParts DEF CalmJobs, Harmless, HookOff
  <2>4. CalmInc' BY <2>1 DEF CalmInc, IncOff
  <2>5. \A l \in Lanes : SeenCurrent(l)' BY <2>1, OffCurrent
  <2> QED BY <1>1, <1>2, <2>3, <2>4, <2>5, CalmPartsNext, ShowsKept DEF CalmKept
<1> QED BY <1>3, <1>4

\* A library that changes does not rest.
LEMMA SonarrChanges == Typed /\ SonarrStep => sonarr' # sonarr
<1> SUFFICES ASSUME Typed, SonarrStep PROVE sonarr' # sonarr OBVIOUS
<1>1. ASSUME NEW s \in Series, AddSeries(s) \/ DeleteSeries(s) PROVE library' # library
  BY <1>1 DEF AddSeries, DeleteSeries, Typed, LibraryTyped
<1>2. ASSUME NEW e \in Episodes, Import(e) PROVE made' # made
  BY <1>2 DEF Import, Typed, LibraryTyped
<1>3. ASSUME NEW e \in Episodes, RemoveFile(e) PROVE disk' # disk
  BY <1>3 DEF RemoveFile, Typed, LibraryTyped
<1> QED BY <1>1, <1>2, <1>3 DEF SonarrStep, sonarr

LEMMA CalmStep ==
  ASSUME Typed, SteadyInv, Filed, [Next]_vars, Calm, UNCHANGED sonarr
  PROVE  CalmKept /\ StillShown
<1>1. ~SonarrStep BY SonarrChanges
<1> QED BY <1>1, CalmFull, CalmIncStep, CalmHook, CalmRest DEF Next

\* While the library rests a calm lasts, a series whose rows show it goes on showing
\* it, and the passes repair: a full pass that saw anything every series
\* (_sync_sonarr_full, mark_tombstones), the incremental pass each one it reconciles
\* (_reconcile_incremental_sonarr), whatever the rows were: the safety that Converges
\* rests on.  Only where list_episodes left the files out are they tombstoned, or not
\* repaired.
THEOREM CalmIsRepaired == Spec => CalmRepairs
<1> DEFINE Repairs == /\ \A l \in Lanes : FullTombstones(l) /\ full[l].seen.of # {} =>
                           \A s \in Series : ShowsTitles(s)' /\ (ShowsFiles(s)' \/ Unlisted(full[l].seen, s))
                      /\ IncReconcile =>
                           \A s \in inc.chunk.of : ShowsTitles(s)' /\ (ShowsFiles(s)' \/ Unlisted(inc.chunk, s))
           Goal == Calm /\ UNCHANGED sonarr => CalmKept /\ StillShown /\ Repairs
<1>1. Typed /\ SteadyInv /\ WatermarkInv /\ [Next]_vars => [Goal]_vars
  <2> SUFFICES ASSUME Typed, SteadyInv, WatermarkInv, [Next]_vars, Calm, UNCHANGED sonarr
               PROVE  CalmKept /\ StillShown /\ Repairs
    OBVIOUS
  <2>1. Filed BY DEF WatermarkInv
  <2>2. CalmKept /\ StillShown BY <2>1, CalmStep
  <2>3. ASSUME NEW l \in Lanes, FullTombstones(l), full[l].seen.of # {}
        PROVE  \A s \in Series : ShowsTitles(s)' /\ (ShowsFiles(s)' \/ Unlisted(full[l].seen, s))
    BY <2>1, <2>3, CalmFull DEF FullStep
  <2>4. ASSUME IncReconcile
        PROVE  \A s \in inc.chunk.of : ShowsTitles(s)' /\ (ShowsFiles(s)' \/ Unlisted(inc.chunk, s))
    BY <2>1, <2>4, ReconcileRepairs
  <2> QED BY <2>2, <2>3, <2>4
<1>2. [Goal]_vars =>
        [Calm /\ UNCHANGED sonarr =>
           /\ Calm' \/ \E s \in Series : TombstonesUnlisted(s)
           /\ \A s \in Series :
                /\ ShowsTitles(s) => ShowsTitles(s)'
                /\ Shows(s) => ShowsFiles(s)' \/ TombstonesUnlisted(s)
           /\ \A l \in Lanes : FullTombstones(l) /\ full[l].seen.of # {} =>
                \A s \in Series : ShowsTitles(s)' /\ (ShowsFiles(s)' \/ Unlisted(full[l].seen, s))
           /\ IncReconcile =>
                \A s \in inc.chunk.of : ShowsTitles(s)' /\ (ShowsFiles(s)' \/ Unlisted(inc.chunk, s))]_vars
  BY DEF StillShown, CalmKept
<1> QED BY <1>1, <1>2, SteadyInvariance, WatermarkInvariance, PTL DEF Spec, CalmRepairs
-----------------------------------------------------------------------------
(* What an incremental pass has repaired by its end.                       *)

Ingesting == inc.at \in {"ingesting", "present", "missing", "fetched", "written"}

\* A series of the history it reads the pass still has to do, or its rows show the
\* library.
DoneOrDue(s) ==
  Ingesting /\ mark # 0 /\ s \in HistorySince(mark) => s \in inc.todo \/ Shows(s)

\* A calm in which an incremental pass reads its history ends with every series of
\* that history shown, also those the pass wrote before a job, another pass or a
\* failed fetch came in between, unless the pass is cut short
\* (_sync_incremental, update_watermark_for_instance); all but the series whose files
\* a pass tombstones meanwhile because its list came without them.
IncrementalRepairs ==
  [][Calm /\ UNCHANGED sonarr =>
       \A s \in Series : DoneOrDue(s) =>
         /\ DoneOrDue(s)' \/ TombstonesUnlisted(s)
         /\ IncEnds /\ mark # 0 /\ ~stopping /\ s \in HistorySince(mark) => Shows(s)']_vars

\* A series shown goes on being shown.
LEMMA ShownOn ==
  ASSUME StillShown, NEW s \in Series, Shows(s)
  PROVE  Shows(s)' \/ TombstonesUnlisted(s)
BY DEF StillShown, Shows

\* Steps that leave the pass where it is in its history, or end it.
LEMMA HistoryKept ==
  ASSUME NEW s \in Series, DoneOrDue(s), StillShown, UNCHANGED <<last, mark>>,
         \/ ~Ingesting'
         \/ Ingesting /\ inc'.todo = inc.todo
  PROVE  DoneOrDue(s)' \/ TombstonesUnlisted(s)
<1> SUFFICES ASSUME Ingesting', mark # 0, (s \in HistorySince(mark))', ~TombstonesUnlisted(s)
             PROVE  s \in inc'.todo \/ Shows(s)'
  BY DEF DoneOrDue
<1>1. s \in HistorySince(mark) BY DEF HistorySince
<1>2. s \in inc.todo \/ Shows(s) BY <1>1 DEF DoneOrDue
<1> QED BY <1>2, ShownOn

\* The steps of the pass itself.
LEMMA HistoryIncStep ==
  ASSUME Typed, Filed, Calm, StillShown, IncStep \/ IncFails, NEW s \in Series, DoneOrDue(s)
  PROVE  /\ DoneOrDue(s)' \/ TombstonesUnlisted(s)
         /\ IncEnds /\ mark # 0 /\ ~stopping /\ s \in HistorySince(mark) => Shows(s)'
<1>1. last' = last
  BY DEF IncStep, IncFails, ScopeList, ScopeWrite, HistoryFetch, IncAsk, IncFetch, IncWrite,
         IncReconcile, IncEnds, sonarr
<1>2. inc \in IncStates BY DEF Typed, PassesTyped
<1>3. CASE (ScopeList \/ ScopeWrite \/ IncFails) /\ ~IncEnds
  <2>1. mark' = mark BY <1>3 DEF ScopeList, ScopeWrite, IncFails
  <2>2. inc'.at \in {"listed", "scoped", "off"}
    <3>1. ScopeList => inc'.at = "listed" BY DEF ScopeList, IncOff
    <3>2. ScopeWrite => inc'.at = "scoped" BY DEF ScopeWrite, IncOff
    <3>3. IncFails => inc'.at = "off" BY DEF IncFails, IncOff
    <3> QED BY <1>3, <3>1, <3>2, <3>3
  <2>3. ~Ingesting' BY <2>2 DEF Ingesting
  <2> QED BY <1>1, <1>3, <2>1, <2>3, HistoryKept
<1>4. CASE HistoryFetch
  <2>1. mark' = mark /\ (mark # 0 => inc'.todo = HistorySince(mark)) /\ ~IncEnds
    BY <1>4 DEF HistoryFetch, IncOff, IncEnds
  <2>2. HistorySince(mark)' = HistorySince(mark) BY <1>1, <2>1 DEF HistorySince
  <2> QED BY <2>1, <2>2 DEF DoneOrDue
<1>5. CASE (\E u \in Series : IncAsk(u)) \/ IncFetch \/ IncWrite
  <2>1. mark' = mark /\ Ingesting /\ inc'.todo = inc.todo /\ inc'.at # "off"
    BY <1>2, <1>5 DEF IncAsk, IncFetch, IncWrite, IncStates, Ingesting
  <2>2. ~IncEnds BY <2>1 DEF IncEnds, IncOff
  <2> QED BY <1>1, <2>1, <2>2, HistoryKept
<1>6. CASE IncReconcile
  <2>1. /\ mark' = mark /\ Ingesting /\ inc'.todo = inc.todo \ inc.chunk.of
        /\ inc'.at = "ingesting"
    BY <1>2, <1>6 DEF IncReconcile, IncStates, Ingesting
  <2>2. s \in inc.chunk.of => Shows(s)' \/ TombstonesUnlisted(s)
    BY <1>6, ReconcileRepairs DEF Shows, TombstonesUnlisted
  <2>3. HistorySince(mark)' = HistorySince(mark) BY <1>1, <2>1 DEF HistorySince
  <2>4. ASSUME mark # 0, s \in HistorySince(mark), ~TombstonesUnlisted(s)
        PROVE  s \in inc'.todo \/ Shows(s)'
    <3>1. s \in inc.todo \/ Shows(s) BY <2>1, <2>4 DEF DoneOrDue
    <3> QED BY <2>1, <2>2, <2>4, <3>1, ShownOn
  <2>5. ~IncEnds BY <2>1 DEF IncEnds, IncOff
  <2> QED BY <2>1, <2>3, <2>4, <2>5 DEF DoneOrDue
<1>7. CASE IncEnds
  <2>1. /\ ~Ingesting' /\ inc.at = "ingesting" /\ (stopping \/ inc.todo = {})
        /\ UNCHANGED <<library, disk, series, episodes, files>>
    BY <1>7 DEF IncEnds, IncOff, Ingesting, sonarr, rows
  <2>2. ASSUME mark # 0, ~stopping, s \in HistorySince(mark) PROVE Shows(s)'
    <3>1. Shows(s) BY <2>1, <2>2 DEF DoneOrDue, Ingesting
    <3>2. InSonarr' = InSonarr /\ Answer(s)' = Answer(s) /\ OnDisk(Answer(s))' = OnDisk(Answer(s))
      BY <2>1 DEF InSonarr, Answer, OnDisk
    <3>3. FilesOf({s})' = FilesOf({s}) BY DEF FilesOf
    <3> QED BY <2>1, <3>1, <3>2, <3>3 DEF Shows, ShowsTitles, ShowsFiles
  <2> QED BY <2>1, <2>2 DEF DoneOrDue
<1> QED BY <1>3, <1>4, <1>5, <1>6, <1>7 DEF IncStep

\* Nobody else moves the pass or its watermark, but a restart that ends it.
LEMMA OthersLeavePass ==
  ASSUME [Next]_vars, ~SonarrStep, ~(IncStep \/ IncFails)
  PROVE  mark' = mark /\ (inc' = inc \/ inc' = IncOff)
<1>1. ASSUME NEW l \in Lanes, FullStep(l) \/ FullFails(l) PROVE UNCHANGED <<mark, inc>>
  BY <1>1 DEF FullStep, FullList, FullFetch, FullWrite, FullLoopEnds, FullTombstones, FullFails
<1>2. ASSUME NEW w \in Drains, HookStep(w) \/ HookFails(w) PROVE UNCHANGED <<mark, inc>>
  BY <1>2 DEF HookStep, HookFails, HookTake, HookFetch, HookRefresh, HookSeriesDelete,
              HookFileDelete, HookDone
<1>3. Stop \/ Restart \/ UNCHANGED vars => mark' = mark /\ (inc' = inc \/ inc' = IncOff)
  BY DEF Stop, Restart, vars, passes
<1> QED BY <1>1, <1>2, <1>3 DEF Next

\* An uninterrupted incremental pass in a calm repairs every series of its history
\* that no pass is denied the files of.
THEOREM IncrementalPassRepairs == Spec => IncrementalRepairs
<1> DEFINE Repaired(s) ==
             /\ DoneOrDue(s)' \/ TombstonesUnlisted(s)
             /\ IncEnds /\ mark # 0 /\ ~stopping /\ s \in HistorySince(mark) => Shows(s)'
           Goal == Calm /\ UNCHANGED sonarr => \A s \in Series : DoneOrDue(s) => Repaired(s)
<1>1. Typed /\ SteadyInv /\ WatermarkInv /\ [Next]_vars => [Goal]_vars
  <2> SUFFICES ASSUME Typed, SteadyInv, WatermarkInv, [Next]_vars, Calm, UNCHANGED sonarr,
                      NEW s \in Series, DoneOrDue(s)
               PROVE  Repaired(s)
    OBVIOUS
  <2>1. Filed BY DEF WatermarkInv
  <2>2. StillShown BY <2>1, CalmStep
  <2>3. CASE IncStep \/ IncFails BY <2>1, <2>2, <2>3, HistoryIncStep
  <2>4. CASE ~(IncStep \/ IncFails)
    <3>1. last' = last BY DEF sonarr
    <3>2. mark' = mark /\ (inc' = inc \/ inc' = IncOff) BY <2>4, OthersLeavePass, SonarrChanges
    <3>3. ~IncEnds BY <2>4 DEF IncStep
    <3>4. ~Ingesting' \/ (Ingesting /\ inc'.todo = inc.todo) BY <3>2 DEF Ingesting, IncOff
    <3>5. DoneOrDue(s)' \/ TombstonesUnlisted(s) BY <2>2, <3>1, <3>2, <3>4, HistoryKept
    <3> QED BY <3>3, <3>5
  <2> QED BY <2>3, <2>4
<1>2. [Goal]_vars =>
        [Calm /\ UNCHANGED sonarr =>
           \A s \in Series : DoneOrDue(s) =>
             /\ DoneOrDue(s)' \/ TombstonesUnlisted(s)
             /\ IncEnds /\ mark # 0 /\ ~stopping /\ s \in HistorySince(mark) => Shows(s)']_vars
  OBVIOUS
<1> QED BY <1>1, <1>2, SteadyInvariance, WatermarkInvariance, PTL DEF Spec, IncrementalRepairs
==============================================================================
