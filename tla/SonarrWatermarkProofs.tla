------------------------ MODULE SonarrWatermarkProofs ------------------------
(***************************************************************************)
(* Proof that the incremental pass never moves its watermark past a change *)
(* that no pass has written, unless its own list of the series came        *)
(* without the files, nor back.                                            *)
(***************************************************************************)
EXTENDS SonarrWarehouse, TLAPS

\* What the invariant is about.
watched == <<library, disk, made, clock, last, mark, inc, owed, blind>>

LEMMA AnswersFetched ==
  ASSUME NEW s \in Series, NEW c \in Answers(s)
  PROVE  c \in Fetched /\ c.of = {s}
<1>1. Answer(s) \in SUBSET Episodes BY DEF Answer, EpisodesOf
<1>2. OnDisk(Answer(s)) \in SUBSET Files BY DEF OnDisk
<1>3. PICK F \in SUBSET Files : c = [of |-> {s}, episodes |-> Answer(s), files |-> F]
  BY <1>2 DEF Answers, Whole, Bare
<1> QED BY <1>1, <1>3 DEF Fetched

LEMMA InitWatermark == Init => WatermarkInv
<1> SUFFICES ASSUME Init PROVE WatermarkInv OBVIOUS
<1>1. Dated BY DEF Init, Dated, IncOff, Nothing, IncStages, Fetched
<1>2. Filed
  <2>1. \A e \in Episodes : disk[e] # 0 => library[SeriesOf[e]] = "in" BY DEF Init
  <2> QED BY <2>1, WarehouseAssumption DEF Init, Filed
<1>3. IngestCovers /\ ChunkCurrent /\ WatermarkCovers
  BY DEF Init, IngestCovers, ChunkCurrent, WatermarkCovers
<1> QED BY <1>1, <1>2, <1>3 DEF WatermarkInv

LEMMA WatchedStep ==
  ASSUME WatermarkInv, UNCHANGED watched
  PROVE  WatermarkInv'
<1>1. Dated' BY DEF WatermarkInv, Dated, watched
<1>2. Filed' BY DEF WatermarkInv, Filed, InSonarr, watched
<1>3. IngestCovers' BY DEF WatermarkInv, IngestCovers, watched
<1>4. ChunkCurrent'
  BY DEF WatermarkInv, ChunkCurrent, Whole, Answer, OnDisk, watched
<1>5. WatermarkCovers' BY DEF WatermarkInv, WatermarkCovers, HistorySince, watched
<1> QED BY <1>1, <1>2, <1>3, <1>4, <1>5 DEF WatermarkInv

\* What a change does to the dates and to the other series' answers.
LEMMA ChangeDates ==
  ASSUME Dated, NEW s \in Series, NEW J, Change(s, J)
  PROVE  /\ clock' \in Nat \ {0} /\ clock <= clock'
         /\ UNCHANGED <<mark, inc>>
BY DEF Dated, Change, passes

\* The history records the change, so it is owed and dated by the present.
LEMMA RecordedStep ==
  ASSUME WatermarkInv, NEW e \in Episodes, NEW J,
         library[SeriesOf[e]] = "in", UNCHANGED library,
         NEW n \in 0 .. MaxFile, disk' = [disk EXCEPT ![e] = n],
         made' \in [Episodes -> 0 .. MaxFile],
         Change(SeriesOf[e], J), Recorded(SeriesOf[e])
  PROVE  WatermarkInv'
<1> DEFINE s == SeriesOf[e]
<1>0. s \in Series BY WarehouseAssumption
<1>1. clock' \in Nat \ {0} /\ clock <= clock' /\ UNCHANGED <<mark, inc>>
  BY <1>0, ChangeDates DEF WatermarkInv
<1>2. last' = [last EXCEPT ![s] = clock'] /\ owed' = owed \cup {s} /\ blind' = blind \ {s}
  BY DEF Recorded
<1>3. Dated' BY <1>0, <1>1, <1>2 DEF WatermarkInv, Dated
<1>4. Filed'
  <2>1. library' \in [Series -> {"new", "in", "gone"}] /\ disk' \in [Episodes -> 0 .. MaxFile]
    BY DEF WatermarkInv, Filed
  <2>2. \A d \in Episodes : disk'[d] # 0 => library'[SeriesOf[d]] = "in"
    <3> TAKE d \in Episodes
    <3>1. CASE d = e BY <3>1
    <3>2. CASE d # e BY <3>2 DEF WatermarkInv, Filed
    <3> QED BY <3>1, <3>2
  <2>3. \A t \in owed' : t \in Series /\ library'[t] = "in" /\ last'[t] # 0
    <3> TAKE t \in owed'
    <3>1. CASE t = s BY <3>1, <1>0, <1>1, <1>2 DEF WatermarkInv, Dated
    <3>2. CASE t # s BY <3>2, <1>2 DEF WatermarkInv, Filed, Dated, InSonarr
    <3> QED BY <3>1, <3>2
  <2> QED BY <2>1, <2>2, <2>3 DEF Filed, InSonarr
<1>5. IngestCovers' BY <1>0, <1>1, <1>2 DEF WatermarkInv, IngestCovers, Dated
<1>6. ChunkCurrent'
  <2> SUFFICES ASSUME inc.at \in {"missing", "fetched", "written"},
                      NEW t \in (owed' \cap inc.chunk.of) \ blind'
               PROVE  inc.chunk = Whole(t)' \/ last'[t] >= inc.latest
    BY <1>1 DEF ChunkCurrent
  <2>1. CASE t = s BY <2>1, <1>0, <1>1, <1>2 DEF WatermarkInv, Dated
  <2>2. CASE t # s
    <3>1. t \in owed \ blind /\ last'[t] = last[t] BY <2>2, <1>2 DEF WatermarkInv, Dated
    <3>2. Whole(t)' = Whole(t)
      <4>1. OnDisk(Answer(t))' = OnDisk(Answer(t))
        BY <2>2 DEF OnDisk, Answer, EpisodesOf, Files, WatermarkInv, Filed
      <4> QED BY <4>1 DEF Whole, Answer
    <3> QED BY <3>1, <3>2 DEF WatermarkInv, ChunkCurrent
  <2> QED BY <2>1, <2>2
<1>7. WatermarkCovers'
  BY <1>0, <1>1, <1>2 DEF WatermarkInv, WatermarkCovers, HistorySince, Dated
<1> QED BY <1>3, <1>4, <1>5, <1>6, <1>7 DEF WatermarkInv

\* A series is added or deleted: it owes nothing.
LEMMA SeriesStep ==
  ASSUME WatermarkInv, NEW s \in Series, AddSeries(s) \/ DeleteSeries(s)
  PROVE  WatermarkInv'
<1>1. clock' \in Nat \ {0} /\ clock <= clock' /\ UNCHANGED <<mark, inc>>
  BY ChangeDates DEF WatermarkInv, AddSeries, DeleteSeries
<1>2. owed' \subseteq owed \ {s}
  BY DEF WatermarkInv, Filed, InSonarr, AddSeries, DeleteSeries
<1>0. owed' \ blind' \subseteq (owed \ blind) \ {s}
  BY <1>2 DEF WatermarkInv, Filed, InSonarr, AddSeries, DeleteSeries
<1>3. last' \in [Series -> Nat] /\ \A t \in Series : last'[t] <= last[t] /\ (t # s => last'[t] = last[t])
  BY DEF WatermarkInv, Dated, AddSeries, DeleteSeries
<1>4. Dated' BY <1>1, <1>3 DEF WatermarkInv, Dated
<1>5. library' \in [Series -> {"new", "in", "gone"}] /\ \A t \in Series \ {s} : library'[t] = library[t]
  BY DEF WatermarkInv, Filed, AddSeries, DeleteSeries
<1>6. disk' \in [Episodes -> 0 .. MaxFile] /\ \A e \in Episodes : SeriesOf[e] # s => disk'[e] = disk[e]
  BY WarehouseAssumption DEF WatermarkInv, Filed, AddSeries, DeleteSeries
<1>7. Filed'
  <2>0. UNCHANGED made BY DEF AddSeries, DeleteSeries
  <2>1. \A e \in Episodes : disk'[e] # 0 => library'[SeriesOf[e]] = "in"
    BY WarehouseAssumption DEF WatermarkInv, Filed, AddSeries, DeleteSeries
  <2>2. owed' \subseteq {t \in InSonarr' : last'[t] # 0}
    BY <1>2, <1>3, <1>5 DEF WatermarkInv, Filed, InSonarr
  <2> QED BY <1>5, <1>6, <2>0, <2>1, <2>2 DEF WatermarkInv, Filed
<1>8. IngestCovers'
  BY <1>0, <1>1, <1>2, <1>3 DEF WatermarkInv, Filed, InSonarr, IngestCovers
<1>9. ChunkCurrent'
  <2> SUFFICES ASSUME inc.at \in {"missing", "fetched", "written"},
                      NEW t \in (owed' \cap inc.chunk.of) \ blind'
               PROVE  inc.chunk = Whole(t)' \/ last'[t] >= inc.latest
    BY <1>1 DEF ChunkCurrent
  <2>1. t \in owed \ blind /\ t \in Series /\ t # s /\ last'[t] = last[t]
    BY <1>0, <1>2, <1>3 DEF WatermarkInv, Filed, InSonarr
  <2>2. Answer(t)' = Answer(t) BY <2>1, <1>5 DEF Answer
  <2>3. \A e \in Answer(t) : e \in Episodes /\ SeriesOf[e] # s
    BY <2>1 DEF Answer, EpisodesOf
  <2>4. OnDisk(Answer(t))' = OnDisk(Answer(t)) BY <2>2, <2>3, <1>6 DEF OnDisk, Files
  <2>5. Whole(t)' = Whole(t) BY <2>2, <2>4 DEF Whole
  <2> QED BY <2>1, <2>5 DEF WatermarkInv, ChunkCurrent
<1>10. WatermarkCovers'
  BY <1>0, <1>1, <1>2, <1>3, <1>7 DEF WatermarkInv, WatermarkCovers, HistorySince, Filed, InSonarr
<1> QED BY <1>4, <1>7, <1>8, <1>9, <1>10 DEF WatermarkInv

\* HistoryFetch finds every series that is owed something, or forgives it all.
LEMMA HistoryStep ==
  ASSUME WatermarkInv, HistoryFetch
  PROVE  WatermarkInv'
<1>1. PICK latest \in {0} \cup {last[s] : s \in HistorySince(mark)} :
        inc' = [IncOff EXCEPT !.at = "ingesting",
                              !.todo = IF mark = 0 THEN {} ELSE HistorySince(mark),
                              !.latest = latest]
  BY DEF HistoryFetch
<1>2. latest \in Nat /\ latest <= clock BY DEF WatermarkInv, Dated, HistorySince
<1>3. HistorySince(mark) \in SUBSET Series BY DEF HistorySince
<1>4. /\ inc'.at = "ingesting" /\ inc'.latest = latest
      /\ inc'.todo = IF mark = 0 THEN {} ELSE HistorySince(mark)
  BY <1>1 DEF IncOff
<1>5. /\ UNCHANGED <<library, disk, made, clock, last, mark, blind>>
      /\ owed' = IF mark = 0 THEN {} ELSE owed
  BY DEF HistoryFetch, sonarr
<1>6. Dated'
  <2>1. inc' \in [at : IncStages, list : SUBSET Series, todo : SUBSET Series, latest : Nat, chunk : Fetched]
    BY <1>1, <1>2, <1>3 DEF IncOff, IncStages, Nothing, Fetched
  <2> QED BY <2>1, <1>2, <1>4, <1>5 DEF WatermarkInv, Dated
<1>7. Filed' BY <1>5 DEF WatermarkInv, Filed, InSonarr
<1>8. IngestCovers' BY <1>4, <1>5 DEF WatermarkInv, WatermarkCovers, IngestCovers
<1>9. ChunkCurrent' BY <1>4 DEF ChunkCurrent
<1>10. WatermarkCovers' BY <1>5 DEF WatermarkInv, WatermarkCovers, HistorySince
<1> QED BY <1>6, <1>7, <1>8, <1>9, <1>10 DEF WatermarkInv

\* The other steps of the pass, one at a time.
LEMMA IngestStep ==
  ASSUME WatermarkInv,
         \/ ScopeList \/ ScopeWrite \/ (\E s \in Series : IncAsk(s))
         \/ IncFetch \/ IncWrite \/ IncReconcile \/ IncEnds \/ IncFails
  PROVE  WatermarkInv'
<1> DEFINE Incs == [at : IncStages, list : SUBSET Series, todo : SUBSET Series, latest : Nat, chunk : Fetched]
<1>1. UNCHANGED <<library, disk, made, clock, last>>
  BY DEF ScopeList, ScopeWrite, IncAsk, IncFetch, IncWrite, IncReconcile, IncEnds, IncFails, sonarr
<1>2. \A s \in Series : Whole(s)' = Whole(s) BY <1>1 DEF Whole, Answer, OnDisk
<1>3. owed' \subseteq owed /\ blind \subseteq blind'
  BY DEF ScopeList, ScopeWrite, IncAsk, IncFetch, IncWrite, IncReconcile, IncEnds, IncFails, history
<1>4. Filed' BY <1>1, <1>3 DEF WatermarkInv, Filed, InSonarr
<1>5. inc \in Incs /\ inc.latest <= clock /\ owed \subseteq Series
  BY DEF WatermarkInv, Dated, Filed, InSonarr
<1>6. CASE \/ ScopeList \/ ScopeWrite \/ IncFails
  <2>1. /\ inc' \in Incs /\ inc'.latest = 0 /\ inc'.at \in {"off", "listed", "scoped"}
        /\ UNCHANGED mark
    <3>1. CASE ScopeList
      <4>1. PICK L \in {InSonarr, {}} : inc' = [IncOff EXCEPT !.at = "listed", !.list = L]
        BY <3>1 DEF ScopeList
      <4>2. L \in SUBSET Series BY DEF InSonarr
      <4>3. UNCHANGED mark BY <3>1 DEF ScopeList
      <4> QED BY <4>1, <4>2, <4>3 DEF IncOff, IncStages, Nothing, Fetched
    <3>2. CASE ScopeWrite BY <3>2 DEF ScopeWrite, IncOff, IncStages, Nothing, Fetched
    <3>3. CASE IncFails BY <3>3 DEF IncFails, IncOff, IncStages, Nothing, Fetched
    <3> QED BY <1>6, <3>1, <3>2, <3>3
  <2>2. Dated' BY <2>1, <1>1 DEF WatermarkInv, Dated
  <2>3. IngestCovers' /\ ChunkCurrent' BY <2>1 DEF IngestCovers, ChunkCurrent
  <2>4. WatermarkCovers'
    BY <2>1, <1>1, <1>3 DEF WatermarkInv, WatermarkCovers, HistorySince
  <2> QED BY <2>2, <2>3, <2>4, <1>4 DEF WatermarkInv
<1>7. CASE IncEnds
  <2>1. inc' = IncOff /\ UNCHANGED <<owed, blind>> /\ mark' \in {mark, inc.latest}
    BY <1>7 DEF IncEnds, history
  <2>2. Dated'
    BY <2>1, <1>1, <1>5 DEF WatermarkInv, Dated, IncOff, IncStages, Nothing, Fetched
  <2>3. IngestCovers' /\ ChunkCurrent' BY <2>1 DEF IngestCovers, ChunkCurrent, IncOff
  <2>4. WatermarkCovers'
    <3>1. CASE mark' = mark
      BY <3>1, <2>1, <1>1 DEF WatermarkInv, WatermarkCovers, HistorySince
    <3>2. CASE Advance /\ mark' = inc.latest
      <4>1. inc.at = "ingesting" /\ inc.todo = {} BY <3>2, <1>7 DEF IncEnds, Advance
      <4>2. \A s \in owed \ blind : last[s] >= inc.latest
        BY <4>1 DEF WatermarkInv, IngestCovers
      <4>3. \A s \in owed : s \in Series /\ last[s] # 0
        BY DEF WatermarkInv, Filed, InSonarr
      <4> QED BY <4>2, <4>3, <3>2, <2>1, <1>1 DEF WatermarkCovers, HistorySince
    <3> QED BY <3>1, <3>2, <1>7 DEF IncEnds
  <2> QED BY <2>2, <2>3, <2>4, <1>4 DEF WatermarkInv
<1>8. ASSUME UNCHANGED mark, inc' \in Incs, inc'.latest = inc.latest
      PROVE  Dated' /\ WatermarkCovers'
  <2>1. Dated' BY <1>8, <1>1 DEF WatermarkInv, Dated
  <2>2. WatermarkCovers'
    BY <1>8, <1>1, <1>3 DEF WatermarkInv, WatermarkCovers, HistorySince
  <2> QED BY <2>1, <2>2
<1>9. ASSUME NEW s \in Series, IncAsk(s) PROVE WatermarkInv'
  <2>1. /\ inc' \in Incs /\ inc'.latest = inc.latest /\ inc'.todo = inc.todo
        /\ inc'.at = (IF library[s] = "in" THEN "present" ELSE "missing")
        /\ inc'.chunk = [Nothing EXCEPT !.of = {s}]
    BY <1>5, <1>9 DEF IncAsk, IncStages, Nothing, Fetched
  <2>2. UNCHANGED <<mark, owed, blind>> /\ inc.at = "ingesting" BY <1>9 DEF IncAsk, history
  <2>3. Dated' /\ WatermarkCovers' BY <1>8, <2>1, <2>2
  <2>4. IngestCovers' BY <2>1, <2>2, <1>1 DEF WatermarkInv, IngestCovers
  <2>5. ChunkCurrent'
    <3>1. inc'.chunk.of = {s} BY <2>1 DEF Nothing
    <3>2. s \in owed => library[s] = "in" BY DEF WatermarkInv, Filed, InSonarr
    <3> QED BY <3>1, <3>2, <2>1, <2>2 DEF ChunkCurrent
  <2> QED BY <2>3, <2>4, <2>5, <1>4 DEF WatermarkInv
<1>10. CASE IncFetch
  <2>1. PICK s \in inc.chunk.of : \E c \in Answers(s) :
          /\ inc' = [inc EXCEPT !.at = "fetched", !.chunk = c]
          /\ blind' = IF c = Whole(s) THEN blind ELSE blind \cup {s}
    BY <1>10 DEF IncFetch
  <2>10. PICK c \in Answers(s) : /\ inc' = [inc EXCEPT !.at = "fetched", !.chunk = c]
                                 /\ s \notin blind' => c = Whole(s)
    BY <2>1
  <2>2. s \in Series BY <2>1, <1>5 DEF Fetched
  <2>3. c \in Fetched /\ c.of = {s} BY <2>2, AnswersFetched
  <2>4. /\ inc' \in Incs /\ inc'.latest = inc.latest /\ inc'.todo = inc.todo
        /\ inc'.at = "fetched" /\ inc'.chunk = c
    BY <1>5, <2>10, <2>3 DEF IncStages
  <2>5. UNCHANGED <<mark, owed>> /\ inc.at = "present" BY <1>10 DEF IncFetch
  <2>6. Dated' /\ WatermarkCovers' BY <1>8, <2>4, <2>5
  <2>7. IngestCovers' BY <2>4, <2>5, <1>1, <1>3 DEF WatermarkInv, IngestCovers
  <2>8. ChunkCurrent' BY <2>10, <2>2, <2>3, <2>4, <1>2 DEF ChunkCurrent
  <2> QED BY <2>6, <2>7, <2>8, <1>4 DEF WatermarkInv
<1>11. CASE IncWrite
  <2>1. /\ inc' \in Incs /\ inc'.latest = inc.latest /\ inc'.todo = inc.todo
        /\ inc'.at = "written" /\ inc'.chunk = inc.chunk
    BY <1>5, <1>11 DEF IncWrite, IncStages
  <2>2. UNCHANGED <<mark, owed, blind>> /\ inc.at = "fetched" BY <1>11 DEF IncWrite, history
  <2>3. Dated' /\ WatermarkCovers' BY <1>8, <2>1, <2>2
  <2>4. IngestCovers' BY <2>1, <2>2, <1>1 DEF WatermarkInv, IngestCovers
  <2>5. ChunkCurrent' BY <2>1, <2>2, <1>1, <1>2, <1>5 DEF WatermarkInv, ChunkCurrent
  <2> QED BY <2>3, <2>4, <2>5, <1>4 DEF WatermarkInv
<1>12. CASE IncReconcile
  <2>1. /\ inc' \in Incs /\ inc'.latest = inc.latest /\ inc'.todo = inc.todo \ inc.chunk.of
        /\ inc'.at = "ingesting"
    BY <1>5, <1>12 DEF IncReconcile, IncStages, Nothing, Fetched
  <2>2. UNCHANGED <<mark, blind>> /\ inc.at \in {"written", "missing"} BY <1>12 DEF IncReconcile
  <2>3. owed' = {s \in owed : inc.chunk # Whole(s)} BY <1>12 DEF IncReconcile
  <2>4. Dated' /\ WatermarkCovers' BY <1>8, <2>1, <2>2
  <2>5. IngestCovers'
    <3> SUFFICES ASSUME NEW s \in owed' \ blind PROVE s \in inc'.todo \/ last[s] >= inc.latest
      BY <2>1, <2>2, <1>1 DEF IngestCovers
    <3>1. s \in owed /\ (s \in inc.todo \/ last[s] >= inc.latest)
      BY <2>2, <2>3 DEF WatermarkInv, IngestCovers
    <3>2. s \in inc.chunk.of => last[s] >= inc.latest
      BY <2>2, <2>3 DEF WatermarkInv, ChunkCurrent
    <3> QED BY <3>1, <3>2, <2>1
  <2>6. ChunkCurrent' BY <2>1 DEF ChunkCurrent
  <2> QED BY <2>4, <2>5, <2>6, <1>4 DEF WatermarkInv
<1> QED BY <1>6, <1>7, <1>9, <1>10, <1>11, <1>12

LEMMA RestartStep ==
  ASSUME WatermarkInv, Restart
  PROVE  WatermarkInv'
<1>1. inc' = IncOff /\ UNCHANGED <<library, disk, made, clock, last, mark, owed, blind>>
  BY DEF Restart, sonarr, history
<1>2. Dated' BY <1>1 DEF WatermarkInv, Dated, IncOff, IncStages, Nothing, Fetched
<1>3. Filed' BY <1>1 DEF WatermarkInv, Filed, InSonarr
<1>4. IngestCovers' /\ ChunkCurrent' BY <1>1 DEF IngestCovers, ChunkCurrent, IncOff
<1>5. WatermarkCovers' BY <1>1 DEF WatermarkInv, WatermarkCovers, HistorySince
<1> QED BY <1>2, <1>3, <1>4, <1>5 DEF WatermarkInv

LEMMA NextWatermark ==
  ASSUME WatermarkInv, [Next]_vars
  PROVE  WatermarkInv'
<1>1. CASE SonarrStep
  <2>1. ASSUME NEW e \in Episodes, Import(e) PROVE WatermarkInv'
    <3>1. made' \in [Episodes -> 0 .. MaxFile] /\ made'[e] \in 0 .. MaxFile
      BY <2>1, WarehouseAssumption DEF Import, WatermarkInv, Filed
    <3> QED BY <2>1, <3>1, RecordedStep DEF Import
  <2>2. ASSUME NEW e \in Episodes, RemoveFile(e) PROVE WatermarkInv'
    <3>1. library[SeriesOf[e]] = "in" BY <2>2 DEF RemoveFile, WatermarkInv, Filed
    <3>2. made' \in [Episodes -> 0 .. MaxFile] BY <2>2 DEF RemoveFile, WatermarkInv, Filed
    <3>3. 0 \in 0 .. MaxFile BY WarehouseAssumption
    <3>4. /\ disk' = [disk EXCEPT ![e] = 0] /\ UNCHANGED library
          /\ Change(SeriesOf[e], {<<"file_delete", e>>}) /\ Recorded(SeriesOf[e])
      BY <2>2 DEF RemoveFile
    <3> QED BY <3>1, <3>2, <3>3, <3>4, RecordedStep
  <2> QED BY <1>1, <2>1, <2>2, SeriesStep DEF SonarrStep
<1>2. ASSUME NEW l \in Lanes, FullStep(l) \/ FullFails(l) PROVE WatermarkInv'
  BY <1>2, WatchedStep DEF FullStep, FullList, FullFetch, FullWrite, FullLoopEnds, FullTombstones,
    FullFails, watched, sonarr, history
<1>3. CASE IncStep \/ IncFails BY <1>3, HistoryStep, IngestStep DEF IncStep
<1>4. ASSUME NEW w \in Drains, HookStep(w) \/ HookFails(w) PROVE WatermarkInv'
  BY <1>4, WatchedStep DEF HookStep, HookTake, HookFetch, HookRefresh, HookSeriesDelete,
    HookFileDelete, HookDone, HookFails, watched, sonarr, history
<1>5. CASE Stop BY <1>5, WatchedStep DEF Stop, watched, sonarr, passes, history
<1>6. CASE Restart BY <1>6, RestartStep
<1>7. CASE UNCHANGED vars BY <1>7, WatchedStep DEF vars, watched, sonarr, passes, history
<1> QED BY <1>1, <1>2, <1>3, <1>4, <1>5, <1>6, <1>7 DEF Next

\* The strengthening holds throughout.
THEOREM WatermarkInvariance == Spec => []WatermarkInv
<1>1. Init => WatermarkInv BY InitWatermark
<1>2. WatermarkInv /\ [Next]_vars => WatermarkInv' BY NextWatermark
<1> QED BY <1>1, <1>2, PTL DEF Spec

\* _sync_incremental does not move the watermark past a change no pass has written,
\* whatever the library does meanwhile and however the pass ends, but one of a series
\* that list_episodes answered it without the files after the change.
THEOREM WatermarkIsCovered == Spec => []WatermarkCovers
<1>1. WatermarkInv => WatermarkCovers BY DEF WatermarkInv
<1> QED BY <1>1, WatermarkInvariance, PTL

\* What a pass found is of the watermark's time or later.
Ahead == inc.latest = 0 \/ mark <= inc.latest

LEMMA AheadStep ==
  ASSUME WatermarkInv, Ahead, [Next]_vars
  PROVE  Ahead' /\ mark <= mark'
<1>1. inc.latest \in Nat /\ mark \in Nat BY DEF WatermarkInv, Dated
<1>2. CASE HistoryFetch
  <2>1. PICK latest \in {0} \cup {last[s] : s \in HistorySince(mark)} : inc'.latest = latest
    BY <1>2 DEF HistoryFetch, IncOff
  <2>2. UNCHANGED mark BY <1>2 DEF HistoryFetch
  <2> QED BY <1>1, <2>1, <2>2 DEF Ahead, HistorySince
<1>3. CASE IncEnds
  <2>1. inc'.latest = 0 BY <1>3 DEF IncEnds, IncOff
  <2>2. mark' = IF Advance THEN inc.latest ELSE mark BY <1>3 DEF IncEnds
  <2> QED BY <1>1, <2>1, <2>2 DEF Ahead, Advance
<1>4. ASSUME inc'.latest \in {0, inc.latest}, UNCHANGED mark PROVE Ahead' /\ mark <= mark'
  BY <1>1, <1>4 DEF Ahead
<1>5. CASE ScopeList \/ ScopeWrite \/ IncFails \/ Restart
  <2>1. inc'.latest = 0
    <3>1. CASE ScopeList
      <4>1. PICK L : inc' = [IncOff EXCEPT !.at = "listed", !.list = L] BY <3>1 DEF ScopeList
      <4> QED BY <4>1 DEF IncOff
    <3>2. CASE ScopeWrite BY <3>2 DEF ScopeWrite, IncOff
    <3>3. CASE IncFails \/ Restart BY <3>3 DEF IncFails, Restart, IncOff
    <3> QED BY <1>5, <3>1, <3>2, <3>3
  <2>2. UNCHANGED mark BY <1>5 DEF ScopeList, ScopeWrite, IncFails, Restart
  <2> QED BY <1>4, <2>1, <2>2
<1>6. CASE (\E s \in Series : IncAsk(s)) \/ IncFetch \/ IncWrite \/ IncReconcile
  <2>1. inc \in [at : IncStages, list : SUBSET Series, todo : SUBSET Series, latest : Nat, chunk : Fetched]
    BY DEF WatermarkInv, Dated
  <2>2. inc'.latest = inc.latest BY <1>6, <2>1 DEF IncAsk, IncFetch, IncWrite, IncReconcile
  <2>3. UNCHANGED mark BY <1>6 DEF IncAsk, IncFetch, IncWrite, IncReconcile
  <2> QED BY <1>4, <2>2, <2>3
<1>7. CASE UNCHANGED <<mark, inc>> BY <1>4, <1>7
<1>8. ASSUME NEW s \in Series, AddSeries(s) \/ DeleteSeries(s) PROVE UNCHANGED <<mark, inc>>
  BY <1>8 DEF AddSeries, DeleteSeries, Change, passes
<1>9. ASSUME NEW e \in Episodes, Import(e) \/ RemoveFile(e) PROVE UNCHANGED <<mark, inc>>
  BY <1>9 DEF Import, RemoveFile, Change, passes
<1>10. ASSUME NEW l \in Lanes, FullStep(l) \/ FullFails(l) PROVE UNCHANGED <<mark, inc>>
  BY <1>10 DEF FullStep, FullList, FullFetch, FullWrite, FullLoopEnds, FullTombstones, FullFails
<1>11. ASSUME NEW w \in Drains, HookStep(w) \/ HookFails(w) PROVE UNCHANGED <<mark, inc>>
  BY <1>11 DEF HookStep, HookTake, HookFetch, HookRefresh, HookSeriesDelete, HookFileDelete,
               HookDone, HookFails
<1>12. CASE Stop \/ UNCHANGED vars BY <1>7, <1>12 DEF Stop, vars, passes
<1> QED BY <1>2, <1>3, <1>5, <1>6, <1>7, <1>8, <1>9, <1>10, <1>11, <1>12
        DEF Next, SonarrStep, IncStep

\* update_watermark_for_instance takes any time it is given; _sync_incremental never
\* gives it one before the watermark, also after the series whose event was the
\* last one has left the history.
THEOREM WatermarkMovesOn == Spec => WatermarkNeverBack
<1>1. Init => Ahead BY DEF Init, Ahead, IncOff
<1>2. WatermarkInv /\ Ahead /\ [Next]_vars => Ahead' BY AheadStep
<1>3. WatermarkInv /\ Ahead /\ [Next]_vars => [mark <= mark']_vars BY AheadStep
<1> QED BY <1>1, <1>2, <1>3, WatermarkInvariance, PTL DEF Spec, WatermarkNeverBack
==============================================================================
