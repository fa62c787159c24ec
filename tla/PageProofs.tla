------------------------------ MODULE PageProofs ------------------------------
(***************************************************************************)
(* Safety of the pages that show: the log, addresses, the library, the     *)
(* reports, the pipelines of the anime page, for any bounds and any sets   *)
(* of rows, views and filters.  Each page's argument is about its own      *)
(* steps; PagesMove says that a step of the interface is one of them, or   *)
(* leaves the page's variables alone.                                      *)
(***************************************************************************)
EXTENDS WebPages, SequenceTheorems, WellFoundedInduction, TLAPS

(* Induction, in the form of sets.                                         *)

Less == {p \in Nat \X Nat : p[1] < p[2]}

LEMMA LessIsWellFounded == IsWellFoundedOn(Less, Nat)
<1>1. Less = OpToRel(<, Nat) BY DEF Less, OpToRel
<1> QED BY <1>1, NatLessThanWellFounded

\* The least of the numbers for which something would be wrong.
LEMMA LeastNumber ==
  ASSUME NEW T \in SUBSET Nat, T # {}
  PROVE  \E n \in T : \A m \in T : n <= m
<1>1. PICK n \in T : \A m \in T : ~(<<m, n>> \in Less)
  <2> HIDE DEF Less
  <2> QED BY LessIsWellFounded, WFMin
<1>2. ASSUME NEW m \in T PROVE n <= m
  <2>1. ~(<<m, n>> \in Less) BY <1>1
  <2>2. m \in Nat /\ n \in Nat OBVIOUS
  <2>3. ~(m < n) BY <2>1, <2>2 DEF Less
  <2> QED BY <2>2, <2>3
<1> QED BY <1>2

-----------------------------------------------------------------------------
(* Array.filter.                                                           *)

\* The equation of Kept.
KeptAt(f, s, K, n) ==
  IF n = 0 THEN <<>>
  ELSE IF s[n] \in K THEN Append(f[n - 1], s[n]) ELSE f[n - 1]

IsKept(f, s, K) == f = [n \in 0 .. Len(s) |-> KeptAt(f, s, K, n)]

\* It has a solution: the one for a shorter sequence can be continued.
LEMMA KeptExists ==
  ASSUME NEW S, NEW s \in Seq(S), NEW K
  PROVE  \E f : IsKept(f, s, K)
<1> DEFINE Solved(m) == \E f : f = [n \in 0 .. m |-> KeptAt(f, s, K, n)]
           T == {m \in 0 .. Len(s) : ~Solved(m)}
<1>1. Len(s) \in Nat OBVIOUS
<1>2. SUFFICES ASSUME T # {} PROVE FALSE
  <2>1. Len(s) \in 0 .. Len(s) BY <1>1
  <2>2. PICK f : f = [n \in 0 .. Len(s) |-> KeptAt(f, s, K, n)] BY <2>1
  <2> QED BY <2>2 DEF IsKept
<1>3. PICK m \in T : \A k \in T : m <= k
  <2> T \subseteq Nat BY <1>1
  <2> HIDE DEF T
  <2> QED BY <1>2, LeastNumber
<1>4. CASE m = 0
  <2> DEFINE f == [n \in 0 .. 0 |-> <<>>]
  <2>1. f = [n \in 0 .. 0 |-> KeptAt(f, s, K, n)] BY DEF KeptAt
  <2> QED BY <1>3, <1>4, <2>1
<1>5. CASE m # 0
  <2>1. m \in Nat /\ m - 1 \in 0 .. Len(s) /\ m - 1 \notin T BY <1>1, <1>3, <1>5
  <2>2. PICK f : f = [n \in 0 .. m - 1 |-> KeptAt(f, s, K, n)] BY <2>1
  <2> DEFINE g == [n \in 0 .. m |-> IF n = m THEN KeptAt(f, s, K, m) ELSE f[n]]
  <2>3. \A n \in 0 .. m : g[n] = KeptAt(g, s, K, n)
    <3> TAKE n \in 0 .. m
    <3>1. CASE n = 0 BY <2>1, <2>2, <1>5, <3>1 DEF KeptAt
    <3>2. CASE n # 0
      <4>1. n - 1 \in 0 .. m - 1 /\ g[n - 1] = f[n - 1] BY <2>1, <3>2
      <4>2. n = m \/ n \in 0 .. m - 1 BY <2>1
      <4>3. g[n] = KeptAt(f, s, K, n) BY <2>1, <2>2, <4>2
      <4>4. KeptAt(f, s, K, n) = KeptAt(g, s, K, n) BY <4>1, <3>2 DEF KeptAt
      <4> QED BY <4>3, <4>4
    <3> QED BY <3>1, <3>2
  <2>4. g = [n \in 0 .. m |-> KeptAt(g, s, K, n)]
    <3> HIDE DEF KeptAt
    <3>1. g = [n \in 0 .. m |-> g[n]] OBVIOUS
    <3> HIDE DEF g
    <3> QED BY <2>3, <3>1
  <2> QED BY <1>3, <2>4
<1> QED BY <1>4, <1>5

\* The elements kept are no more than there were, and those of K.
LEMMA KeptType ==
  ASSUME NEW S, NEW s \in Seq(S), NEW K, NEW R, S \cap K \subseteq R
  PROVE  Kept(s, K) \in Seq(R) /\ Len(Kept(s, K)) <= Len(s)
<1> DEFINE kept[n \in 0 .. Len(s)] == KeptAt(kept, s, K, n)
           Good(n) == kept[n] \in Seq(R) /\ Len(kept[n]) <= n
           T == {n \in 0 .. Len(s) : ~Good(n)}
<1>1. Len(s) \in Nat OBVIOUS
<1>2. kept = CHOOSE f : IsKept(f, s, K) BY DEF IsKept
<1>3. Kept(s, K) = kept[Len(s)] BY DEF Kept, KeptAt
<1> HIDE DEF kept, Good, T
<1>4. kept = [n \in 0 .. Len(s) |-> KeptAt(kept, s, K, n)]
  <2>1. \E f : IsKept(f, s, K) BY KeptExists, Zenon
  <2>2. IsKept(kept, s, K) BY <1>2, <2>1, Zenon
  <2> QED BY <2>2, Zenon DEF IsKept
<1> USE DEF Good, T
<1>5. SUFFICES ASSUME T # {} PROVE FALSE BY <1>1, <1>3
<1>6. PICK m \in T : \A k \in T : m <= k
  <2> T \subseteq Nat BY <1>1
  <2> HIDE DEF T
  <2> QED BY <1>5, LeastNumber
<1>7. m \in 0 .. Len(s) /\ kept[m] = KeptAt(kept, s, K, m) BY <1>4
<1>8. CASE m = 0
  <2>1. kept[m] = <<>> BY <1>7, <1>8 DEF KeptAt
  <2>2. kept[m] \in Seq(R) /\ Len(kept[m]) = 0 BY <2>1
  <2> QED BY <1>6, <1>8, <2>2
<1>9. CASE m # 0
  <2>1. m - 1 \in 0 .. Len(s) /\ m \in 1 .. Len(s) BY <1>1, <1>7, <1>9
  <2>2. kept[m - 1] \in Seq(R) /\ Len(kept[m - 1]) <= m - 1 BY <1>6, <2>1
  <2>3. s[m] \in S BY <2>1
  <2>4. kept[m] = IF s[m] \in K THEN Append(kept[m - 1], s[m]) ELSE kept[m - 1]
    BY <1>7, <1>9 DEF KeptAt
  <2> HIDE DEF T
  <2>5. ASSUME s[m] \in K
        PROVE  /\ Append(kept[m - 1], s[m]) \in Seq(R)
               /\ Len(Append(kept[m - 1], s[m])) = Len(kept[m - 1]) + 1
    <3>1. s[m] \in R BY <2>3, <2>5
    <3> QED BY <2>2, <3>1
  <2>6. Len(kept[m - 1]) \in Nat /\ m \in Nat BY <1>7, <2>2
  <2>7. kept[m] \in Seq(R) /\ Len(kept[m]) <= m
    <3>1. CASE s[m] \notin K BY <2>2, <2>4, <2>6, <3>1
    <3>2. CASE s[m] \in K BY <2>2, <2>4, <2>5, <2>6, <3>2
    <3> QED BY <3>1, <3>2
  <2> QED BY <1>6, <2>7 DEF T
<1> QED BY <1>8, <1>9

-----------------------------------------------------------------------------
(* The list of jobs, where rendering it comes to rest.                     *)

\* The arithmetic of pages.
LEMMA LastMultiple ==
  ASSUME NEW k \in Nat \ {0}, NEW m \in Nat, NEW t \in 1 .. m
  PROVE  /\ (t - 1) \div k \in 0 .. m \div k
         /\ k * ((t - 1) \div k) \in 0 .. t - 1
OBVIOUS

LEMMA PageBefore ==
  ASSUME NEW k \in Nat \ {0}, NEW m \in Nat, NEW n \in 0 .. m \div k, n >= 1
  PROVE  k * n - k = k * (n - 1)
OBVIOUS

LEMMA PageAfter ==
  ASSUME NEW k \in Nat \ {0}, NEW m \in Nat, NEW n \in Nat, k * n + k < m
  PROVE  k * n + k = k * (n + 1) /\ n + 1 \in 0 .. m \div k
OBVIOUS

\* What a rendering shows.
Shown == Pages \cup {NoPage}

\* The equation of Rest.
RestAt(g, f, cached, at) ==
  LET data == DataFor(<<f, at[1]>>, cached, at[2])
      o == SnappedTo(at[1], data)
  IN  IF o = at[1] THEN <<o, data>> ELSE g[<<o, data>>]

IsRest(g, f, cached) ==
  g = [at \in Offsets \X Shown |-> RestAt(g, f, cached, at)]

LEMMA OffsetsBounded == \A o \in Offsets : o \in 0 .. MaxJobs
BY PagerAssumption DEF Offsets

\* clampPageOffset leads to an offset, and never onwards.
LEMMA ClampType ==
  ASSUME NEW o \in Offsets, NEW t \in 0 .. MaxJobs
  PROVE  ClampPageOffset(o, t) \in Offsets /\ ClampPageOffset(o, t) <= o /\ o \in Nat
<1> USE PagerAssumption
<1>1. PICK n \in 0 .. MaxJobs \div PageSize : o = PageSize * n BY DEF Offsets
<1>2. o \in Nat BY <1>1
<1>3. CASE t = 0
  <2>1. 0 \in 0 .. MaxJobs \div PageSize /\ PageSize * 0 = 0 OBVIOUS
  <2>2. ClampPageOffset(o, t) = 0 BY <1>3 DEF ClampPageOffset
  <2>3. 0 \in Offsets BY <2>1 DEF Offsets
  <2> QED BY <1>2, <2>2, <2>3
<1>4. CASE t > 0 /\ o < t
  <2>1. ClampPageOffset(o, t) = o BY <1>2, <1>4 DEF ClampPageOffset, Larger
  <2> QED BY <1>2, <2>1
<1>5. CASE t > 0 /\ ~(o < t)
  <2> DEFINE q == (t - 1) \div PageSize
  <2>0. t \in 1 .. MaxJobs BY <1>5
  <2>1. q \in 0 .. MaxJobs \div PageSize /\ PageSize * q \in 0 .. t - 1
    BY <2>0, LastMultiple
  <2>2. ClampPageOffset(o, t) = PageSize * q
    BY <1>5, <2>1 DEF ClampPageOffset, Larger
  <2>3. PageSize * q \in Offsets BY <2>1 DEF Offsets
  <2> HIDE DEF q
  <2> QED BY <1>2, <1>5, <2>1, <2>2, <2>3
<1> QED BY <1>3, <1>4, <1>5

\* And so does the effect that uses it, over the data of one rendering.
LEMMA SnapType ==
  ASSUME NEW f \in Statuses, NEW cached \in [Statuses \X Offsets -> Shown],
         NEW at \in Offsets \X Shown
  PROVE  LET data == DataFor(<<f, at[1]>>, cached, at[2])
             o == SnappedTo(at[1], data)
         IN  data \in Shown /\ o \in Offsets /\ o <= at[1] /\ at[1] \in Nat
<1> DEFINE data == DataFor(<<f, at[1]>>, cached, at[2])
<1>1. data \in Shown /\ at[1] \in Offsets BY DEF DataFor
<1>2. at[1] \in Nat BY <1>1, PagerAssumption DEF Offsets
<1>3. ASSUME data # NoPage PROVE data.total \in 0 .. MaxJobs
  BY <1>1, <1>3 DEF Shown, Pages
<1> HIDE DEF data
<1>4. SnappedTo(at[1], data) \in Offsets /\ SnappedTo(at[1], data) <= at[1]
  BY <1>1, <1>2, <1>3, ClampType DEF SnappedTo
<1> QED BY <1>1, <1>2, <1>4 DEF data

\* The equation has a solution, found from the lower offsets up.
LEMMA RestExists ==
  ASSUME NEW f \in Statuses, NEW cached \in [Statuses \X Offsets -> Shown]
  PROVE  \E g : IsRest(g, f, cached)
<1> DEFINE Part(m) == {at \in Offsets \X Shown : at[1] < m}
           Def(m) == \E g : g = [at \in Part(m) |-> RestAt(g, f, cached, at)]
           T == {m \in Nat : ~Def(m)}
<1>1. ASSUME T # {} PROVE FALSE
  <2>1. PICK m \in T : \A k \in T : m <= k
    <3> T \subseteq Nat OBVIOUS
    <3> HIDE DEF T
    <3> QED BY <1>1, LeastNumber
  <2>2. CASE m = 0
    <3> DEFINE g == [at \in Part(0) |-> <<>>]
    <3>1. \A at \in Part(0) : FALSE BY PagerAssumption DEF Offsets
    <3>2. g = [at \in Part(0) |-> RestAt(g, f, cached, at)]
      BY <3>1
    <3> QED BY <2>1, <2>2, <3>2
  <2>3. CASE m # 0
    <3>1. m \in Nat /\ m - 1 \in Nat /\ m - 1 \notin T
      <4>1. m \in Nat OBVIOUS
      <4> HIDE DEF T
      <4> QED BY <2>1, <2>3, <4>1
    <3>2. PICK h : h = [at \in Part(m - 1) |-> RestAt(h, f, cached, at)]
      BY <3>1
    <3> DEFINE g == [at \in Part(m) |-> RestAt(h, f, cached, at)]
    <3>3. ASSUME NEW at \in Part(m)
          PROVE  RestAt(h, f, cached, at) = RestAt(g, f, cached, at)
      <4> DEFINE d == DataFor(<<f, at[1]>>, cached, at[2])
                 o == SnappedTo(at[1], d)
      <4>1. o \in Offsets /\ o <= at[1] /\ at[1] \in Nat /\ d \in Shown BY SnapType
      <4>2. CASE o = at[1] BY <4>2 DEF RestAt
      <4>3. CASE o # at[1]
        <5>1. <<o, d>> \in Part(m - 1) /\ <<o, d>> \in Part(m)
          <6>1. o \in Nat BY <4>1, PagerAssumption DEF Offsets
          <6>2. at[1] < m BY <3>3
          <6> HIDE DEF o, d
          <6> QED BY <3>1, <4>1, <4>3, <6>1, <6>2
        <5>2. h[<<o, d>>] = g[<<o, d>>]
          <6> HIDE DEF o, d
          <6>1. h[<<o, d>>] = RestAt(h, f, cached, <<o, d>>)
            <7> HIDE DEF Part
            <7> QED BY <3>2, <5>1
          <6> QED BY <5>1, <6>1
        <5> HIDE DEF g
        <5> QED BY <4>3, <5>2 DEF RestAt
      <4> QED BY <4>2, <4>3
    <3>4. g = [at \in Part(m) |-> RestAt(g, f, cached, at)]
      <4> HIDE DEF Part
      <4>1. g = [at \in Part(m) |-> RestAt(h, f, cached, at)] OBVIOUS
      <4> HIDE DEF g
      <4> QED BY <3>3, <4>1
    <3> QED BY <2>1, <3>4
  <2> QED BY <2>2, <2>3
<1>2. MaxJobs + 1 \in Nat BY PagerAssumption
<1>3. Part(MaxJobs + 1) = Offsets \X Shown
  <2>1. \A o \in Offsets : o \in Nat /\ o < MaxJobs + 1 BY PagerAssumption, OffsetsBounded
  <2> QED BY <2>1
<1>4. Def(MaxJobs + 1) BY <1>1, <1>2
<1> HIDE DEF Part
<1> QED BY <1>3, <1>4 DEF IsRest

\* Where a rendering rests: at an offset that the effect leaves alone, over the
\* page's own data if there are any.
LEMMA RestType ==
  ASSUME NEW f \in Statuses, NEW cached \in [Statuses \X Offsets -> Shown],
         NEW at \in Offsets \X Shown
  PROVE  LET end == Rest(f, cached)[at]
         IN  /\ end \in Offsets \X Shown
             /\ SnappedTo(end[1], end[2]) = end[1]
             /\ DataFor(<<f, end[1]>>, cached, end[2]) = end[2]
<1> DEFINE rest[x \in Offsets \X Shown] == RestAt(rest, f, cached, x)
           Good(end) == /\ end \in Offsets \X Shown
                        /\ SnappedTo(end[1], end[2]) = end[1]
                        /\ DataFor(<<f, end[1]>>, cached, end[2]) = end[2]
<1>1. Rest(f, cached) = rest BY DEF Rest, RestAt, Shown
<1>2. rest = CHOOSE g : IsRest(g, f, cached) BY DEF IsRest
<1> HIDE DEF rest, Good
<1>3. rest = [x \in Offsets \X Shown |-> RestAt(rest, f, cached, x)]
  <2>1. \E g : IsRest(g, f, cached) BY RestExists, Zenon
  <2>2. IsRest(rest, f, cached) BY <1>2, <2>1, Zenon
  <2> QED BY <2>2, Zenon DEF IsRest
<1> USE DEF Good
<1> DEFINE Wrong == {x \in Offsets \X Shown : ~Good(rest[x])}
           T == {x[1] : x \in Wrong}
<1>4. ASSUME Wrong # {} PROVE FALSE
  <2>1. T \subseteq Nat /\ T # {}
    <3>1. \A x \in Wrong : x[1] \in Nat BY OffsetsBounded
    <3> HIDE DEF Wrong
    <3> QED BY <1>4, <3>1
  <2>2. PICK m \in T : \A k \in T : m <= k
    <3> HIDE DEF T
    <3> QED BY <2>1, LeastNumber
  <2>3. PICK x \in Wrong : x[1] = m BY <2>2
  <2> DEFINE d == DataFor(<<f, x[1]>>, cached, x[2])
             o == SnappedTo(x[1], d)
  <2>4. o \in Offsets /\ o <= x[1] /\ x[1] \in Nat /\ d \in Shown BY SnapType
  <2>5. rest[x] = IF o = x[1] THEN <<o, d>> ELSE rest[<<o, d>>]
    <3>1. x \in Offsets \X Shown OBVIOUS
    <3>2. rest[x] = RestAt(rest, f, cached, x) BY <1>3, <3>1
    <3> QED BY <3>2 DEF RestAt
  <2>6. CASE o = x[1]
    <3>1. rest[x] = <<o, d>> BY <2>5, <2>6
    <3>2. DataFor(<<f, x[1]>>, cached, d) = d BY DEF DataFor
    <3>3. Good(<<o, d>>)
      <4>1. SnappedTo(o, d) = o BY <2>6
      <4>2. DataFor(<<f, o>>, cached, d) = d BY <2>6, <3>2
      <4> HIDE DEF o, d
      <4> QED BY <2>4, <4>1, <4>2
    <3> QED BY <3>1, <3>3
  <2>7. CASE o # x[1]
    <3>1. rest[x] = rest[<<o, d>>] BY <2>5, <2>7
    <3>2. ~Good(rest[x]) BY <2>3
    <3>3. <<o, d>> \in Wrong
      <4> HIDE DEF o, d, Good
      <4> QED BY <2>4, <3>1, <3>2
    <3>4. o \in T
      <4> HIDE DEF o, d, Wrong
      <4> QED BY <3>3
    <3>5. m <= o BY <2>2, <3>4
    <3>6. o \in Nat BY <2>4, OffsetsBounded
    <3> HIDE DEF o, d, Wrong, T
    <3> QED BY <2>3, <2>4, <2>7, <3>5, <3>6
  <2> QED BY <2>6, <2>7
<1>5. Good(rest[at]) BY <1>4
<1> QED BY <1>1, <1>5

-----------------------------------------------------------------------------
(* The steps.                                                              *)

\* Whatever the interface does, every page makes one of its own steps or none
\* (WebNext); the cron field and the rule editor have their check in common.
LEMMA PagesMove ==
  ASSUME [WebNext]_webVars
  PROVE  /\ [DraftRowsNext]_draftVars
         /\ [ConfigFormsNext]_formVars
         /\ \/ page = "rules" /\ RuleEditorNext /\ page' = page
            \/ page = "cron" /\ LiveCheckNext /\ UNCHANGED <<pageVars, page>>
            \/ UNCHANGED <<editorVars, page>>
         /\ [SavedViewsNext]_viewVars
         /\ [ManualNext]_manualVars
         /\ [UrlNext]_urlVars
         /\ [LibraryNext]_libraryVars
         /\ [PanelsNext]_panelVars
         /\ [MalNext]_malVars
         /\ [SetupFormNext]_setupVars
         /\ [LogNext]_logVars
         /\ [PagerNext]_pagerVars
         /\ [ArtNext]_artVars
         /\ [RuleDraftNext]_ruleVars
         /\ [ShellNext]_shellVars
         /\ [ValueNext]_valueVars
         /\ [AuthNext]_authVars
<1>1. CASE RowsPage BY <1>1 DEF RowsPage
<1>2. CASE FormsPage BY <1>2 DEF FormsPage
<1>3. CASE CronPage BY <1>3 DEF CronPage
<1>4. CASE RulesPage BY <1>4 DEF RulesPage
<1>5. CASE ViewsPage BY <1>5 DEF ViewsPage
<1>6. CASE QueuePage BY <1>6 DEF QueuePage
<1>7. CASE ManualPage BY <1>7 DEF ManualPage
<1>8. CASE AddressPage BY <1>8 DEF AddressPage
<1>9. CASE LibraryPage BY <1>9 DEF LibraryPage
<1>10. CASE ReportsPage BY <1>10 DEF ReportsPage
<1>11. CASE AnimePage BY <1>11 DEF AnimePage
<1>12. CASE ArtworkPage BY <1>12 DEF ArtworkPage
<1>13. CASE DraftPage BY <1>13 DEF DraftPage
<1>14. CASE SetupWizard BY <1>14 DEF SetupWizard
<1>15. CASE Shell BY <1>15 DEF Shell
<1>16. CASE LogsPage BY <1>16 DEF LogsPage
<1>17. CASE ValueControls BY <1>17 DEF ValueControls
<1>18. CASE AuthSection BY <1>18 DEF AuthSection
<1>19. CASE UNCHANGED webVars BY <1>19 DEF webVars
<1> QED BY <1>1, <1>2, <1>3, <1>4, <1>5, <1>6, <1>7, <1>8, <1>9, <1>10, <1>11, <1>12,
           <1>13, <1>14, <1>15, <1>16, <1>17, <1>18, <1>19 DEF WebNext

-----------------------------------------------------------------------------
(* The log.                                                                *)

\* Someone who reads has been heard of, and no scroll of the page is under way.
ReadingInv == reading => ~stick /\ ~Gliding /\ event = "none"

LEMMA RenderKeepsReader ==
  ASSUME NEW n, NEW pausing, ReadingInv, RenderLog(n, pausing), UNCHANGED stick
  PROVE  ReadingInv' /\ (reading => (top' = top \/ ~reading'))
<1> DEFINE t == IF top > LastTop(n) THEN LastTop(n) ELSE top
<1>1. top' = t /\ Follow(t, n, pausing)
      /\ (t = top => UNCHANGED <<event, reading>>) /\ (t # top => reading' = FALSE)
  BY DEF RenderLog
<1>2. CASE reading'
  <2>1. t = top /\ event' = event /\ reading BY <1>1, <1>2
  <2>2. goal' = top BY <2>1, <1>1 DEF ReadingInv, Follow, Glided
  <2> QED BY <1>1, <2>1, <2>2 DEF ReadingInv, Gliding
<1> QED BY <1>2 DEF ReadingInv

LEMMA ReadingStep ==
  ASSUME ReadingInv, [LogNext]_logVars
  PROVE  ReadingInv' /\ (reading => (top' = top \/ ~reading'))
<1>1. ASSUME NEW m \in BOOLEAN, LogLine(m)
      PROVE  ReadingInv' /\ (reading => (top' = top \/ ~reading'))
  BY <1>1 DEF LogLine, ReadingInv, Gliding
<1>2. CASE LogsLand BY <1>2, RenderKeepsReader DEF LogsLand
<1>3. CASE SetLogFilter BY <1>3, RenderKeepsReader DEF SetLogFilter
<1>4. CASE PauseLogs BY <1>4, RenderKeepsReader DEF PauseLogs
<1>5. CASE HearScroll BY <1>5 DEF HearScroll, ReadingInv, Gliding
<1>6. ASSUME NEW s \in 0 .. MaxLines, Glide(s)
      PROVE  ReadingInv' /\ (reading => (top' = top \/ ~reading'))
  BY <1>6 DEF Glide, ReadingInv, Gliding
<1>7. ASSUME NEW s \in 0 .. MaxLines, Scroll(s)
      PROVE  ReadingInv' /\ (reading => (top' = top \/ ~reading'))
  BY <1>7 DEF Scroll, ReadingInv, Gliding
<1>8. CASE UNCHANGED logVars BY <1>8 DEF logVars, ReadingInv, Gliding
<1> QED BY <1>1, <1>2, <1>3, <1>4, <1>5, <1>6, <1>7, <1>8 DEF LogNext

\* New lines, the filter and a pause do not move a reader who scrolled up
\* (onLogsScroll and the follow effect of LogsPage).
THEOREM ReadersStayPut == WebSpec => ReaderStaysPut
<1>1. WebInit => ReadingInv BY DEF WebInit, LogInit, ReadingInv
<1>2. ReadingInv /\ [WebNext]_webVars => ReadingInv' BY PagesMove, ReadingStep
<1>3. ReadingInv /\ [WebNext]_webVars => [reading => (top' = top \/ ~reading')]_logVars
  BY PagesMove, ReadingStep
<1> QED BY <1>1, <1>2, <1>3, PTL DEF WebSpec, ReaderStaysPut

-----------------------------------------------------------------------------
(* Addresses.                                                              *)

\* What lands as the page's own is the last address it wrote.
OwnInv == landing # NoAddress /\ landing.own => landing.url = written

LEMMA OwnStep ==
  ASSUME OwnInv, [UrlNext]_urlVars
  PROVE  OwnInv'
<1>1. ASSUME NEW v, NEW url, Write(v, url) PROVE OwnInv'
  BY <1>1 DEF Write, OwnInv
<1>2. ASSUME NEW v \in Views, ChangeView(v) PROVE OwnInv'
  BY <1>1, <1>2 DEF ChangeView
<1>3. ASSUME NEW url \in Addresses, GoTo(url) PROVE OwnInv'
  BY <1>3 DEF GoTo, OwnInv
<1>4. CASE Land
  <2>1. \/ landing' = NoAddress
        \/ Write(view', landing.url)
    BY <1>4 DEF Land
  <2> QED BY <2>1, <1>1 DEF OwnInv
<1>5. CASE UNCHANGED urlVars BY <1>5 DEF urlVars, OwnInv
<1> QED BY <1>2, <1>3, <1>4, <1>5 DEF UrlNext

\* A late landing of the page's own address does not undo what was typed since
\* (lastWrittenSearch).
THEOREM OwnWritesStay == WebSpec => OwnWritesNeverRevert
<1>1. WebInit => OwnInv
  <2>1. UrlInit => OwnInv BY DEF UrlInit, OwnInv
  <2> QED BY <2>1 DEF WebInit
<1>2. OwnInv /\ [WebNext]_webVars => OwnInv' BY PagesMove, OwnStep
<1>3. OwnInv => [landing # NoAddress /\ landing.own /\ Land => UNCHANGED view]_urlVars
  BY DEF OwnInv, Land, Applies
<1> QED BY <1>1, <1>2, <1>3, PTL DEF WebSpec, OwnWritesNeverRevert

-----------------------------------------------------------------------------
(* The library.                                                            *)

\* What FiltersFit says, and what the tests of the controls rely on.
LibraryInv == FiltersFit /\ mode \in Modes

LEMMA DefaultSortFits == \A m \in Modes : SortOptions(m)[1] \in Sorts(m)
<1> SUFFICES ASSUME NEW m \in Modes PROVE 1 \in DOMAIN SortOptions(m)
  BY DEF Sorts
<1> QED BY DEF Modes, SortOptions

LEMMA LibraryStep ==
  ASSUME LibraryInv, [LibraryNext]_libraryVars
  PROVE  LibraryInv'
<1> USE DEF LibraryInv, FiltersFit
<1>1. CASE ResizePages BY <1>1 DEF ResizePages, showVars
<1>2. CASE SortDirection BY <1>2 DEF SortDirection, showVars, filterVars
<1>3. CASE ChooseEpisode BY <1>3 DEF ChooseEpisode, filterVars
<1>4. CASE SwitchCompare BY <1>4 DEF SwitchCompare, showVars, filterVars
<1>5. ASSUME NEW m \in Modes, SwitchMode(m) PROVE LibraryInv'
  BY <1>5, DefaultSortFits DEF SwitchMode, showVars
<1>6. ASSUME NEW b \in BOOLEAN, SetSearch(b) PROVE LibraryInv'
  BY <1>6 DEF SetSearch, showVars
<1>7. ASSUME NEW s \in Sorts(mode), SortList(s) PROVE LibraryInv'
  BY <1>7 DEF SortList, showVars
<1>8. ASSUME NEW s \in EpisodeSorts, SortEpisodes(s) PROVE LibraryInv'
  BY <1>8 DEF SortEpisodes, showVars, filterVars
<1>9. ASSUME NEW p \in 0 .. LastPage, TurnPage(p) \/ TurnEpisodes(p) PROVE LibraryInv'
  BY <1>9 DEF TurnPage, TurnEpisodes, showVars, filterVars
<1>10. ASSUME NEW show \in Shows, ClickShow(show) PROVE LibraryInv'
  BY <1>10, LibraryAssumption DEF ClickShow, EpisodesFrom, filterVars
<1>11. ASSUME NEW show \in Shows, ToggleCompare(show) \/ OpenDetail(show) PROVE LibraryInv'
  BY <1>11 DEF ToggleCompare, OpenDetail, showVars, filterVars
<1>12. ASSUME NEW n \in SeasonNumbers \cup {AllSeasons}, PickSeason(n) PROVE LibraryInv'
  BY <1>12 DEF PickSeason, EpisodesFrom, filterVars
<1>13. CASE CloseDetail BY <1>13 DEF CloseDetail, showVars, filterVars
<1>14. CASE HeaderSearch BY <1>14 DEF HeaderSearch, EpisodesFrom
<1>15. ASSUME NEW m \in Modes, NEW show \in Shows \cup {NoShow},
              NEW season \in SeasonNumbers \cup {AllSeasons}, ApplyUrl(m, show, season)
       PROVE  LibraryInv'
  BY <1>15, LibraryAssumption DEF ApplyUrl, ShowInUrl, EpisodesFrom
<1>16. CASE UNCHANGED libraryVars BY <1>16 DEF libraryVars, showVars, filterVars
<1> QED BY <1>1, <1>2, <1>3, <1>4, <1>5, <1>6, <1>7, <1>8, <1>9, <1>10, <1>11, <1>12,
           <1>13, <1>14, <1>15, <1>16 DEF LibraryNext, LibraryControls

\* No season of another show, no column of another list, no picked episode of
\* another show, through clicks, links and the search in the header (LibraryPage).
THEOREM LibraryFiltersFit == WebSpec => []FiltersFit
<1>1. WebInit => LibraryInv
  <2>1. LibraryInit => LibraryInv
    BY DefaultSortFits DEF LibraryInit, LibraryInv, FiltersFit, Modes, SortOptions
  <2> QED BY <2>1 DEF WebInit
<1>2. LibraryInv /\ [WebNext]_webVars => LibraryInv' BY PagesMove, LibraryStep
<1>3. LibraryInv => FiltersFit BY DEF LibraryInv
<1> QED BY <1>1, <1>2, <1>3, PTL DEF WebSpec

-----------------------------------------------------------------------------
(* The reports.                                                            *)

\* The pages are functions of the tables, and those turned to are of the rows
\* that are shown.
PanelsInv ==
  /\ offsets = [p \in Panels |-> offsets[p]]
  /\ turnedAt = [p \in Panels |-> turnedAt[p]]
  /\ PagesOfTheseRows

LEMMA TurningBack == TurnedBack /\ turnedAt' = turnedAt /\ PanelsInv => PanelsInv'
BY DEF TurnedBack, PanelsInv, PagesOfTheseRows

LEMMA TurningOne ==
  ASSUME PanelsInv, NEW p \in Panels, NEW to, Turn(p, to)
  PROVE  PanelsInv'
<1>1. FilteredBy' = FilteredBy BY DEF Turn, FilteredBy
<1>2. \A q \in Panels : IF q = p THEN turnedAt'[q] = FilteredBy
                        ELSE offsets'[q] = offsets[q] /\ turnedAt'[q] = turnedAt[q]
  BY DEF PanelsInv, Turn
<1>3. offsets' = [q \in Panels |-> offsets'[q]] /\ turnedAt' = [q \in Panels |-> turnedAt'[q]]
  BY DEF PanelsInv, Turn
<1> QED BY <1>1, <1>2, <1>3 DEF PanelsInv, PagesOfTheseRows

LEMMA PanelsStep ==
  ASSUME PanelsInv, [PanelsNext]_panelVars
  PROVE  PanelsInv'
<1>1. ASSUME NEW d \in Dashboards, SelectBoard(d) PROVE PanelsInv'
  BY <1>1, TurningBack DEF SelectBoard
<1>2. ASSUME NEW w \in Wide, SetWide(w) PROVE PanelsInv'
  BY <1>2, TurningBack DEF SetWide
<1>3. ASSUME NEW f \in Filters, TypeShared(f) PROVE PanelsInv'
  BY <1>3 DEF TypeShared, PanelsInv, PagesOfTheseRows, FilteredBy
<1>4. ASSUME NEW p \in Panels, PrevRows(p) \/ NextRows(p) PROVE PanelsInv'
  BY <1>4, TurningOne DEF PrevRows, NextRows
<1>5. ASSUME NEW p \in Panels, FilterPanel(p) PROVE PanelsInv'
  BY <1>5 DEF FilterPanel, PanelsInv, PagesOfTheseRows, FilteredBy
<1>6. CASE BoardLands BY <1>6 DEF BoardLands, PanelsInv, PagesOfTheseRows, FilteredBy
<1>7. CASE DeferredRender BY <1>7, TurningBack DEF DeferredRender
<1>8. CASE ClearFilters
  <2>1. turnedAt' = turnedAt /\ (TurnedBack \/ (FilteredBy' = FilteredBy /\ offsets' = offsets))
    BY <1>8 DEF ClearFilters, TurnedBack, FilteredBy
  <2> QED BY <2>1, TurningBack DEF PanelsInv, PagesOfTheseRows
<1>9. CASE UNCHANGED panelVars
  BY <1>9 DEF panelVars, PanelsInv, PagesOfTheseRows, FilteredBy
<1> QED BY <1>1, <1>2, <1>3, <1>4, <1>5, <1>6, <1>7, <1>8, <1>9 DEF PanelsNext

\* No table stays on a later page of rows that it was not turned to (the effect
\* that turns the pages back in ReportingPage).
THEOREM TablesShowTheirPages == WebSpec => []PagesOfTheseRows
<1>1. WebInit => PanelsInv
  <2>1. PanelsInit => PanelsInv BY DEF PanelsInit, PanelsInv, PagesOfTheseRows, FilteredBy
  <2> QED BY <2>1 DEF WebInit
<1>2. PanelsInv /\ [WebNext]_webVars => PanelsInv' BY PagesMove, PanelsStep
<1>3. PanelsInv => PagesOfTheseRows BY DEF PanelsInv
<1> QED BY <1>1, <1>2, <1>3, PTL DEF WebSpec

-----------------------------------------------------------------------------
(* The pipelines.                                                          *)

\* The ref of the open page knows its handler, and handlers are of this page or
\* of one that was open before.
HandlersKnown ==
  /\ visit \in Nat \ {0}
  /\ \A p \in pipelines : "visit" \in DOMAIN p /\ p.visit \in 1 .. visit
  /\ \A p \in pipelines : p.visit = visit => busyRef
MalInv == HandlersKnown /\ OnePipelineAtATime

LEMMA RunKeeps ==
  ASSUME MalInv, NEW kind, Run(kind), UNCHANGED visit
  PROVE  MalInv'
<1>1. CASE busyRef BY <1>1 DEF Run, MalInv, HandlersKnown, OnePipelineAtATime
<1>2. CASE ~busyRef
  <2>1. PICK h : h.visit = visit /\ "visit" \in DOMAIN h /\ pipelines' = pipelines \cup {h}
    BY <1>2 DEF Run
  <2>2. busyRef' = TRUE /\ visit' = visit BY <1>2 DEF Run
  <2>3. \A p \in pipelines : p.visit # visit BY <1>2 DEF MalInv, HandlersKnown
  <2> QED BY <2>1, <2>2, <2>3 DEF MalInv, HandlersKnown, OnePipelineAtATime
<1> QED BY <1>1, <1>2

LEMMA MalStep ==
  ASSUME MalInv, [MalNext]_malVars
  PROVE  MalInv'
<1> USE DEF MalInv, HandlersKnown, OnePipelineAtATime
<1>1. ASSUME NEW n \in Sizes, ConfigLands(n) \/ TypeBatch(n) PROVE MalInv'
  BY <1>1 DEF ConfigLands, TypeBatch
<1>2. ASSUME NEW kind \in Single \cup {"all"}, ClickRun(kind) PROVE MalInv'
  BY <1>2, RunKeeps DEF ClickRun
<1>3. CASE AskImportAll \/ RenderBusy BY <1>3 DEF AskImportAll, RenderBusy
<1>4. CASE Revisit BY <1>4 DEF Revisit
<1>5. ASSUME NEW yes \in BOOLEAN, AnswerImportAll(yes) PROVE MalInv'
  BY <1>5, RunKeeps DEF AnswerImportAll
<1>6. ASSUME NEW p \in pipelines, StageDone(p) PROVE MalInv'
  <2>1. PICK q : /\ q.visit = p.visit /\ "visit" \in DOMAIN q
                 /\ pipelines' = (pipelines \ {p}) \cup {q}
    BY <1>6 DEF StageDone
  <2>2. UNCHANGED <<visit, busyRef>> BY <1>6 DEF StageDone
  <2> QED BY <2>1, <2>2
<1>7. ASSUME NEW p \in pipelines, PipelineEnds(p) PROVE MalInv'
  BY <1>7 DEF PipelineEnds
<1>8. CASE UNCHANGED malVars BY <1>8 DEF malVars
<1> QED BY <1>1, <1>2, <1>3, <1>4, <1>5, <1>6, <1>7, <1>8 DEF MalNext

\* A page has one pipeline under way, whatever is clicked before the buttons are
\* disabled (malPipelineBusyRef).
THEOREM PipelinesOneAtATime == WebSpec => []OnePipelineAtATime
<1>1. WebInit => MalInv
  <2>1. MalInit => MalInv BY DEF MalInit, MalInv, HandlersKnown, OnePipelineAtATime
  <2> QED BY <2>1 DEF WebInit
<1>2. MalInv /\ [WebNext]_webVars => MalInv' BY PagesMove, MalStep
<1>3. MalInv => OnePipelineAtATime BY DEF MalInv
<1> QED BY <1>1, <1>2, <1>3, PTL DEF WebSpec

-----------------------------------------------------------------------------
(* The types of the pages that show.                                       *)

LEMMA UrlTypes == UrlTypeOK /\ [UrlNext]_urlVars => UrlTypeOK'
<1> SUFFICES ASSUME UrlTypeOK, [UrlNext]_urlVars PROVE UrlTypeOK' OBVIOUS
<1> USE ViewsAssumption DEF UrlTypeOK, Addresses
<1>1. ASSUME NEW v \in Views, NEW url, Write(v, url)
      PROVE  /\ landing' \in [url : Addresses, own : BOOLEAN] \cup {NoAddress}
             /\ written' \in Addresses \cup {NoAddress}
  <2>1. Canonical(v) \in Addresses BY DEF Canonical
  <2>2. CASE Canonical(v) = url BY <1>1, <2>2 DEF Write
  <2>3. CASE Canonical(v) # url
    <3>1. landing' = [url |-> Canonical(v), own |-> TRUE] /\ written' = Canonical(v)
      BY <1>1, <2>3 DEF Write
    <3> QED BY <2>1, <3>1
  <2> QED BY <2>2, <2>3
<1>2. ASSUME NEW v \in Views, ChangeView(v) PROVE UrlTypeOK'
  BY <1>1, <1>2 DEF ChangeView
<1>3. ASSUME NEW url \in Addresses, GoTo(url) PROVE UrlTypeOK'
  BY <1>3 DEF GoTo
<1>4. CASE Land
  <2>1. landing.url \in Addresses /\ address' = landing.url BY <1>4 DEF Land
  <2>2. landing.url # Bare => Parse(landing.url) \in Views BY <2>1 DEF Parse
  <2>3. CASE landing.url # address /\ Applies(landing.url, written)
    <3>1. view' \in Views BY <1>4, <2>2, <2>3 DEF Land, Applies
    <3>2. CASE landing' = NoAddress /\ UNCHANGED written BY <2>1, <3>1, <3>2
    <3>3. CASE Write(view', landing.url) BY <1>1, <2>1, <3>1, <3>3
    <3> QED BY <1>4, <2>3, <3>2, <3>3 DEF Land
  <2>4. CASE ~(landing.url # address /\ Applies(landing.url, written))
    BY <1>4, <2>1, <2>4 DEF Land
  <2> QED BY <2>3, <2>4
<1>5. CASE UNCHANGED urlVars BY <1>5 DEF urlVars
<1> QED BY <1>2, <1>3, <1>4, <1>5 DEF UrlNext

\* A row that is compared or taken out leaves at most two.
LEMMA ComparedType ==
  ASSUME NEW row \in Shows, ToggleCompare(row), compared \in UNION {[1 .. n -> Shows] : n \in 0 .. 2}
  PROVE  compared' \in UNION {[1 .. n -> Shows] : n \in 0 .. 2}
<1>1. PICK n \in 0 .. 2 : compared \in [1 .. n -> Shows] OBVIOUS
<1>2. compared \in Seq(Shows) /\ Len(compared) = n BY <1>1
<1>3. ASSUME NEW s \in Seq(Shows), Len(s) <= 2
      PROVE  s \in UNION {[1 .. k -> Shows] : k \in 0 .. 2}
  <2>1. Len(s) \in Nat /\ s \in [1 .. Len(s) -> Shows] BY LenProperties
  <2>2. Len(s) \in 0 .. 2 BY <1>3, <2>1
  <2> QED BY <2>1, <2>2
<1>4. CASE \E i \in DOMAIN compared : compared[i] = row
  <2>1. compared' = Kept(compared, Shows \ {row}) BY <1>4 DEF ToggleCompare
  <2>2. compared' \in Seq(Shows) /\ Len(compared') <= n BY <1>2, <2>1, KeptType
  <2>3. Len(compared') \in Nat BY <2>2
  <2> QED BY <1>3, <2>2, <2>3
<1>5. CASE n < 2 /\ compared' = Append(compared, row)
  <2>1. compared' \in Seq(Shows) /\ Len(compared') = n + 1 BY <1>2, <1>5
  <2>2. Len(compared') <= 2 BY <1>5, <2>1
  <2> QED BY <1>3, <2>1, <2>2
<1>6. CASE n >= 2 /\ compared' = <<compared[2], row>>
  <2>1. compared[2] \in Shows BY <1>1, <1>6
  <2>2. compared' \in Seq(Shows) /\ Len(compared') = 2 BY <1>6, <2>1
  <2> QED BY <1>3, <2>2
<1> QED BY <1>2, <1>4, <1>5, <1>6 DEF ToggleCompare

LEMMA LibraryStarts == LibraryInit => LibraryTypeOK
<1> SUFFICES ASSUME LibraryInit PROVE LibraryTypeOK OBVIOUS
<1>1. "title" \in Sorts("drilldown") /\ "drilldown" \in Modes
  <2>1. "drilldown" \in Modes /\ SortOptions("drilldown")[1] = "title" BY DEF Modes, SortOptions
  <2> QED BY <2>1, DefaultSortFits
<1>2. <<>> \in [1 .. 0 -> Shows] /\ 0 \in 0 .. 2 OBVIOUS
<1>3. compared \in UNION {[1 .. n -> Shows] : n \in 0 .. 2} BY <1>2 DEF LibraryInit
<1>4. /\ sortBy \in UNION {Sorts(m) : m \in Modes} /\ mode \in Modes
      /\ 0 \in 0 .. LastPage
  BY <1>1, LibraryAssumption DEF LibraryInit
<1> QED BY <1>3, <1>4 DEF LibraryInit, LibraryTypeOK, EpisodeSorts

LEMMA LibraryTypes == LibraryTypeOK /\ [LibraryNext]_libraryVars => LibraryTypeOK'
<1> SUFFICES ASSUME LibraryTypeOK, [LibraryNext]_libraryVars PROVE LibraryTypeOK' OBVIOUS
<1> DEFINE TwoRows == UNION {[1 .. n -> Shows] : n \in 0 .. 2}
           SortNames == UNION {Sorts(m) : m \in Modes}
           ShowNames == Shows \cup {NoShow}
<1>1. /\ mode \in Modes /\ sortBy \in SortNames /\ searched \in BOOLEAN
      /\ listPage \in 0 .. LastPage /\ episodePage \in 0 .. LastPage
      /\ shownSeason \in SeasonNumbers \cup {AllSeasons}
      /\ openShow \in ShowNames /\ chosen \in ShowNames /\ drawer \in ShowNames
      /\ episodeSort \in EpisodeSorts /\ comparing \in BOOLEAN
      /\ compared \in TwoRows
  BY DEF LibraryTypeOK
<1>2. 0 \in 0 .. LastPage BY LibraryAssumption
<1>3. \A m \in Modes : Sorts(m) \subseteq SortNames OBVIOUS
<1>4. SUFFICES
        /\ mode' \in Modes /\ sortBy' \in SortNames /\ searched' \in BOOLEAN
        /\ listPage' \in 0 .. LastPage /\ episodePage' \in 0 .. LastPage
        /\ shownSeason' \in SeasonNumbers \cup {AllSeasons}
        /\ openShow' \in ShowNames /\ chosen' \in ShowNames /\ drawer' \in ShowNames
        /\ episodeSort' \in EpisodeSorts /\ comparing' \in BOOLEAN
        /\ compared' \in TwoRows
  BY DEF LibraryTypeOK
<1>5. ASSUME NEW row \in Shows, ToggleCompare(row) PROVE compared' \in TwoRows
  BY <1>1, <1>5, ComparedType
<1> HIDE DEF TwoRows, SortNames
<1> USE <1>1, <1>2, <1>3
<1>6. CASE ResizePages \/ SortDirection \/ ChooseEpisode \/ SwitchCompare
  BY <1>6 DEF ResizePages, SortDirection, ChooseEpisode, SwitchCompare, filterVars, showVars, rowVars
<1>7. ASSUME NEW m \in Modes, SwitchMode(m) PROVE <1>4!1
  BY <1>7, DefaultSortFits DEF SwitchMode, showVars, rowVars
<1>8. ASSUME NEW b \in BOOLEAN, SetSearch(b) PROVE <1>4!1
  BY <1>8 DEF SetSearch, showVars, rowVars
<1>9. ASSUME NEW s \in Sorts(mode), SortList(s) PROVE <1>4!1
  BY <1>9 DEF SortList, showVars, rowVars
<1>10. ASSUME NEW s \in EpisodeSorts, SortEpisodes(s) PROVE <1>4!1
  BY <1>10 DEF SortEpisodes, showVars, filterVars, rowVars
<1>11. ASSUME NEW p \in 0 .. LastPage, TurnPage(p) \/ TurnEpisodes(p) PROVE <1>4!1
  BY <1>11 DEF TurnPage, TurnEpisodes, showVars, filterVars, rowVars
<1>12. ASSUME NEW show \in Shows, ClickShow(show) PROVE <1>4!1
  BY <1>12 DEF ClickShow, EpisodesFrom, filterVars, rowVars
<1>13. ASSUME NEW show \in Shows, ToggleCompare(show) PROVE <1>4!1
  BY <1>5, <1>13 DEF ToggleCompare, showVars, filterVars
<1>14. ASSUME NEW show \in Shows, OpenDetail(show) PROVE <1>4!1
  BY <1>14 DEF OpenDetail, showVars, filterVars
<1>15. ASSUME NEW n \in SeasonNumbers \cup {AllSeasons}, PickSeason(n) PROVE <1>4!1
  BY <1>15 DEF PickSeason, EpisodesFrom, filterVars, rowVars
<1>16. CASE CloseDetail BY <1>16 DEF CloseDetail, showVars, filterVars
<1>17. CASE HeaderSearch BY <1>17 DEF HeaderSearch, EpisodesFrom, rowVars
<1>18. ASSUME NEW m \in Modes, NEW show \in Shows \cup {NoShow},
              NEW season \in SeasonNumbers \cup {AllSeasons}, ApplyUrl(m, show, season)
       PROVE  <1>4!1
  BY <1>18 DEF ApplyUrl, ShowInUrl, EpisodesFrom, rowVars
<1>19. CASE UNCHANGED libraryVars BY <1>19 DEF libraryVars, showVars, filterVars, rowVars
<1> QED BY <1>6, <1>7, <1>8, <1>9, <1>10, <1>11, <1>12, <1>13, <1>14, <1>15, <1>16, <1>17,
           <1>18, <1>19 DEF LibraryNext, LibraryControls

\* The page a table shows is one of its pages, and so are its neighbours.
LEMMA ShownOffsetType ==
  ASSUME PanelsTypeOK, NEW p \in Panels
  PROVE  /\ ShownOffset(p) \in TableOffsets
         /\ ShownOffset(p) > 0 => ShownOffset(p) - TableSize \in TableOffsets
         /\ ShownOffset(p) + TableSize < matching[p] => ShownOffset(p) + TableSize \in TableOffsets
<1> USE PanelsAssumption
<1>1. matching[p] \in 0 .. MaxRows /\ offsets[p] \in TableOffsets
  BY DEF PanelsTypeOK, Counts
<1>2. PICK n \in 0 .. MaxRows \div TableSize : ShownOffset(p) = TableSize * n
  <2>1. CASE offsets[p] < matching[p] BY <1>1, <2>1 DEF ShownOffset, TableOffsets
  <2>2. CASE ~(offsets[p] < matching[p]) /\ matching[p] = 0
    <3>1. 0 \in 0 .. MaxRows \div TableSize /\ TableSize * 0 = 0 OBVIOUS
    <3>2. ShownOffset(p) = 0 BY <2>2 DEF ShownOffset
    <3> QED BY <3>1, <3>2
  <2>3. CASE ~(offsets[p] < matching[p]) /\ matching[p] # 0
    <3>1. matching[p] \in 1 .. MaxRows BY <1>1, <2>3
    <3> DEFINE q == (matching[p] - 1) \div TableSize
    <3>2. q \in 0 .. MaxRows \div TableSize BY <3>1, LastMultiple
    <3>3. ShownOffset(p) = q * TableSize BY <2>3 DEF ShownOffset
    <3> HIDE DEF q
    <3> QED BY <3>2, <3>3
  <2> QED BY <2>1, <2>2, <2>3
<1>3. ShownOffset(p) \in TableOffsets BY <1>2 DEF TableOffsets
<1>4. ASSUME ShownOffset(p) > 0 PROVE ShownOffset(p) - TableSize \in TableOffsets
  <2>1. n >= 1 BY <1>2, <1>4
  <2>2. ShownOffset(p) - TableSize = TableSize * (n - 1) BY <1>2, <2>1, PageBefore
  <2>3. n - 1 \in 0 .. MaxRows \div TableSize BY <2>1
  <2> QED BY <2>2, <2>3 DEF TableOffsets
<1>5. ASSUME ShownOffset(p) + TableSize < matching[p]
      PROVE  ShownOffset(p) + TableSize \in TableOffsets
  <2>1. TableSize * n + TableSize < MaxRows
    <3>1. TableSize * n \in Int OBVIOUS
    <3> QED BY <1>1, <1>2, <1>5, <3>1
  <2>0. n \in Nat OBVIOUS
  <2>2. /\ ShownOffset(p) + TableSize = TableSize * (n + 1)
        /\ n + 1 \in 0 .. MaxRows \div TableSize
    BY <1>2, <2>1, <2>0, PageAfter
  <2> QED BY <2>2 DEF TableOffsets
<1> QED BY <1>3, <1>4, <1>5

LEMMA PanelsTypes == PanelsTypeOK /\ [PanelsNext]_panelVars => PanelsTypeOK'
<1> SUFFICES ASSUME PanelsTypeOK, [PanelsNext]_panelVars PROVE PanelsTypeOK' OBVIOUS
<1>1. 0 \in TableOffsets
  <2>1. 0 \in 0 .. MaxRows \div TableSize /\ TableSize * 0 = 0 BY PanelsAssumption
  <2> QED BY <2>1 DEF TableOffsets
<1>2. ASSUME NEW p \in Panels, NEW to \in TableOffsets, Turn(p, to) PROVE PanelsTypeOK'
  BY <1>2 DEF Turn, PanelsTypeOK, FilteredBy
<1>3. ASSUME NEW d \in Dashboards, SelectBoard(d) PROVE PanelsTypeOK'
  BY <1>1, <1>3 DEF SelectBoard, TurnedBack, PanelsTypeOK
<1>4. ASSUME NEW w \in Wide, SetWide(w) PROVE PanelsTypeOK'
  BY <1>1, <1>4 DEF SetWide, TurnedBack, PanelsTypeOK
<1>5. ASSUME NEW f \in Filters, TypeShared(f) PROVE PanelsTypeOK'
  BY <1>5 DEF TypeShared, PanelsTypeOK
<1>6. ASSUME NEW p \in Panels, PrevRows(p) \/ NextRows(p) PROVE PanelsTypeOK'
  BY <1>2, <1>6, ShownOffsetType DEF PrevRows, NextRows
<1>7. ASSUME NEW p \in Panels, FilterPanel(p) PROVE PanelsTypeOK'
  BY <1>1, <1>7 DEF FilterPanel, PanelsTypeOK, Counts
<1>8. CASE BoardLands \/ DeferredRender
  BY <1>1, <1>8 DEF BoardLands, DeferredRender, TurnedBack, PanelsTypeOK
<1>9. CASE ClearFilters BY <1>1, <1>9, PanelsAssumption DEF ClearFilters, PanelsTypeOK
<1>10. CASE UNCHANGED panelVars BY <1>10 DEF panelVars, PanelsTypeOK
<1> QED BY <1>3, <1>4, <1>5, <1>6, <1>7, <1>8, <1>9, <1>10 DEF PanelsNext

-----------------------------------------------------------------------------
(* The pipelines, the artwork, the shell, the log and the values.          *)

\* "Run all" never ingests, so there is a stage after each of its own.
MalTyped == MalTypeOK /\ \A p \in pipelines : p.run = "all" => p.stage # "ingest"

LEMMA NextStageType ==
  ASSUME NEW p \in Handler, p.stage # "refresh", p.run = "all" => p.stage # "ingest"
  PROVE  NextStage(p) \in (Single \ {"ingest"}) \cup {"refresh"}
<1>1. CASE p.run # "all" \/ p.stage = "coverage" \/ (p.stage = "tag_sync" /\ ~p.cover)
  BY <1>1 DEF NextStage
<1>2. CASE p.run = "all" /\ p.stage # "coverage" /\ ~(p.stage = "tag_sync" /\ ~p.cover)
  <2> DEFINE i == CHOOSE k \in 1 .. 3 : AllStages[k] = p.stage
  <2>1. p.stage \in {"backlog", "matcher", "tag_sync"} BY <1>2 DEF Handler, Single
  <2>2. \E k \in 1 .. 3 : AllStages[k] = p.stage
    <3>1. 1 \in 1 .. 3 /\ 2 \in 1 .. 3 /\ 3 \in 1 .. 3 OBVIOUS
    <3> QED BY <2>1, <3>1 DEF AllStages
  <2>3. i \in 1 .. 3 BY <2>2
  <2>4. NextStage(p) = AllStages[i + 1] BY <1>2 DEF NextStage
  <2> HIDE DEF i
  <2>5. i + 1 \in 2 .. 4 BY <2>3
  <2> QED BY <2>4, <2>5 DEF AllStages, Single
<1> QED BY <1>1, <1>2

LEMMA RunTypes ==
  ASSUME MalTyped, NEW kind \in Kinds, Run(kind), UNCHANGED visit
  PROVE  /\ busyRef' \in BOOLEAN /\ pipelines' \in SUBSET Handler
         /\ \A p \in pipelines' : p.run = "all" => p.stage # "ingest"
<1>1. CASE busyRef BY <1>1 DEF Run, MalTyped, MalTypeOK
<1>2. CASE ~busyRef
  <2> DEFINE stage == CASE kind = "all" -> AllStages[1]
                        [] kind = "import_all" -> "backlog"
                        [] OTHER -> kind
             h == [visit |-> visit, run |-> kind, cover |-> coverage, stage |-> stage]
  <2>1. stage \in Single /\ (kind = "all" => stage # "ingest")
    <3>1. CASE kind = "all" BY <3>1 DEF AllStages, Single
    <3>2. CASE kind = "import_all" BY <3>2 DEF Single
    <3>3. CASE kind \in Single BY <3>3 DEF Single
    <3> QED BY <3>1, <3>2, <3>3 DEF Kinds
  <2>2. h \in Handler /\ (h.run = "all" => h.stage # "ingest")
    <3> HIDE DEF stage
    <3> QED BY <2>1 DEF MalTyped, MalTypeOK, Handler
  <2>3. busyRef' = TRUE /\ pipelines' = pipelines \cup {h} BY <1>2 DEF Run
  <2> HIDE DEF h
  <2> QED BY <2>2, <2>3 DEF MalTyped, MalTypeOK
<1> QED BY <1>1, <1>2

LEMMA MalTypes == MalTyped /\ [MalNext]_malVars => MalTyped'
<1> SUFFICES ASSUME MalTyped, [MalNext]_malVars PROVE MalTyped' OBVIOUS
<1> USE DEF MalTyped, MalTypeOK
<1>1. ASSUME NEW n \in Sizes, ConfigLands(n) \/ TypeBatch(n) PROVE MalTyped'
  BY <1>1 DEF ConfigLands, TypeBatch
<1>2. ASSUME NEW kind \in Single \cup {"all"}, ClickRun(kind) PROVE MalTyped'
  <2>1. kind \in Kinds BY DEF Kinds
  <2> QED BY <1>2, <2>1, RunTypes DEF ClickRun
<1>3. CASE AskImportAll \/ RenderBusy BY <1>3 DEF AskImportAll, RenderBusy
<1>4. CASE Revisit
  <2>1. visit' \in 1 .. MaxVisits BY <1>4, MalAssumption DEF Revisit
  <2>2. batch' \in Sizes /\ batchFilled' \in BOOLEAN BY <1>4 DEF Revisit
  <2> QED BY <1>4, <2>1, <2>2 DEF Revisit, Opened
<1>5. ASSUME NEW yes \in BOOLEAN, AnswerImportAll(yes) PROVE MalTyped'
  <2>1. "import_all" \in Kinds BY DEF Kinds
  <2> QED BY <1>5, <2>1, RunTypes DEF AnswerImportAll
<1>6. ASSUME NEW p \in pipelines, StageDone(p) PROVE MalTyped'
  <2> DEFINE q == [p EXCEPT !.stage = NextStage(p)]
  <2>1. p \in Handler /\ p.stage # "refresh" BY <1>6 DEF StageDone
  <2>2. NextStage(p) \in (Single \ {"ingest"}) \cup {"refresh"} BY <2>1, NextStageType
  <2>3. q \in Handler /\ q.stage # "ingest" BY <2>1, <2>2 DEF Handler, Single
  <2>4. pipelines' = (pipelines \ {p}) \cup {q} BY <1>6 DEF StageDone
  <2> HIDE DEF q
  <2>5. pipelines' \in SUBSET Handler /\ \A r \in pipelines' : r.run = "all" => r.stage # "ingest"
    BY <2>3, <2>4
  <2> QED BY <1>6, <2>5 DEF StageDone
<1>7. ASSUME NEW p \in pipelines, PipelineEnds(p) PROVE MalTyped'
  BY <1>7 DEF PipelineEnds
<1>8. CASE UNCHANGED malVars BY <1>8 DEF malVars
<1> QED BY <1>1, <1>2, <1>3, <1>4, <1>5, <1>6, <1>7, <1>8 DEF MalNext

ArtCalls == [what : {"live", "rest", "clear", "fetch"}, to : BOOLEAN, answer : Config \cup {NoArt}]

LEMMA SendTypes ==
  ASSUME ArtTypeOK, NEW what \in {"live", "rest", "clear", "fetch"}, NEW to \in BOOLEAN,
         Send(what, to), artAsk' \in {"none", "live", "clear"}
  PROVE  ArtTypeOK'
<1>1. changes' \in 0 .. MaxArtChanges BY ArtAssumption DEF Send, ArtTypeOK
<1>2. patches' \in SUBSET ArtCalls BY DEF Send, ArtTypeOK, ArtCalls
<1> QED BY <1>1, <1>2 DEF Send, ArtTypeOK, ArtCalls

LEMMA ArtTypes == ArtTypeOK /\ [ArtNext]_artVars => ArtTypeOK'
<1> SUFFICES ASSUME ArtTypeOK, [ArtNext]_artVars PROVE ArtTypeOK' OBVIOUS
<1>1. Usable => shownArt \in Config BY DEF Usable, ArtTypeOK
<1>2. CASE SwitchRest \/ SwitchLive \/ FetchNow
  <2>1. shownArt.rest \in BOOLEAN /\ shownArt.live \in BOOLEAN
    BY <1>1, <1>2 DEF SwitchRest, SwitchLive, FetchNow, Config
  <2>2. artAsk' \in {"none", "live", "clear"}
    BY <1>2 DEF SwitchRest, SwitchLive, FetchNow, ArtTypeOK
  <2> QED BY <1>2, <2>1, <2>2, SendTypes DEF SwitchRest, SwitchLive, FetchNow
<1>3. ASSUME NEW what \in {"live", "clear"}, Question(what) PROVE ArtTypeOK'
  BY <1>3 DEF Question, ArtTypeOK
<1>4. ASSUME NEW yes \in BOOLEAN, AnswerQuestion(yes) PROVE ArtTypeOK'
  <2>1. artAsk \in {"live", "clear"} /\ artAsk' = "none" BY <1>4 DEF AnswerQuestion, ArtTypeOK
  <2>2. CASE yes BY <1>4, <2>1, <2>2, SendTypes DEF AnswerQuestion
  <2>3. CASE ~yes BY <1>4, <2>1, <2>3 DEF AnswerQuestion, ArtTypeOK
  <2> QED BY <2>2, <2>3
<1>5. ASSUME NEW p \in patches, PatchStored(p) PROVE ArtTypeOK'
  <2>1. p \in ArtCalls BY DEF ArtTypeOK, ArtCalls
  <2>2. Apply(p) \in Config
    <3>1. art.rest \in BOOLEAN /\ art.live \in BOOLEAN /\ art.files \in BOOLEAN
          /\ art.fetching \in BOOLEAN
      BY DEF ArtTypeOK, Config
    <3>2. p.to \in BOOLEAN /\ p.what \in {"live", "rest", "clear", "fetch"} BY <2>1 DEF ArtCalls
    <3>3. art \in Config BY DEF ArtTypeOK
    <3>4. CASE p.what = "live" BY <3>1, <3>2, <3>3, <3>4 DEF Apply, Config
    <3>5. CASE p.what = "rest" BY <3>1, <3>2, <3>3, <3>5 DEF Apply, Config
    <3>6. CASE p.what = "clear" BY <3>1, <3>2, <3>3, <3>6 DEF Apply, Config
    <3>7. CASE p.what = "fetch" BY <3>1, <3>2, <3>3, <3>7 DEF Apply, Config
    <3> QED BY <3>2, <3>4, <3>5, <3>6, <3>7
  <2>3. art' \in Config BY <1>5, <2>2 DEF PatchStored
  <2>4. [p EXCEPT !.answer = art'] \in ArtCalls BY <2>1, <2>3 DEF ArtCalls
  <2>5. patches' \in SUBSET ArtCalls BY <1>5, <2>4 DEF PatchStored, ArtTypeOK, ArtCalls
  <2> QED BY <1>5, <2>3, <2>5 DEF PatchStored, ArtTypeOK, ArtCalls
<1>6. ASSUME NEW p \in patches, PatchAnswered(p) PROVE ArtTypeOK'
  <2>1. p.answer \in Config BY <1>6 DEF PatchAnswered, ArtTypeOK
  <2>2. shownArt' \in Config \cup {NotRead} /\ artReq' \in Config \cup {NoArt, AskedArt}
    BY <1>6, <2>1 DEF PatchAnswered, ArtTypeOK
  <2>3. artFailed' \in BOOLEAN BY <1>6 DEF PatchAnswered, ArtTypeOK
  <2> QED BY <1>6, <2>2, <2>3 DEF PatchAnswered, ArtTypeOK
<1>7. ASSUME NEW p \in patches, PatchFails(p) PROVE ArtTypeOK'
  BY <1>7, ArtAssumption DEF PatchFails, ArtTypeOK
<1>8. CASE FetchEnds
  <2>1. art' \in Config BY <1>8 DEF FetchEnds, ArtTypeOK, Config
  <2> QED BY <1>8, <2>1 DEF FetchEnds, ArtTypeOK
<1>9. CASE PollArt BY <1>9 DEF PollArt, ArtTypeOK
<1>10. CASE ArtAnswered BY <1>10 DEF ArtAnswered, ArtTypeOK
<1>11. CASE ArtLands BY <1>11 DEF ArtLands, ArtTypeOK
<1>12. CASE ArtFails BY <1>12, ArtAssumption DEF ArtFails, ArtTypeOK
<1>13. CASE UNCHANGED artVars BY <1>13 DEF artVars, ArtTypeOK
<1> QED BY <1>2, <1>3, <1>4, <1>5, <1>6, <1>7, <1>8, <1>9, <1>10, <1>11, <1>12, <1>13 DEF ArtNext

\* A closed palette starts over, and an open one starts at its first match.
LEMMA ShellTypes == ShellTypeOK /\ [ShellNext]_shellVars => ShellTypeOK'
<1> SUFFICES ASSUME ShellTypeOK, [ShellNext]_shellVars PROVE ShellTypeOK' OBVIOUS
<1> USE PaletteAssumption
<1>1. \A q \in DOMAIN Matching : Len(Matching[q]) \in Nat OBVIOUS
<1> DEFINE Fits(q, i) == IF Len(Matching[q]) - 1 = -1 THEN i \in {-1, 0}
                         ELSE i \in 0 .. Len(Matching[q]) - 1
           Sound(open, q, i) == /\ open \in BOOLEAN /\ q \in DOMAIN Matching /\ Fits(q, i)
                                /\ ~open => q = NoQuery /\ i = 0
<1>2. Sound(palette, query, index) BY DEF ShellTypeOK, LastMatch
<1>3. \A q \in DOMAIN Matching : Fits(q, 0) BY <1>1
<1>4. SUFFICES /\ place' \in Places /\ more' \in BOOLEAN /\ searching' \in BOOLEAN
               /\ Sound(palette', query', index')
  BY DEF ShellTypeOK, LastMatch
<1>5. place \in Places /\ more \in BOOLEAN /\ searching \in BOOLEAN BY DEF ShellTypeOK
<1>6. ASSUME NEW b \in BOOLEAN, SetOpen(b) PROVE Sound(palette', query', index')
  <2> HIDE DEF Fits
  <2> QED BY <1>2, <1>3, <1>6 DEF SetOpen
<1>7. ASSUME palette, palette' = palette, query' = query, Fits(query, index')
      PROVE  Sound(palette', query', index')
  BY <1>2, <1>7
<1> HIDE DEF Sound
<1>8. CASE PressK \/ PressEscape \/ ClickPalette \/ ClickBeside
  <2>1. (~palette) \in BOOLEAN OBVIOUS
  <2> QED BY <1>5, <1>6, <1>8, <2>1 DEF PressK, PressEscape, ClickPalette, ClickBeside
<1>9. ASSUME UNCHANGED <<palette, query, index>> PROVE Sound(palette', query', index')
  BY <1>2, <1>9
<1>10. CASE PressG \/ OpenMore \/ CloseMore \/ TypeSearch \/ SubmitSearch
  BY <1>5, <1>9, <1>10 DEF PressG, OpenMore, CloseMore, TypeSearch, SubmitSearch
<1>11. ASSUME NEW q \in DOMAIN Matching, TypeQuery(q) PROVE <1>4!1
  <2>1. Sound(palette', query', index')
    <3>1. palette = TRUE /\ palette' = TRUE /\ query' = q /\ index' = 0
      BY <1>2, <1>11 DEF TypeQuery, Sound
    <3> HIDE DEF Fits
    <3> QED BY <1>3, <3>1 DEF Sound
  <2> QED BY <1>5, <1>11, <2>1 DEF TypeQuery
<1>12. query \in DOMAIN Matching /\ Fits(query, index) BY <1>2 DEF Sound
<1>13. LastMatch \in Int /\ LastMatch >= -1 /\ LastMatch = Len(Matching[query]) - 1
  BY <1>1, <1>12 DEF LastMatch
<1>14. CASE ArrowDown
  <2>1. index \in Int BY <1>12, <1>13
  <2>2. Fits(query, index') BY <1>12, <1>13, <1>14, <2>1 DEF ArrowDown
  <2> HIDE DEF Fits
  <2> QED BY <1>5, <1>7, <1>14, <2>2 DEF ArrowDown
<1>15. CASE ArrowUp
  <2>1. index \in Int BY <1>12, <1>13
  <2>2. Fits(query, index') BY <1>12, <1>13, <1>15, <2>1 DEF ArrowUp
  <2> HIDE DEF Fits
  <2> QED BY <1>5, <1>7, <1>15, <2>2 DEF ArrowUp
<1>16. ASSUME NEW q \in DOMAIN Matching, NEW k \in DOMAIN Matching[q], HoverCommand(k - 1)
       PROVE  <1>4!1
  <2>1. Fits(query, index') BY <1>13, <1>16 DEF HoverCommand
  <2> HIDE DEF Fits
  <2> QED BY <1>5, <1>7, <1>16, <2>1 DEF HoverCommand
<1>17. CASE RunCommand
  <2>1. index + 1 \in DOMAIN Matching[query] /\ query \in DOMAIN Matching
    <3>1. index \in 0 .. LastMatch BY <1>17 DEF RunCommand
    <3>2. Matching[query] \in Seq(Places \cup Syncs) BY <1>12
    <3> HIDE DEF Fits
    <3> QED BY <1>12, <1>13, <3>1, <3>2
  <2>2. Matching[query][index + 1] \in Places \cup Syncs
    <3>1. Matching[query] \in Seq(Places \cup Syncs) BY <2>1
    <3> QED BY <2>1, <3>1
  <2>3. place' \in Places BY <1>5, <1>17, <2>2 DEF RunCommand
  <2> QED BY <1>5, <1>6, <1>17, <2>3 DEF RunCommand
<1>18. ASSUME NEW p \in Places, ClickNav(p) \/ PickMore(p) PROVE <1>4!1
  BY <1>5, <1>9, <1>18 DEF ClickNav, PickMore
<1>19. CASE UNCHANGED shellVars BY <1>5, <1>9, <1>19 DEF shellVars
<1> QED BY <1>8, <1>10, <1>11, <1>14, <1>15, <1>16, <1>17, <1>18, <1>19 DEF ShellNext

\* A line that matches the filter is a line.
LogTyped == LogTypeOK /\ logged.match <= logged.all

LEMMA RenderLogTypes ==
  ASSUME LogTypeOK, NEW n \in 0 .. MaxLines, NEW pausing, RenderLog(n, pausing)
  PROVE  /\ top' \in 0 .. MaxLines /\ goal' \in 0 .. MaxLines
         /\ event' \in {"none", "page", "reader"} /\ reading' \in BOOLEAN
<1> DEFINE t == IF top > LastTop(n) THEN LastTop(n) ELSE top
<1>1. LastTop(n) \in 0 .. MaxLines BY LogAssumption DEF LastTop
<1>2. top \in 0 .. MaxLines /\ goal \in 0 .. MaxLines /\ t \in 0 .. MaxLines
  BY <1>1 DEF LogTypeOK
<1>3. /\ top' = t /\ Follow(t, n, pausing)
      /\ \/ UNCHANGED <<event, reading>>
         \/ event' = "page" /\ reading' = FALSE
  BY DEF RenderLog
<1> HIDE DEF t
<1>4. goal' \in 0 .. MaxLines BY <1>1, <1>2, <1>3 DEF Follow, Glided
<1> QED BY <1>2, <1>3, <1>4 DEF LogTypeOK

LEMMA LogTypes == LogTyped /\ [LogNext]_logVars => LogTyped'
<1> SUFFICES ASSUME LogTyped, [LogNext]_logVars PROVE LogTyped' OBVIOUS
<1> USE DEF LogTyped
<1>1. \A lines \in Lines, b \in BOOLEAN : Filtered(lines, b) \in 0 .. MaxLines
  BY DEF Lines, Filtered
<1>2. ASSUME NEW m \in BOOLEAN, LogLine(m) PROVE LogTyped'
  <2> DEFINE one == IF m THEN 1 ELSE 0
  <2>1. /\ logged.all \in 0 .. MaxLines /\ logged.match \in 0 .. MaxLines
        /\ logged.match <= logged.all /\ logged.all < MaxLines
    BY <1>2 DEF LogLine, LogTypeOK, Lines
  <2>2. logged' = [all |-> logged.all + 1, match |-> logged.match + one]
    BY <1>2 DEF LogLine
  <2>3. one \in 0 .. 1 OBVIOUS
  <2> HIDE DEF one
  <2>4. /\ logged.all + 1 \in 0 .. MaxLines /\ logged.match + one \in 0 .. MaxLines
        /\ logged.match + one <= logged.all + 1
    BY <2>1, <2>3, LogAssumption
  <2>5. logged' \in Lines /\ logged'.match <= logged'.all BY <2>2, <2>4 DEF Lines
  <2> QED BY <1>2, <2>5 DEF LogLine, LogTypeOK
<1>3. CASE LogsLand
  <2>1. Filtered(logged, narrow) \in 0 .. MaxLines BY <1>1 DEF LogTypeOK
  <2> QED BY <1>3, <2>1, RenderLogTypes DEF LogsLand, LogTypeOK
<1>4. CASE SetLogFilter
  <2>1. Filtered(items, ~narrow) \in 0 .. MaxLines /\ narrow' \in BOOLEAN
    BY <1>1, <1>4 DEF LogTypeOK, SetLogFilter
  <2> QED BY <1>4, <2>1, RenderLogTypes DEF SetLogFilter, LogTypeOK
<1>5. CASE PauseLogs
  <2>1. Filtered(items, narrow) \in 0 .. MaxLines /\ paused' \in BOOLEAN
    BY <1>1, <1>5 DEF LogTypeOK, PauseLogs
  <2> QED BY <1>5, <2>1, RenderLogTypes DEF PauseLogs, LogTypeOK
<1>6. CASE HearScroll
  <2>1. stick' \in BOOLEAN /\ reading' \in BOOLEAN BY <1>6 DEF HearScroll, AtEnd
  <2> QED BY <1>6, <2>1 DEF HearScroll, LogTypeOK
<1>7. ASSUME NEW t \in 0 .. MaxLines, Glide(t) \/ Scroll(t) PROVE LogTyped'
  BY <1>7 DEF Glide, Scroll, LogTypeOK
<1>8. CASE UNCHANGED logVars BY <1>8 DEF logVars, LogTypeOK
<1> QED BY <1>2, <1>3, <1>4, <1>5, <1>6, <1>7, <1>8 DEF LogNext

LEMMA CommitTypes ==
  ASSUME ValueTypeOK, NEW input \in Seq(Words \cup {NoWord}), Commit(input)
  PROVE  /\ chips' \in Seq(Words) /\ Len(chips') <= MaxChips
         /\ entry' = NoWord
<1> DEFINE additions == Kept(input, Words \ ToSet(chips))
<1>1. additions \in Seq(Words)
  <2>1. (Words \cup {NoWord}) \cap (Words \ ToSet(chips)) \subseteq Words OBVIOUS
  <2> QED BY <2>1, KeptType
<1>2. /\ Len(chips) + Len(additions) <= MaxChips
      /\ chips' = chips \o additions /\ entry' = NoWord
  BY DEF Commit
<1> HIDE DEF additions
<1> QED BY <1>1, <1>2 DEF ValueTypeOK

LEMMA WithoutTypes ==
  ASSUME ValueTypeOK, NEW w, Without(w)
  PROVE  chips' \in Seq(Words) /\ Len(chips') <= MaxChips
<1>1. chips \in Seq(Words) /\ Len(chips) <= MaxChips /\ Len(chips) \in Nat BY DEF ValueTypeOK
<1>2. Words \cap (Words \ {w}) \subseteq Words OBVIOUS
<1>3. chips' \in Seq(Words) /\ Len(chips') <= Len(chips)
  BY <1>1, <1>2, KeptType DEF Without
<1>4. Len(chips') \in Nat BY <1>3
<1> QED BY <1>1, <1>3, <1>4, ValueFieldsAssumption

LEMMA ValueTypes == ValueTypeOK /\ [ValueNext]_valueVars => ValueTypeOK'
<1> SUFFICES ASSUME ValueTypeOK, [ValueNext]_valueVars PROVE ValueTypeOK' OBVIOUS
<1>1. <<entry>> \in Seq(Words \cup {NoWord}) BY DEF ValueTypeOK
<1>2. CASE FocusField BY <1>2 DEF FocusField, menuVars, ValueTypeOK
<1>3. CASE PressEnter BY <1>1, <1>3, CommitTypes DEF PressEnter, menuVars, ValueTypeOK
<1>4. CASE PressBackspace BY <1>4, WithoutTypes DEF PressBackspace, menuVars, ValueTypeOK
<1>5. CASE BlurField BY <1>1, <1>5, CommitTypes DEF BlurField, menuVars, ValueTypeOK
<1>6. CASE ClearPicks BY <1>6 DEF ClearPicks, tokenVars, ValueTypeOK
<1>7. ASSUME NEW w \in Words, RemoveChip(w) PROVE ValueTypeOK'
  BY <1>7, WithoutTypes DEF RemoveChip, menuVars, ValueTypeOK
<1>8. ASSUME NEW w \in Words, TogglePick(w) PROVE ValueTypeOK'
  <2>1. selected' \subseteq Words BY <1>8 DEF TogglePick, ValueTypeOK
  <2> QED BY <1>8, <2>1 DEF TogglePick, tokenVars, ValueTypeOK
<1>9. ASSUME NEW w \in Words \cup {NoWord}, TypeWord(w) \/ SearchMenu(w) PROVE ValueTypeOK'
  BY <1>9 DEF TypeWord, SearchMenu, menuVars, tokenVars, ValueTypeOK
<1>10. ASSUME NEW v \in Words \cup {NoWord}, NEW w \in Words \cup {NoWord}, TypeComma(<<v, w>>)
       PROVE  ValueTypeOK'
  <2>1. <<v, w>> \in Seq(Words \cup {NoWord}) OBVIOUS
  <2> QED BY <1>10, <2>1, CommitTypes DEF TypeComma, menuVars, ValueTypeOK
<1>11. ASSUME NEW S \in SUBSET Words, OfferValues(S) PROVE ValueTypeOK'
  BY <1>11 DEF OfferValues, tokenVars, ValueTypeOK
<1>12. ASSUME NEW open \in BOOLEAN, SetMenu(open) PROVE ValueTypeOK'
  BY <1>12 DEF SetMenu, tokenVars, ValueTypeOK
<1>13. CASE UNCHANGED valueVars BY <1>13 DEF valueVars, ValueTypeOK
<1> QED BY <1>2, <1>3, <1>4, <1>5, <1>6, <1>7, <1>8, <1>9, <1>10, <1>11, <1>12, <1>13 DEF ValueNext

-----------------------------------------------------------------------------
(* The list of jobs.                                                       *)

\* A cached page is a page of as many jobs as it counts.
CachedPages ==
  \A k \in Statuses \X Offsets :
    pages[k] # NoPage =>
      pages[k].rows = Larger(0, Smaller(PageSize, pages[k].total - k[2]))

PagerInv ==
  /\ PagerTypeOK /\ CachedPages
  /\ SnappedTo(offset, shown) = offset
  /\ DataFor(<<filter, offset>>, pages, shown) = shown

\* A rendering is at rest over the pages it is given.
LEMMA RenderRests ==
  ASSUME PagerTypeOK, NEW f \in Statuses, NEW o \in Offsets,
         NEW cached \in [Statuses \X Offsets -> Shown], Render(f, o, cached)
  PROVE  /\ filter' \in Statuses /\ offset' \in Offsets /\ shown' \in Shown /\ pages' = cached
         /\ SnappedTo(offset', shown') = offset'
         /\ DataFor(<<filter', offset'>>, pages', shown') = shown'
<1> DEFINE end == Rest(f, cached)[<<o, shown>>]
<1>1. <<o, shown>> \in Offsets \X Shown BY DEF PagerTypeOK, Shown
<1>2. /\ end \in Offsets \X Shown
      /\ SnappedTo(end[1], end[2]) = end[1]
      /\ DataFor(<<f, end[1]>>, cached, end[2]) = end[2]
  <2> HIDE DEF Shown
  <2> QED BY <1>1, RestType
<1>3. filter' = f /\ offset' = end[1] /\ shown' = end[2] /\ pages' = cached BY DEF Render
<1> HIDE DEF end
<1> QED BY <1>2, <1>3

LEMMA VisitKeeps ==
  ASSUME PagerInv, NEW f \in Statuses, NEW o \in Offsets, Visit(f, o)
  PROVE  PagerInv'
<1>1. pages \in [Statuses \X Offsets -> Shown] BY DEF PagerInv, PagerTypeOK, Shown
<1>2. /\ filter' \in Statuses /\ offset' \in Offsets /\ shown' \in Shown /\ pages' = pages
      /\ SnappedTo(offset', shown') = offset'
      /\ DataFor(<<filter', offset'>>, pages', shown') = shown'
  BY <1>1, RenderRests DEF Visit, PagerInv
<1>3. polls' \subseteq Statuses \X Offsets
  <2>1. polls' = polls \cup {<<filter', offset'>>} \/ polls' = polls BY DEF Visit
  <2> QED BY <1>2, <2>1 DEF PagerInv, PagerTypeOK
<1>4. clicks' \in 0 .. MaxClicks BY PagerAssumption DEF Visit, PagerInv, PagerTypeOK
<1> QED BY <1>2, <1>3, <1>4 DEF Visit, PagerInv, PagerTypeOK, CachedPages, Shown

LEMMA PagerStarts == PagerInit => PagerInv
<1> SUFFICES ASSUME PagerInit PROVE PagerInv OBVIOUS
<1>1. 0 \in Offsets
  <2>1. 0 \in 0 .. MaxJobs \div PageSize /\ PageSize * 0 = 0 BY PagerAssumption
  <2> QED BY <2>1 DEF Offsets
<1>2. PagerTypeOK BY <1>1, PagerAssumption DEF PagerInit, PagerTypeOK
<1>3. \A k \in Statuses \X Offsets : pages[k] = NoPage BY DEF PagerInit
<1> QED BY <1>1, <1>2, <1>3 DEF PagerInit, PagerInv, CachedPages, SnappedTo, DataFor

LEMMA PagerStep == PagerInv /\ [PagerNext]_pagerVars => PagerInv'
<1> SUFFICES ASSUME PagerInv, [PagerNext]_pagerVars PROVE PagerInv' OBVIOUS
<1>1. offset \in Offsets /\ filter \in Statuses BY DEF PagerInv, PagerTypeOK
<1>2. CASE PrevPage
  <2>1. PICK n \in 0 .. MaxJobs \div PageSize : offset = PageSize * n BY <1>1 DEF Offsets
  <2>2. n >= 1 BY <1>2, <2>1, PagerAssumption DEF PrevPage
  <2>3. /\ offset - PageSize = PageSize * (n - 1) /\ n - 1 \in 0 .. MaxJobs \div PageSize
        /\ n - 1 \in Nat
    BY <2>1, <2>2, PageBefore, PagerAssumption
  <2>4. PageSize * (n - 1) >= 0 BY <2>3, PagerAssumption
  <2>5. PageSize * (n - 1) \in Offsets BY <2>3 DEF Offsets
  <2>6. Larger(0, offset - PageSize) = PageSize * (n - 1)
    <3>1. Larger(0, offset - PageSize) = Larger(0, PageSize * (n - 1)) BY <2>3
    <3>2. PageSize * (n - 1) \in Int BY <2>5, OffsetsBounded
    <3> QED BY <2>4, <3>1, <3>2 DEF Larger
  <2> QED BY <1>1, <1>2, <2>5, <2>6, VisitKeeps DEF PrevPage
<1>3. CASE NextPage BY <1>1, <1>3, VisitKeeps DEF NextPage
<1>4. CASE PollJobs BY <1>1, <1>4 DEF PollJobs, PagerInv, PagerTypeOK, CachedPages
<1>5. ASSUME NEW f \in Statuses, SelectStatus(f) PROVE PagerInv'
  <2>1. 0 \in Offsets
    <3>1. 0 \in 0 .. MaxJobs \div PageSize /\ PageSize * 0 = 0 BY PagerAssumption
    <3> QED BY <3>1 DEF Offsets
  <2> QED BY <1>5, <2>1, VisitKeeps DEF SelectStatus
<1>6. ASSUME NEW f \in Statuses, NEW n \in 0 .. MaxJobs, JobsChange(f, n) PROVE PagerInv'
  <2>1. jobs' \in [Statuses -> 0 .. MaxJobs] BY <1>6 DEF JobsChange, PagerInv, PagerTypeOK
  <2>2. shrinks' \in 0 .. MaxShrinks
    BY <1>6, PagerAssumption DEF JobsChange, PagerInv, PagerTypeOK
  <2> QED BY <1>6, <2>1, <2>2 DEF JobsChange, PagerInv, PagerTypeOK, CachedPages
<1>7. ASSUME NEW k \in polls, JobsLand(k) PROVE PagerInv'
  <2> DEFINE answer == [total |-> jobs[k[1]],
                        rows |-> Larger(0, Smaller(PageSize, jobs[k[1]] - k[2]))]
             cached == [pages EXCEPT ![k] = answer]
  <2>1. k \in Statuses \X Offsets BY DEF PagerInv, PagerTypeOK
  <2>2. jobs[k[1]] \in 0 .. MaxJobs /\ k[2] \in Int
    <3>1. k[1] \in Statuses /\ k[2] \in Offsets BY <2>1
    <3> QED BY <3>1, OffsetsBounded DEF PagerInv, PagerTypeOK
  <2>3. answer \in Pages BY <2>2, PagerAssumption DEF Pages, Larger, Smaller
  <2>4. answer.rows = Larger(0, Smaller(PageSize, answer.total - k[2])) OBVIOUS
  <2>5. Render(filter, offset, cached) /\ polls' = polls \ {k} /\ UNCHANGED <<jobs, clicks, shrinks>>
    BY <1>7 DEF JobsLand
  <2> HIDE DEF answer
  <2>6. cached \in [Statuses \X Offsets -> Shown] BY <2>3 DEF PagerInv, PagerTypeOK, Shown
  <2>7. \A j \in Statuses \X Offsets : cached[j] = IF j = k THEN answer ELSE pages[j]
    BY DEF PagerInv, PagerTypeOK
  <2> HIDE DEF cached
  <2>8. /\ filter' \in Statuses /\ offset' \in Offsets /\ shown' \in Shown /\ pages' = cached
        /\ SnappedTo(offset', shown') = offset'
        /\ DataFor(<<filter', offset'>>, pages', shown') = shown'
    BY <1>1, <2>5, <2>6, RenderRests DEF PagerInv
  <2>9. CachedPages' BY <2>4, <2>7, <2>8 DEF PagerInv, CachedPages
  <2> QED BY <2>5, <2>6, <2>8, <2>9 DEF PagerInv, PagerTypeOK, Shown
<1>8. CASE UNCHANGED pagerVars BY <1>8 DEF pagerVars, PagerInv, PagerTypeOK, CachedPages
<1> QED BY <1>2, <1>3, <1>4, <1>5, <1>6, <1>7, <1>8 DEF PagerNext

\* The table of jobs never shows an empty page of a list that has rows by the
\* page's own answer, however the jobs shrank, and whichever page or status was
\* turned to (clampPageOffset, and keeping the page before).
THEOREM NoEmptyPages == WebSpec => []NoEmptyPageShown
<1>1. WebInit => PagerInv BY PagerStarts DEF WebInit
<1>2. PagerInv /\ [WebNext]_webVars => PagerInv' BY PagesMove, PagerStep
<1>3. PagerInv => NoEmptyPageShown
  <2> SUFFICES ASSUME PagerInv, pages[<<filter, offset>>] # NoPage
               PROVE  /\ shown = pages[<<filter, offset>>]
                      /\ shown.total > 0 => shown.rows > 0
    BY DEF NoEmptyPageShown
  <2>1. shown = pages[<<filter, offset>>] BY DEF PagerInv, DataFor
  <2>2. <<filter, offset>> \in Statuses \X Offsets BY DEF PagerInv, PagerTypeOK
  <2>3. shown \in Pages /\ shown # NoPage BY <2>1, <2>2 DEF PagerInv, PagerTypeOK
  <2>4. shown.rows = Larger(0, Smaller(PageSize, shown.total - offset))
    BY <2>1, <2>2 DEF PagerInv, CachedPages
  <2>5. ClampPageOffset(offset, shown.total) = offset BY <2>3 DEF PagerInv, SnappedTo
  <2>6. shown.total \in 0 .. MaxJobs /\ offset \in Nat
    BY <2>2, <2>3, OffsetsBounded DEF Pages
  <2>7. ASSUME shown.total > 0 PROVE offset < shown.total
    <3> SUFFICES ASSUME ~(offset < shown.total) PROVE FALSE OBVIOUS
    <3> DEFINE q == (shown.total - 1) \div PageSize
    <3>0. shown.total \in 1 .. MaxJobs BY <2>6, <2>7
    <3>1. PageSize * q \in 0 .. shown.total - 1
      BY <3>0, LastMultiple, PagerAssumption
    <3>2. q * PageSize = PageSize * q BY <3>0, LastMultiple, PagerAssumption
    <3>3. ClampPageOffset(offset, shown.total) = PageSize * q
      BY <2>6, <2>7, <3>1, <3>2 DEF ClampPageOffset, Larger
    <3> HIDE DEF q
    <3> QED BY <2>5, <2>6, <3>1, <3>3
  <2> QED BY <2>1, <2>4, <2>6, <2>7, PagerAssumption DEF Larger, Smaller
<1> QED BY <1>1, <1>2, <1>3, PTL DEF WebSpec
=============================================================================
