---------------------------- MODULE ViewsProofs -----------------------------
(***************************************************************************)
(* Proofs about what others see of the database: Dashboard for every set   *)
(* of models and tabs and any number of runs and events under way, CtiBoard*)
(* for every set of runs and tasks, Hub for every set of models, runs and  *)
(* results.                                                                *)
(***************************************************************************)
EXTENDS Dashboard, CtiBoard, Hub, PicksProofs

(* The dashboard                                                           *)

Names  == Models \cup {All}
RunIds == {NoRun} \cup (Models \X Nat)
Row    == [model : Names, run : RunIds]
Viewer == [row : Row, run : RunIds, alone : BOOLEAN]
Answer == [tab : Tabs, rows : Row, viewer : Viewer]

DashboardTypes ==
  /\ latest \in [Models -> Nat] /\ active \subseteq Models
  /\ known \subseteq Models
  /\ filter \in [Tabs -> Names]
  /\ events \in [Tabs -> Seq(Names)]
  /\ answers \in Seq(Answer)
  /\ held \in [Tabs -> RunIds]
  /\ rows \in [Tabs -> Row]
  /\ click \in [Tabs -> [row : Row, alone : BOOLEAN]]
  /\ viewer \in [Tabs -> Viewer]

(* An answer that replaces the rows of a tab                               *)
Refills(a, t) == a.tab = t /\ a.viewer = NoViewer

(* With the answers of s still to come, a tab that shows a run will show   *)
(* the one that is kept.                                                   *)
Agree(s, t, kept, shown) ==
  \/ (\A i \in 1..Len(s) : ~Refills(s[i], t)) /\ shown = kept
  \/ \E i \in 1..Len(s) : /\ Refills(s[i], t) /\ s[i].rows.run = kept
                          /\ \A j \in (i + 1)..Len(s) : ~Refills(s[j], t)

(* The run the server keeps is the one of the rows the browser shows, or   *)
(* will show when the last answer that replaces them has arrived.          *)
KeptIsShown == \A t \in Tabs : Agree(answers, t, held[t], rows[t].run)

(* A click made with nothing under way finds the run kept for its row ...  *)
ClickFindsRun == \A t \in Tabs :
  click[t].row # NoRows /\ click[t].alone => held[t] = click[t].row.run

(* ... and what is opened for it is of that run.                           *)
Right(v) == v.alone => v.run = v.row.run
OpenedIsRight ==
  /\ \A i \in 1..Len(answers) : Right(answers[i].viewer)
  /\ \A t \in Tabs : Right(viewer[t])

DashboardInv == DashboardTypes /\ KeptIsShown /\ ClickFindsRun /\ OpenedIsRight

LEMMA DashboardStart == DashboardInit => DashboardInv
BY DEF DashboardInit, DashboardInv, DashboardTypes, KeptIsShown, ClickFindsRun,
       Agree, OpenedIsRight, Right, NewSession, NoRows, NoClick, NoViewer, NoRun, RunIds, Row,
       Viewer, Answer, Names

(* A name that is looked up is one the page knows, or none.                *)
LEMMA LookupType ==
  ASSUME known \subseteq Models, NEW name
  PROVE  Lookup(name) \in Names
BY DEF Lookup, Names

LEMMA DetailType ==
  ASSUME DashboardTypes, NEW m \in Names
  PROVE  FetchModelDetail(m) \in Row
BY DEF DashboardTypes, FetchModelDetail, Row, RunIds, Names, NoRows, NoRun

LEMMA ChangedType ==
  ASSUME DashboardTypes, NEW t \in Tabs, NEW m \in Names
  PROVE  Changed(t, m) \in Seq(Names)
BY AppendProperties DEF DashboardTypes, Changed

(* What a load, a filter or a click in the leaderboard changes.            *)
LEMMA FrameStep ==
  ASSUME DashboardInv, UNCHANGED <<answers, held, rows, click, viewer>>
  PROVE  KeptIsShown' /\ ClickFindsRun' /\ OpenedIsRight'
BY DEF DashboardInv, KeptIsShown, ClickFindsRun, OpenedIsRight

(* What an answer that is added, or one that arrives, does to a tab        *)
LEMMA AgreeAppend ==
  ASSUME NEW s \in Seq(Answer), NEW a \in Answer, NEW t, NEW kept, NEW shown
  PROVE  /\ Refills(a, t) => Agree(Append(s, a), t, a.rows.run, shown)
         /\ ~Refills(a, t) /\ Agree(s, t, kept, shown) => Agree(Append(s, a), t, kept, shown)
<1>. DEFINE n == Len(s)
            z == Append(s, a)
<1>1. /\ n \in Nat /\ Len(z) = n + 1 /\ z[n + 1] = a
      /\ \A i \in 1..n : z[i] = s[i]
  BY AppendProperties, LenProperties
<1>. HIDE DEF n, z
<1>2. CASE Refills(a, t)
  BY <1>1, <1>2 DEF Agree
<1>3. ASSUME ~Refills(a, t), Agree(s, t, kept, shown)
      PROVE  Agree(z, t, kept, shown)
  <2>1. CASE (\A i \in 1..n : ~Refills(s[i], t)) /\ shown = kept
    BY <1>1, <1>3, <2>1 DEF Agree
  <2>2. CASE \E i \in 1..n : /\ Refills(s[i], t) /\ s[i].rows.run = kept
                            /\ \A j \in (i + 1)..n : ~Refills(s[j], t)
    <3>1. PICK i \in 1..n : /\ Refills(s[i], t) /\ s[i].rows.run = kept
                            /\ \A j \in (i + 1)..n : ~Refills(s[j], t)
      BY <2>2
    <3>2. \A j \in (i + 1)..(n + 1) : ~Refills(z[j], t)
      BY <1>1, <1>3, <3>1
    <3>. QED
      BY <1>1, <3>1, <3>2 DEF Agree
  <2>. QED
    BY <1>3, <2>1, <2>2 DEF Agree, n
<1>. QED
  BY <1>2, <1>3 DEF z

LEMMA AgreeTail ==
  ASSUME NEW s \in Seq(Answer), s # << >>, NEW t, NEW kept, NEW shown,
         Agree(s, t, kept, shown)
  PROVE  Agree(Tail(s), t, kept, IF Refills(Head(s), t) THEN Head(s).rows.run ELSE shown)
<1>. DEFINE n == Len(s)
            z == Tail(s)
<1>1. /\ n \in Nat \ {0} /\ Head(s) = s[1] /\ Len(z) = n - 1
      /\ \A i \in 1..(n - 1) : z[i] = s[i + 1]
  BY HeadTailProperties, EmptySeq, LenProperties
<1>. HIDE DEF n, z
<1>2. CASE (\A i \in 1..n : ~Refills(s[i], t)) /\ shown = kept
  <2>1. ~Refills(s[1], t) /\ \A j \in 1..(n - 1) : ~Refills(z[j], t)
    BY <1>1, <1>2
  <2>. QED
    BY <1>1, <1>2, <2>1 DEF Agree, z
<1>3. CASE \E i \in 1..n : /\ Refills(s[i], t) /\ s[i].rows.run = kept
                          /\ \A j \in (i + 1)..n : ~Refills(s[j], t)
  <2>1. PICK i \in 1..n : /\ Refills(s[i], t) /\ s[i].rows.run = kept
                          /\ \A j \in (i + 1)..n : ~Refills(s[j], t)
    BY <1>3
  <2>2. \A j \in 1..(n - 1) : j >= i => ~Refills(z[j], t)
    BY <1>1, <2>1
  <2>3. CASE i = 1
    BY <1>1, <2>1, <2>2, <2>3 DEF Agree, z
  <2>4. CASE i # 1
    <3>1. i - 1 \in 1..(n - 1) /\ z[i - 1] = s[i]
      BY <1>1, <2>1, <2>4
    <3>2. \A j \in ((i - 1) + 1)..Len(z) : ~Refills(z[j], t)
      BY <1>1, <2>1, <2>2, <2>4
    <3>. QED
      BY <1>1, <2>1, <3>1, <3>2 DEF Agree, z
  <2>. QED
    BY <2>3, <2>4
<1>. QED
  BY <1>2, <1>3 DEF Agree, n

(* Rows on their way with the run kept for them                            *)
LEMMA ShowStep ==
  ASSUME DashboardInv, NEW t \in Tabs, NEW m \in Names, Show(t, m),
         UNCHANGED <<rows, viewer>>
  PROVE  /\ answers' \in Seq(Answer) /\ held' \in [Tabs -> RunIds]
         /\ click' \in [Tabs -> [row : Row, alone : BOOLEAN]]
         /\ KeptIsShown' /\ ClickFindsRun' /\ OpenedIsRight'
<1>. USE DEF DashboardInv, DashboardTypes
<1>. DEFINE d == FetchModelDetail(m)
            a == [tab |-> t, rows |-> d, viewer |-> NoViewer]
            n == Len(answers)
<1>1. d \in Row
  BY DetailType
<1>2. NoViewer \in Viewer
  BY DEF NoViewer, Viewer, NoRows, NoRun, Row, RunIds, Names
<1>3. a \in Answer
  BY <1>1, <1>2 DEF Answer
<1>4. /\ held' = [held EXCEPT ![t] = d.run]
      /\ answers' = Append(answers, a)
      /\ click' = [click EXCEPT ![t].alone = FALSE]
  BY DEF Show, RunToKeep
<1>5. d.run \in RunIds
  BY <1>1 DEF Row
<1>. HIDE DEF d, a
<1>6. /\ n \in Nat /\ Len(answers') = n + 1 /\ answers'[n + 1] = a
      /\ \A i \in 1..n : answers'[i] = answers[i]
      /\ answers' \in Seq(Answer)
  BY <1>3, <1>4, AppendProperties, LenProperties
<1>7. a.tab = t /\ a.rows = d /\ a.viewer = NoViewer
  BY DEF a
<1>8. held'[t] = d.run /\ \A u \in Tabs \ {t} : held'[u] = held[u]
  BY <1>4
<1>9. KeptIsShown'
  <2>. SUFFICES ASSUME NEW u \in Tabs
                PROVE  Agree(answers', u, held'[u], rows[u].run)
    BY DEF KeptIsShown
  <2>1. Refills(a, u) <=> u = t
    BY <1>7 DEF Refills
  <2>. QED
    BY <1>3, <1>4, <1>7, <1>8, <2>1, AgreeAppend DEF KeptIsShown
<1>10. /\ click' \in [Tabs -> [row : Row, alone : BOOLEAN]]
       /\ click'[t].alone = FALSE
       /\ \A u \in Tabs \ {t} : click'[u] = click[u]
  BY <1>4
<1>11. ClickFindsRun'
  BY <1>8, <1>10 DEF ClickFindsRun
<1>12. OpenedIsRight'
  <2>1. Right(a.viewer)
    BY <1>7 DEF Right, NoViewer, NoRows
  <2>2. \A i \in 1..n : Right(answers[i].viewer)
    BY DEF OpenedIsRight
  <2>3. \A i \in 1..Len(answers') : Right(answers'[i].viewer)
    BY ONLY <2>1, <2>2, <1>6
  <2>. QED
    BY <2>3 DEF OpenedIsRight
<1>. QED
  BY <1>4, <1>5, <1>6, <1>9, <1>10, <1>11, <1>12

(* A row is clicked, with everything answered or not.                      *)
LEMMA ClickStep ==
  ASSUME DashboardInv, NEW t \in Tabs, ClickRow(t)
  PROVE  DashboardInv'
<1>. USE DEF DashboardInv, DashboardTypes
<1>1. /\ click' = [click EXCEPT ![t] = [row |-> rows[t], alone |-> NumEvents(t) = 0]]
      /\ UNCHANGED <<data, risks, known, filter, events, answers, held, rows, viewer>>
  BY DEF ClickRow
<1>2. click'[t] = [row |-> rows[t], alone |-> NumEvents(t) = 0]
      /\ \A u \in Tabs \ {t} : click'[u] = click[u]
  BY <1>1
<1>3. NumEvents(t) = 0 => held[t] = rows[t].run
  <2>1. Len(answers) \in Nat /\ Len(events[t]) \in Nat
    BY LenProperties
  <2>2. NumEvents(t) = 0 => Len(answers) = 0
    BY <2>1 DEF NumEvents
  <2>. QED
    BY <2>2 DEF KeptIsShown, Agree
<1>4. ClickFindsRun'
  BY <1>1, <1>2, <1>3 DEF ClickFindsRun
<1>5. DashboardTypes'
  BY <1>1 DEF data
<1>6. KeptIsShown' /\ OpenedIsRight'
  BY <1>1 DEF KeptIsShown, OpenedIsRight
<1>. QED
  BY <1>4, <1>5, <1>6

(* The server answers a click with the run it keeps by then.               *)
LEMMA OpenStep ==
  ASSUME DashboardInv, NEW t \in Tabs, Open(t)
  PROVE  DashboardInv'
<1>. USE DEF DashboardInv, DashboardTypes
<1>. DEFINE v == [row |-> click[t].row, run |-> held[t], alone |-> click[t].alone]
            a == [tab |-> t, rows |-> NoRows, viewer |-> v]
            n == Len(answers)
<1>1. /\ click[t].row # NoRows
      /\ answers' = Append(answers, a)
      /\ click' = [click EXCEPT ![t] = NoClick]
      /\ UNCHANGED <<data, risks, known, filter, events, held, rows, viewer>>
  BY DEF Open, RunOfRow
<1>2. NoRows \in Row
  BY DEF NoRows, NoRun, Row, RunIds, Names
<1>3. v \in Viewer /\ v # NoViewer /\ Right(v)
  BY <1>1 DEF Viewer, NoViewer, Right, ClickFindsRun
<1>. HIDE DEF v
<1>4. a \in Answer /\ a.viewer = v /\ ~\E u \in Tabs : Refills(a, u)
  BY <1>2, <1>3 DEF Answer, Refills
<1>. HIDE DEF a
<1>5. /\ n \in Nat /\ Len(answers') = n + 1 /\ answers'[n + 1] = a
      /\ \A i \in 1..n : answers'[i] = answers[i]
      /\ answers' \in Seq(Answer)
  BY <1>1, <1>4, AppendProperties, LenProperties
<1>6. /\ click' \in [Tabs -> [row : Row, alone : BOOLEAN]]
      /\ click'[t] = NoClick
      /\ \A u \in Tabs \ {t} : click'[u] = click[u]
  BY <1>1, <1>2 DEF NoClick
<1>7. DashboardTypes'
  BY <1>1, <1>5, <1>6 DEF data
<1>8. ClickFindsRun'
  BY <1>1, <1>6 DEF ClickFindsRun, NoClick
<1>9. OpenedIsRight'
  BY <1>1, <1>3, <1>4, <1>5 DEF OpenedIsRight
<1>10. KeptIsShown'
  BY <1>1, <1>4, AgreeAppend DEF KeptIsShown
<1>. QED
  BY <1>7, <1>8, <1>9, <1>10

(* The first answer arrives.                                               *)
LEMMA DeliverStep ==
  ASSUME DashboardInv, Deliver
  PROVE  DashboardInv'
<1>. USE DEF DashboardInv, DashboardTypes
<1>. DEFINE a == Head(answers)
            n == Len(answers)
<1>1. /\ answers # << >>
      /\ rows' = IF a.viewer = NoViewer THEN [rows EXCEPT ![a.tab] = a.rows] ELSE rows
      /\ viewer' = [viewer EXCEPT ![a.tab] = a.viewer]
      /\ answers' = Tail(answers)
      /\ UNCHANGED <<data, risks, known, filter, events, held, click>>
  BY DEF Deliver
<1>2. /\ n \in Nat \ {0} /\ a = answers[1] /\ a \in Answer
      /\ answers' \in Seq(Answer) /\ Len(answers') = n - 1
      /\ \A i \in 1..(n - 1) : answers'[i] = answers[i + 1]
  BY <1>1, HeadTailProperties, EmptySeq, LenProperties
<1>3. a.tab \in Tabs /\ a.rows \in Row /\ a.viewer \in Viewer
  BY <1>2 DEF Answer
<1>. HIDE DEF a
<1>4. rows' \in [Tabs -> Row] /\ viewer' \in [Tabs -> Viewer]
  BY <1>1, <1>3
<1>5. DashboardTypes'
  BY <1>1, <1>2, <1>4 DEF data
<1>6. ClickFindsRun'
  BY <1>1 DEF ClickFindsRun
<1>7. OpenedIsRight'
  <2>1. Right(a.viewer)
    BY <1>2 DEF OpenedIsRight
  <2>2. \A t \in Tabs : Right(viewer'[t])
    BY <2>1, <1>1, <1>3 DEF OpenedIsRight
  <2>3. \A i \in 1..n : Right(answers[i].viewer)
    BY DEF OpenedIsRight
  <2>4. \A i \in 1..Len(answers') : Right(answers'[i].viewer)
    BY ONLY <2>3, <1>2
  <2>. QED
    BY <2>2, <2>4 DEF OpenedIsRight
<1>8. KeptIsShown'
  <2>. SUFFICES ASSUME NEW u \in Tabs
                PROVE  Agree(answers', u, held[u], rows'[u].run)
    BY <1>1 DEF KeptIsShown
  <2>1. rows'[u].run = IF Refills(a, u) THEN a.rows.run ELSE rows[u].run
    BY <1>1, <1>3 DEF Refills
  <2>. QED
    BY <1>1, <2>1, AgreeTail DEF KeptIsShown, a
<1>. QED
  BY <1>5, <1>6, <1>7, <1>8

LEMMA DashboardStep ==
  ASSUME DashboardInv, [DashboardNext]_dashboardVars
  PROVE  DashboardInv'
<1>. USE DEF DashboardInv, DashboardTypes
<1>1. ASSUME NEW m \in Models, ScanCompletes(m) \/ Archive(m)
      PROVE  DashboardInv'
  <2>1. /\ UNCHANGED <<known, filter, events, answers, held, rows, click, viewer>>
        /\ latest' \in [Models -> Nat] /\ active' \subseteq Models
    BY <1>1 DEF ScanCompletes, Archive, session
  <2>2. DashboardTypes'
    BY <2>1
  <2>. QED
    BY <2>1, <2>2, FrameStep
<1>2. ASSUME Load PROVE DashboardInv'
  <2>1. /\ UNCHANGED data /\ known' = FetchModels /\ answers' = << >>
        /\ filter' = NewSession.filter /\ events' = NewSession.events
        /\ held' = NewSession.held /\ rows' = NewSession.rows
        /\ click' = NewSession.click /\ viewer' = NewSession.viewer
    BY <1>2 DEF Load
  <2>2. FetchModels \subseteq Models
    BY DEF FetchModels
  <2>3. DashboardTypes'
    BY <2>1, <2>2 DEF NewSession, data, NoRows, NoClick, NoViewer, NoRun, RunIds, Row,
                      Viewer, Names
  <2>4. KeptIsShown' /\ ClickFindsRun' /\ OpenedIsRight'
    BY <2>1 DEF NewSession, NoRows, NoClick, NoViewer, KeptIsShown, Agree,
                ClickFindsRun, OpenedIsRight, Right
  <2>. QED
    BY <2>3, <2>4
<1>3. ASSUME OnRiskFilterChange PROVE DashboardInv'
  BY <1>3, FrameStep DEF OnRiskFilterChange, data
<1>4. ASSUME NEW t \in Tabs, NEW cell, OnRiskRowClick(t, cell) \/ OnLbRowClick(t, cell)
      PROVE  DashboardInv'
  <2>1. PICK m \in Names :
          /\ filter' = [filter EXCEPT ![t] = m]
          /\ \/ events' = [events EXCEPT ![t] = Append(@, m)]
             \/ events' = [events EXCEPT ![t] = Append(Changed(t, m), m)]
          /\ UNCHANGED <<data, risks, known, viewer, rows, answers, held, click>>
    BY <1>4, LookupType DEF OnRiskRowClick, OnLbRowClick, Drill
  <2>2. Append(events[t], m) \in Seq(Names) /\ Append(Changed(t, m), m) \in Seq(Names)
    BY ChangedType, AppendProperties
  <2>3. events' \in [Tabs -> Seq(Names)]
    BY <2>1, <2>2
  <2>. QED
    BY <2>1, <2>3, FrameStep DEF data
<1>5. ASSUME NEW t \in Tabs, NEW cell, LiteOnRiskRowClick(t, cell)
      PROVE  DashboardInv'
  <2>1. PICK m \in Names :
          /\ filter' = [filter EXCEPT ![t] = m]
          /\ Show(t, m)
          /\ events' = [events EXCEPT ![t] = Changed(t, m)]
          /\ UNCHANGED <<data, risks, known, viewer, rows>>
    BY <1>5, LookupType DEF LiteOnRiskRowClick, Drill
  <2>. QED
    BY <2>1, ShowStep, ChangedType DEF data
<1>6. ASSUME NEW t \in Tabs, NEW m \in known, ChooseModel(t, m)
      PROVE  DashboardInv'
  <2>1. m \in Names
    BY DEF Names
  <2>. QED
    BY <1>6, <2>1, ChangedType, FrameStep DEF ChooseModel, data
<1>7. ASSUME NEW t \in Tabs, SelectTab(t) PROVE DashboardInv'
  BY <1>7, AppendProperties, FrameStep DEF SelectTab, data
<1>8. ASSUME NEW t \in Tabs, OnRefresh(t) PROVE DashboardInv'
  <2>1. FetchModels \subseteq Models /\ All \in Names
    BY DEF FetchModels, Names
  <2>. QED
    BY <1>8, <2>1, ChangedType, FrameStep DEF OnRefresh, data
<1>9. ASSUME NEW t \in Tabs, ClickRow(t) PROVE DashboardInv'
  BY <1>9, ClickStep
<1>10. ASSUME NEW t \in Tabs, Follow(t) PROVE DashboardInv'
  <2>1. Head(events[t]) \in Names /\ Tail(events[t]) \in Seq(Names)
    BY <1>10, HeadTailProperties DEF Follow
  <2>2. Show(t, Head(events[t])) /\ UNCHANGED <<rows, viewer>>
    BY <1>10 DEF Follow
  <2>. QED
    BY <1>10, <2>1, <2>2, ShowStep DEF Follow, data
<1>11. ASSUME NEW t \in Tabs, Open(t) PROVE DashboardInv'
  BY <1>11, OpenStep
<1>12. ASSUME Deliver PROVE DashboardInv'
  BY <1>12, DeliverStep
<1>13. ASSUME UNCHANGED dashboardVars PROVE DashboardInv'
  BY <1>13, FrameStep DEF dashboardVars, data, session
<1>. HIDE DEF DashboardInv, DashboardTypes
<1>. QED
  BY <1>1, <1>2, <1>3, <1>4, <1>5, <1>6, <1>7, <1>8, <1>9, <1>10, <1>11, <1>12, <1>13
  DEF DashboardNext, OnLoad, LiteOnLoad, CtiOnLoad, OnProbeFilterChange,
      LiteOnProbeFilterChange, OnModelChange, OnProbeSelect, OnTaskSelect

(* Once everything is answered, the run id the server keeps for a tab is   *)
(* the run of the rows the browser shows in it (dashboard handlers).       *)
THEOREM DashboardRows == DashboardSpec => []RowsAndRunAgree
<1>1. DashboardInv => RowsAndRunAgree
  BY DEF DashboardInv, DashboardTypes, KeptIsShown, Agree, RowsAndRunAgree
<1>. QED
  BY <1>1, DashboardStart, DashboardStep, PTL DEF DashboardSpec

(* What is shown of a row that was clicked with nothing under way is of    *)
(* the row's run, whatever completed meanwhile.                            *)
THEOREM DashboardViewer == DashboardSpec => []ViewerOfClickedRun
<1>1. DashboardInv => ViewerOfClickedRun
  BY DEF DashboardInv, OpenedIsRight, Right, ViewerOfClickedRun
<1>. QED
  BY <1>1, DashboardStart, DashboardStep, PTL DEF DashboardSpec
-----------------------------------------------------------------------------
(* The boards of CTI runs                                                  *)

Positions == {i \in 1..Len(finished) : verdict[finished[i]] = "complete"}

Verdicts == {"none", "complete", "failed"}

(* Every run is finished once, and has a verdict from then on.             *)
BenchInv ==
  /\ finished \in Seq(Runs)
  /\ verdict \in [Runs -> Verdicts]
  /\ score \in [Runs -> Scores \cup {NoScore}]
  /\ \A r \in Runs : verdict[r] # "none" <=> \E i \in 1..Len(finished) : finished[i] = r
  /\ \A i, j \in 1..Len(finished) : finished[i] = finished[j] => i = j

LEMMA BenchStart == BenchInit => BenchInv
<1>1. BenchInit => finished \in Seq(Runs) /\ Len(finished) = 0 /\ 1..0 = {}
  BY DEF BenchInit
<1>2. BenchInit => verdict \in [Runs -> Verdicts] /\ \A r \in Runs : verdict[r] = "none"
  BY DEF BenchInit, Verdicts
<1>3. BenchInit => score \in [Runs -> Scores \cup {NoScore}]
  BY DEF BenchInit
<1>. QED
  BY <1>1, <1>2, <1>3 DEF BenchInv

LEMMA BenchStep == BenchInv /\ [BenchNext]_benchVars => BenchInv'
<1>. SUFFICES ASSUME BenchInv, [BenchNext]_benchVars PROVE BenchInv'
  OBVIOUS
<1>1. ASSUME NEW r \in Runs, FinishBench(r) PROVE BenchInv'
  <2>1. /\ finished' \in Seq(Runs) /\ Len(finished') = Len(finished) + 1
        /\ finished'[Len(finished) + 1] = r
        /\ \A i \in 1..Len(finished) : finished'[i] = finished[i]
    BY <1>1, AppendProperties DEF FinishBench, BenchInv
  <2>2. Len(finished) \in Nat
    BY LenProperties DEF BenchInv
  <2>3. /\ verdict' \in [Runs -> Verdicts] /\ verdict'[r] # "none"
        /\ \A q \in Runs \ {r} : verdict'[q] = verdict[q]
    <3>1. PICK s \in {"complete", "failed"} : verdict' = [verdict EXCEPT ![r] = s]
      BY <1>1 DEF FinishBench
    <3>2. s \in Verdicts /\ s # "none"
      BY <3>1 DEF Verdicts
    <3>. QED
      BY <3>1, <3>2 DEF BenchInv
  <2>4. score' \in [Runs -> Scores \cup {NoScore}]
    BY <1>1 DEF FinishBench, BenchInv
  <2>5. \A i \in 1..Len(finished) : finished[i] # r
    BY <1>1 DEF FinishBench, BenchInv
  <2>6. \A i \in 1..Len(finished') : i \in 1..Len(finished) \/ i = Len(finished) + 1
    BY <2>1, <2>2
  <2>7. \A i, j \in 1..Len(finished') : finished'[i] = finished'[j] => i = j
    BY <2>1, <2>5, <2>6 DEF BenchInv
  <2>8. \A q \in Runs : verdict'[q] # "none" <=> \E i \in 1..Len(finished') : finished'[i] = q
    <3>1. 1..Len(finished) \subseteq 1..Len(finished') /\ Len(finished) + 1 \in 1..Len(finished')
      BY <2>1, <2>2
    <3>2. \A q \in Runs : verdict[q] # "none" <=> \E i \in 1..Len(finished) : finished[i] = q
      BY DEF BenchInv
    <3>3. ASSUME NEW q \in Runs, verdict'[q] # "none"
          PROVE  \E i \in 1..Len(finished') : finished'[i] = q
      <4>1. CASE q = r
        BY <2>1, <3>1, <4>1
      <4>2. CASE q # r
        <5>1. PICK i \in 1..Len(finished) : finished[i] = q
          BY <2>3, <3>2, <3>3, <4>2
        <5>2. finished'[i] = q /\ i \in 1..Len(finished')
          BY <2>1, <3>1, <5>1
        <5>. QED
          BY <5>2
      <4>. QED
        BY <4>1, <4>2
    <3>4. ASSUME NEW i \in 1..Len(finished') PROVE verdict'[finished'[i]] # "none"
      <4>1. CASE i = Len(finished) + 1
        BY <2>1, <2>3, <4>1
      <4>2. CASE i \in 1..Len(finished)
        <5>1. finished[i] \in Runs
          BY <4>2, ElementOfSeq DEF BenchInv
        <5>2. finished'[i] = finished[i] /\ finished[i] # r /\ verdict[finished[i]] # "none"
          BY <2>1, <2>5, <3>2, <4>2, <5>1
        <5>. QED
          BY <2>3, <5>1, <5>2
      <4>. QED
        BY <2>6, <4>1, <4>2
    <3>. QED
      BY <3>3, <3>4
  <2>. QED
    BY <2>1, <2>3, <2>4, <2>7, <2>8 DEF BenchInv
<1>2. ASSUME UNCHANGED benchVars PROVE BenchInv'
  BY <1>2 DEF BenchInv, benchVars
<1>. QED
  BY <1>1, <1>2 DEF BenchNext

(* Runs of one model and task                                              *)
Alike(r, q) == ModelOf[q] = ModelOf[r] /\ TaskOf[q] = TaskOf[r]

(* Both leaderboards are about the same runs: the newest complete one of   *)
(* each model and task.                                                    *)
LEMMA SameRuns ==
  ASSUME BenchInv
  PROVE  /\ LatestPerTask = LatestCompleteRuns
         /\ \A r, q \in LatestPerTask : Alike(r, q) => q = r
<1>. DEFINE I == Positions
            s == CompleteBench
            t == NewestFirst(s)
            c == Cardinality(I)
            at(k) == Place(I, c + 1 - k)
            key(r) == <<ModelOf[r], TaskOf[r]>>
<1>1. I \in SUBSET (1..Len(finished)) /\ finished \in Seq(Runs) /\ s = Pick(finished, I)
  BY DEF Positions, BenchInv, CompleteBench
<1>2. /\ c \in Nat /\ s \in Seq(Runs) /\ Len(s) = c
      /\ \A k \in 1..c : Place(I, k) \in I /\ s[k] = finished[Place(I, k)]
      /\ \A k, l \in 1..c : k < l => Place(I, k) < Place(I, l)
      /\ \A i \in I : \E k \in 1..c : Place(I, k) = i
  <2>. HIDE DEF I, s
  <2>. QED
    BY <1>1, PickProperties
<1>. HIDE DEF s
<1>3. Len(t) = c /\ \A k \in 1..c : t[k] = s[c + 1 - k]
  <2>1. t = [k \in 1..c |-> s[(c - k) + 1]]
    BY <1>2 DEF NewestFirst, Reverse
  <2>2. \A k \in 1..c : (c - k) + 1 = c + 1 - k
    BY <1>2
  <2>3. Len(t) = c
    BY <2>1, <1>2
  <2>. HIDE DEF t
  <2>. QED
    BY <2>1, <2>2, <2>3
<1>4. \A k \in 1..c : c + 1 - k \in 1..c /\ c + 1 - (c + 1 - k) = k
  BY <1>2
<1>5. \A k \in 1..c : at(k) \in I /\ t[k] = finished[at(k)]
  BY <1>2, <1>3, <1>4
<1>6. \A k, l \in 1..c : k < l => at(l) < at(k)
  <2>1. \A k, l \in 1..c : k < l => c + 1 - l < c + 1 - k
    BY <1>2
  <2>. QED
    BY <2>1, <1>2, <1>4
<1>7. \A i \in I : \E k \in 1..c : at(k) = i
  <2>. SUFFICES ASSUME NEW i \in I PROVE \E k \in 1..c : at(k) = i
    OBVIOUS
  <2>1. PICK k \in 1..c : Place(I, k) = i
    BY <1>2
  <2>. QED
    BY <2>1, <1>4
<1>. DEFINE First(k) == \A j \in 1..(k - 1) : ~Alike(t[k], t[j])
<1>8. LatestPerTask = {t[k] : k \in {l \in 1..c : First(l)}}
  <2>1. LatestPerTask = FirstOfEach(t)
    BY DEF LatestPerTask, s
  <2>2. \A k \in 1..c : First(k) <=>
           <<ModelOf[t[k]], TaskOf[t[k]]>> \notin {<<ModelOf[t[j]], TaskOf[t[j]]>> : j \in 1..(k - 1)}
    BY DEF Alike
  <2>. HIDE DEF t, First
  <2>. QED
    BY <1>3, <2>1, <2>2 DEF FirstOfEach
<1>. HIDE DEF t, at, c
<1>9. ASSUME NEW i \in 1..Len(finished) PROVE Index(finished[i]) = i
  BY DEF Index, BenchInv
<1>10. \A k \in 1..c : /\ t[k] \in Runs /\ verdict[t[k]] = "complete" /\ Index(t[k]) = at(k)
  BY <1>1, <1>5, <1>9 DEF Positions
<1>11. ASSUME NEW r \in Runs, verdict[r] = "complete" PROVE \E k \in 1..c : t[k] = r
  <2>1. PICK i \in 1..Len(finished) : finished[i] = r
    BY <1>11 DEF BenchInv
  <2>2. i \in I
    BY <1>11, <2>1 DEF Positions
  <2>. QED
    BY <2>1, <2>2, <1>5, <1>7
<1>12. \A k \in 1..c : at(k) \in Nat
  <2>1. Len(finished) \in Nat /\ \A i \in 1..Len(finished) : i \in Nat
    BY <1>1, LenProperties
  <2>2. \A i \in I : i \in 1..Len(finished)
    BY DEF Positions
  <2>. QED
    BY <1>5, <2>1, <2>2
<1>. DEFINE complete == {r \in Runs : verdict[r] = "complete"}
            Latest(r) == \A q \in complete : Alike(r, q) => Index(q) <= Index(r)
<1>13. ASSUME NEW k \in 1..c PROVE First(k) <=> Latest(t[k])
  <2>1. ASSUME First(k), NEW q \in complete, Alike(t[k], q) PROVE Index(q) <= Index(t[k])
    <3>1. PICK l \in 1..c : t[l] = q
      BY <1>11
    <3>2. ~(l < k)
      BY <2>1, <3>1, <1>2 DEF c
    <3>3. l = k \/ k < l
      BY <3>2, <1>2 DEF c
    <3>. QED
      BY <3>1, <3>3, <1>6, <1>10, <1>12
  <2>2. ASSUME Latest(t[k]), NEW j \in 1..(k - 1), Alike(t[k], t[j]) PROVE FALSE
    <3>1. j \in 1..c /\ j < k
      BY <1>2 DEF c
    <3>2. Index(t[j]) <= Index(t[k])
      BY <2>2, <3>1, <1>10
    <3>. QED
      BY <3>1, <3>2, <1>6, <1>10, <1>12
  <2>. QED
    BY <2>1, <2>2
<1>14. LatestCompleteRuns = {r \in complete : Latest(r)}
  BY DEF LatestCompleteRuns, Alike
<1>. HIDE DEF First
<1>15. LatestPerTask = LatestCompleteRuns
  <2>. HIDE DEF Latest
  <2>. QED
    BY <1>8, <1>10, <1>11, <1>13, <1>14
<1>16. ASSUME NEW r \in LatestPerTask, NEW q \in LatestPerTask, Alike(r, q) PROVE q = r
  <2>1. PICK k \in 1..c, l \in 1..c : r = t[k] /\ q = t[l]
    BY <1>8
  <2>2. Alike(q, r) /\ Latest(r) /\ Latest(q) /\ r \in complete /\ q \in complete
    BY <1>14, <1>15, <1>16 DEF Alike
  <2>3. Index(q) <= Index(r) /\ Index(r) <= Index(q)
    BY <2>2, <1>16
  <2>4. at(k) = at(l)
    BY <2>1, <2>3, <1>10, <1>12
  <2>. QED
    BY <2>1, <2>4, <1>5
<1>. QED
  BY <1>15, <1>16

(* The tasks of a model's rows, in their order                             *)
LEMMA OrderedRuns ==
  ASSUME BenchInv, NEW R, R \subseteq Runs, NEW i \in 1..Len(Ordered(R))
  PROVE  \E j \in 1..Len(TaskOrder) :
           Ordered(R)[i] = {r \in R : TaskOf[r] = TaskOrder[j]} /\ Ordered(R)[i] # {}
<1>. DEFINE n == Len(TaskOrder)
            of == [j \in 1..n |-> {r \in R : TaskOf[r] = TaskOrder[j]}]
            I == {j \in 1..n : of[j] # {}}
<1>1. n \in Nat
  BY LenProperties, CtiBoardAssumption
<1>2. of \in Seq(SUBSET Runs) /\ Len(of) = n
  BY <1>1
<1>3. Ordered(R) = Pick(of, I)
  BY DEF Ordered
<1>4. I \in SUBSET (1..Len(of))
  BY <1>2
<1>5. \A j \in I : j \in 1..n /\ of[j] = {r \in R : TaskOf[r] = TaskOrder[j]} /\ of[j] # {}
  OBVIOUS
<1>. HIDE DEF of, I, n
<1>6. \A k \in 1..Len(Pick(of, I)) : Place(I, k) \in I /\ Pick(of, I)[k] = of[Place(I, k)]
  BY <1>2, <1>4, PickProperties
<1>. QED
  BY <1>3, <1>5, <1>6 DEF n

(* The CTI leaderboard of the API and the one of cti_lite show the same    *)
(* scores of the same runs, and a model's detail has the run of every score*)
(* (cti_evals queries, cti_lite/data.py).                                  *)
THEOREM CtiBoardsAgree == BenchSpec => []CtiViewsAgree
<1>1. ASSUME BenchInv PROVE CtiViewsAgree
  <2>1. LatestPerTask = LatestCompleteRuns
    BY <1>1, SameRuns
  <2>2. CtiLeaderboard = LiteLeaderboard
    BY <2>1 DEF CtiLeaderboard, LiteLeaderboard
  <2>3. ASSUME NEW m \in Models PROVE CtiModelDetail(m) = LiteModelRuns(m)
    BY <2>1 DEF CtiModelDetail, LiteModelRuns
  <2>4. ASSUME NEW m \in Models, NEW i \in 1..Len(CtiModelDetail(m))
        PROVE  \E r \in CtiModelDetail(m)[i] :
                 /\ CtiModelDetail(m)[i] = {r}
                 /\ CtiLeaderboard[m].tasks[TaskOf[r]] = score[r]
    <3>. DEFINE R == {r \in LatestPerTask : ModelOf[r] = m}
    <3>1. LatestPerTask \subseteq Runs
      BY <2>1 DEF LatestCompleteRuns
    <3>2. PICK j \in 1..Len(TaskOrder) :
             /\ CtiModelDetail(m)[i] = {r \in R : TaskOf[r] = TaskOrder[j]}
             /\ CtiModelDetail(m)[i] # {}
      BY <1>1, <2>4, <3>1, OrderedRuns DEF CtiModelDetail
    <3>3. PICK r \in R : TaskOf[r] = TaskOrder[j]
      BY <3>2
    <3>4. \A q \in LatestPerTask : ModelOf[q] = m /\ TaskOf[q] = TaskOf[r] => q = r
      BY <1>1, <3>3, SameRuns DEF Alike
    <3>5. CtiModelDetail(m)[i] = {r}
      BY <3>2, <3>3, <3>4
    <3>6. CtiLeaderboard[m].tasks = TaskScores(m, LatestPerTask)
      BY <3>3 DEF CtiLeaderboard
    <3>7. (CHOOSE q \in LatestPerTask : ModelOf[q] = m /\ TaskOf[q] = TaskOf[r]) = r
      BY <3>3, <3>4
    <3>8. TaskScores(m, LatestPerTask)[TaskOf[r]] = score[r]
      BY <3>3, <3>7 DEF TaskScores
    <3>. QED
      BY <3>5, <3>6, <3>8
  <2>. QED
    BY <2>2, <2>3, <2>4 DEF CtiViewsAgree
<1>. QED
  BY <1>1, BenchStart, BenchStep, PTL DEF BenchSpec
-----------------------------------------------------------------------------
(* The exports and imports                                                 *)

USE HubAssumption, StoreAssumption DEF export, import

RunRows == [status : {"absent", "running", "complete"}, scored : Nat]
Dbs == [models : SUBSET Models, runs : [Runs -> RunRows], results : [Runs -> SUBSET Keys]]

HubTypes ==
  /\ db \in Dbs /\ read \in Dbs /\ hub \in Dbs /\ loaded \in Dbs /\ replica \in Dbs
  /\ reading \in 0..3 /\ pushing \in 0..2 /\ loading \in 0..3 /\ merging \in 0..2
  /\ whole \in BOOLEAN /\ clean \in BOOLEAN /\ merged \in BOOLEAN

(* What is true of any copy: its results are the database's, and its       *)
(* complete runs are complete in what it was taken from.                   *)
Part(d) == \A r \in Runs : d.results[r] \subseteq db.results[r]
Follows(d, e) == \A r \in Runs :
  d.runs[r].status = "complete" => e.runs[r] = d.runs[r]
Has(d) == \A r \in Runs :
  d.runs[r].status = "complete" => d.results[r] = db.results[r]

(* The tables in their order.                                              *)
LEMMA TableAt ==
  /\ Tables[1] = "models" /\ Tables[2] = "runs" /\ Tables[3] = "results"
  /\ Len(Tables) = 3
BY DEF Tables

(* What each step of an export, a download and a merge does to its table.  *)
LEMMA ReadSteps ==
  ASSUME HubTypes, ReadTable
  PROVE  /\ pushing = 0 /\ reading' = reading + 1 /\ reading \in 0..2
         /\ reading = 0 => read' = [read EXCEPT !.models = db.models]
         /\ reading = 1 => read' = [read EXCEPT !.runs = db.runs]
         /\ reading = 2 => read' = [read EXCEPT !.results = db.results]
<1>1. reading \in 0..2
  BY TableAt DEF ReadTable, HubTypes
<1>2. /\ reading = 0 => ReadOrder[reading + 1] = "models"
      /\ reading = 1 => ReadOrder[reading + 1] = "runs"
      /\ reading = 2 => ReadOrder[reading + 1] = "results"
  BY TableAt DEF ReadOrder
<1>3. read' = [read EXCEPT ![ReadOrder[reading + 1]] = db[ReadOrder[reading + 1]]]
  BY DEF ReadTable
<1>4. /\ reading = 0 => read' = [read EXCEPT !["models"] = db["models"]]
      /\ reading = 1 => read' = [read EXCEPT !["runs"] = db["runs"]]
      /\ reading = 2 => read' = [read EXCEPT !["results"] = db["results"]]
  BY <1>2, <1>3, Zenon
<1>5. pushing = 0 /\ reading' = reading + 1
  BY DEF ReadTable
<1>. QED
  BY <1>1, <1>4, <1>5

(* A push replaces one table of the dataset, the last the results.         *)
LEMMA PushSteps ==
  ASSUME HubTypes, PushTable
  PROVE  /\ reading = 3 /\ ~clean'
         /\ pushing = 0 => hub' = [hub EXCEPT !.models = read.models]
         /\ pushing = 1 => hub' = [hub EXCEPT !.runs = read.runs]
         /\ pushing = 2 => hub' = [hub EXCEPT !.results = read.results]
         /\ pushing # 2 => /\ pushing' = pushing + 1 /\ ~whole'
                           /\ read' = read /\ reading' = 3
         /\ pushing = 2 => /\ pushing' = 0 /\ whole'
                           /\ read' = EmptyDb /\ reading' = 0
<1>1. /\ pushing = 0 => Tables[pushing + 1] = "models"
      /\ pushing = 1 => Tables[pushing + 1] = "runs"
      /\ pushing = 2 => Tables[pushing + 1] = "results"
  BY TableAt
<1>2. hub' = [hub EXCEPT ![Tables[pushing + 1]] = read[Tables[pushing + 1]]]
  BY DEF PushTable
<1>3. /\ pushing = 0 => hub' = [hub EXCEPT !["models"] = read["models"]]
      /\ pushing = 1 => hub' = [hub EXCEPT !["runs"] = read["runs"]]
      /\ pushing = 2 => hub' = [hub EXCEPT !["results"] = read["results"]]
  BY <1>1, <1>2, Zenon
<1>4. pushing + 1 = Len(Tables) <=> pushing = 2
  BY TableAt DEF HubTypes
<1>5. /\ reading = 3 /\ ~clean' /\ whole' = (pushing + 1 = Len(Tables))
      /\ pushing' = IF pushing + 1 = Len(Tables) THEN 0 ELSE pushing + 1
      /\ reading' = IF pushing + 1 = Len(Tables) THEN 0 ELSE reading
      /\ read' = IF pushing + 1 = Len(Tables) THEN EmptyDb ELSE read
  BY TableAt DEF PushTable
<1>. QED
  BY <1>3, <1>4, <1>5

(* A download takes one table of the dataset.                              *)
LEMMA LoadSteps ==
  ASSUME HubTypes, LoadTable
  PROVE  /\ loading \in 0..2 /\ merging = 0 /\ loading' = loading + 1
         /\ loading = 0 => loaded' = [loaded EXCEPT !.models = hub.models]
         /\ loading = 1 => loaded' = [loaded EXCEPT !.runs = hub.runs]
         /\ loading = 2 => loaded' = [loaded EXCEPT !.results = hub.results]
         /\ clean' = IF loading = 0 THEN whole ELSE clean
<1>1. /\ loading = 0 => Tables[loading + 1] = "models"
      /\ loading = 1 => Tables[loading + 1] = "runs"
      /\ loading = 2 => Tables[loading + 1] = "results"
  BY TableAt
<1>2. loaded' = [loaded EXCEPT ![Tables[loading + 1]] = hub[Tables[loading + 1]]]
  BY DEF LoadTable
<1>3. /\ loading = 0 => loaded' = [loaded EXCEPT !["models"] = hub["models"]]
      /\ loading = 1 => loaded' = [loaded EXCEPT !["runs"] = hub["runs"]]
      /\ loading = 2 => loaded' = [loaded EXCEPT !["results"] = hub["results"]]
  BY <1>1, <1>2, Zenon
<1>4. loading \in 0..2
  BY TableAt DEF LoadTable, HubTypes
<1>5. /\ merging = 0 /\ loading' = loading + 1
      /\ clean' = IF loading = 0 THEN whole ELSE clean
  BY DEF LoadTable
<1>. QED
  BY <1>3, <1>4, <1>5

(* A merge adds to one table of the importing database.                    *)
LEMMA MergeSteps ==
  ASSUME HubTypes, MergeTable
  PROVE  /\ loading = 3
         /\ merging = 0 => replica' = ImportModels
         /\ merging = 1 => replica' = ImportRuns
         /\ merging = 2 => replica' = ImportResults
         /\ merging # 2 => /\ ~merged' /\ merging' = merging + 1
                           /\ UNCHANGED <<loading, loaded, clean>>
         /\ merging = 2 => merged' = clean /\ EndImport
<1>1. /\ merging = 0 => Tables[merging + 1] = "models"
      /\ merging = 1 => Tables[merging + 1] = "runs"
      /\ merging = 2 => Tables[merging + 1] = "results"
  BY TableAt
<1>2. merging + 1 = Len(Tables) <=> merging = 2
  BY TableAt DEF HubTypes
<1>3. /\ loading = 3
      /\ merged' = (merging + 1 = Len(Tables) /\ clean)
      /\ IF merging + 1 = Len(Tables) THEN EndImport
         ELSE /\ merging' = merging + 1
              /\ UNCHANGED <<loading, loaded, clean>>
  BY TableAt DEF MergeTable
<1>4. replica' = CASE Tables[merging + 1] = "models"  -> ImportModels
                   [] Tables[merging + 1] = "runs"    -> ImportRuns
                   [] Tables[merging + 1] = "results" -> ImportResults
  BY DEF MergeTable
<1>5. /\ merging = 0 => replica' = ImportModels
      /\ merging = 1 => replica' = ImportRuns
      /\ merging = 2 => replica' = ImportResults
  BY <1>1, <1>4
<1>. QED
  BY <1>2, <1>3, <1>5 DEF HubTypes

(* What is read, pushed, loaded and merged is older than what it was taken *)
(* from, and what was taken whole has all results of its complete runs.    *)
CopiesInv ==
  /\ \A r \in Runs : db.runs[r].status = "complete" =>
       db.runs[r].scored = Cardinality(db.results[r])
  /\ Part(read) /\ Part(hub) /\ Part(loaded) /\ Part(replica)
  /\ Follows(read, db) /\ Follows(hub, db)
  /\ Follows(loaded, hub) /\ Follows(replica, hub)

ExportInv ==
  /\ reading >= 2 => Follows(hub, read)
  /\ reading = 3 => Has(read)
  /\ pushing > 0 => reading = 3 /\ ~whole
  /\ pushing = 2 => hub.runs = read.runs
  /\ whole => Has(hub)

ImportInv ==
  /\ merging > 0 => loading = 3
  /\ clean /\ loading >= 1 => whole
  /\ clean /\ loading >= 2 => loaded.runs = hub.runs
  /\ clean /\ loading = 3 => loaded.results = hub.results
  /\ merged => Has(replica)

HubInv == HubTypes /\ CopiesInv /\ ExportInv /\ ImportInv

(* Empty copies have no complete runs.                                     *)
LEMMA HubStart == HubInit => HubInv
BY DEF HubInit, HubInv, HubTypes, CopiesInv, ExportInv, ImportInv, Part, Follows, Has,
       EmptyDb, AbsentRun, Dbs, RunRows

(* The database completes a run with the number of its results, and leaves *)
(* a complete run alone.                                                   *)
LEMMA PipelineStep ==
  ASSUME HubInv, UNCHANGED <<export, import>>, db' \in Dbs,
         \A r \in Runs :
           /\ db.results[r] \subseteq db'.results[r]
           /\ db.runs[r].status = "complete" =>
                db'.runs[r] = db.runs[r] /\ db'.results[r] = db.results[r]
           /\ db.runs[r].status # "complete" /\ db'.runs[r].status = "complete" =>
                db'.runs[r].scored = Cardinality(db'.results[r])
  PROVE  HubInv'
<1>. USE DEF HubInv, Part, Follows, Has
<1>1. HubTypes'
  BY DEF HubTypes
<1>2. CopiesInv'
  <2>1. \A r \in Runs : db'.runs[r].status = "complete" =>
          db'.runs[r].scored = Cardinality(db'.results[r])
    BY DEF CopiesInv
  <2>2. (Part(read) /\ Part(hub) /\ Part(loaded) /\ Part(replica))'
    BY DEF CopiesInv
  <2>3. (Follows(read, db) /\ Follows(hub, db))'
    BY DEF CopiesInv
  <2>4. (Follows(loaded, hub) /\ Follows(replica, hub))'
    BY DEF CopiesInv
  <2>. QED
    BY <2>1, <2>2, <2>3, <2>4 DEF CopiesInv
<1>3. ASSUME NEW d \in {read, hub, replica}, Has(d)
      PROVE  \A r \in Runs : d.runs[r].status = "complete" => d.results[r] = db'.results[r]
  BY <1>3 DEF CopiesInv
<1>4. ExportInv'
  BY <1>3 DEF ExportInv
<1>5. ImportInv'
  BY <1>3 DEF ImportInv
<1>. QED
  BY <1>1, <1>2, <1>4, <1>5

(* The pipelines write in that way.                                        *)
LEMMA PipelinesStep ==
  ASSUME HubInv,
         \/ \E m \in Models : AddModel(m)
         \/ \E r \in Runs : InsertRun(r) \/ FinishRun(r)
         \/ \E r \in Runs, k \in Keys : CommitResult(r, k)
  PROVE  HubInv'
<1>. USE DEF HubInv, HubTypes, Dbs, RunRows
<1>1. ASSUME NEW m \in Models, AddModel(m) PROVE HubInv'
  <2>1. UNCHANGED <<export, import>> /\ db' = [db EXCEPT !.models = @ \cup {m}]
    BY <1>1 DEF AddModel
  <2>. QED
    BY <2>1, PipelineStep
<1>2. ASSUME NEW r \in Runs, InsertRun(r) PROVE HubInv'
  <2>1. /\ UNCHANGED <<export, import>> /\ db.runs[r].status = "absent"
        /\ db' = [db EXCEPT !.runs[r] = [status |-> "running", scored |-> 0]]
    BY <1>2 DEF InsertRun
  <2>2. /\ db' \in Dbs /\ db'.results = db.results
        /\ db'.runs[r] = [status |-> "running", scored |-> 0]
        /\ \A q \in Runs \ {r} : db'.runs[q] = db.runs[q]
    BY <2>1
  <2>. QED
    BY <2>1, <2>2, PipelineStep
<1>3. ASSUME NEW r \in Runs, FinishRun(r) PROVE HubInv'
  <2>1. /\ UNCHANGED <<export, import>> /\ db.runs[r].status = "running"
        /\ db' = [db EXCEPT !.runs[r] =
                    [status |-> "complete", scored |-> Cardinality(db.results[r])]]
    BY <1>3 DEF FinishRun
  <2>2. Cardinality(db.results[r]) \in Nat
    BY FS_Subset, FS_CardinalityType
  <2>3. /\ db' \in Dbs /\ db'.results = db.results
        /\ db'.runs[r] = [status |-> "complete", scored |-> Cardinality(db.results[r])]
        /\ \A q \in Runs \ {r} : db'.runs[q] = db.runs[q]
    BY <2>1, <2>2
  <2>. QED
    BY <2>1, <2>3, PipelineStep
<1>4. ASSUME NEW r \in Runs, NEW k \in Keys, CommitResult(r, k) PROVE HubInv'
  <2>1. /\ UNCHANGED <<export, import>> /\ db.runs[r].status = "running"
        /\ db' = [db EXCEPT !.results[r] = @ \cup {k}]
    BY <1>4 DEF CommitResult
  <2>3. /\ db'.runs = db.runs /\ db'.models = db.models
        /\ db'.results = [db.results EXCEPT ![r] = @ \cup {k}]
        /\ db' = [models |-> db'.models, runs |-> db'.runs, results |-> db'.results]
    BY <2>1
  <2>4. db'.results \in [Runs -> SUBSET Keys]
    BY <2>3
  <2>2. /\ db' \in Dbs /\ db'.runs = db.runs
        /\ db'.results[r] = db.results[r] \cup {k}
        /\ \A q \in Runs \ {r} : db'.results[q] = db.results[q]
    BY <2>3, <2>4
  <2>. QED
    BY <2>1, <2>2, PipelineStep
<1>. QED
  BY <1>1, <1>2, <1>3, <1>4

(* Reading the runs before their results gives complete runs whole.        *)
LEMMA ReadTableStep ==
  ASSUME HubInv, ReadTable
  PROVE  HubInv'
<1>. USE DEF HubInv, Part, Follows, Has
<1>1. /\ pushing = 0 /\ reading' = reading + 1 /\ reading \in 0..2
      /\ reading = 0 => read' = [read EXCEPT !.models = db.models]
      /\ reading = 1 => read' = [read EXCEPT !.runs = db.runs]
      /\ reading = 2 => read' = [read EXCEPT !.results = db.results]
  BY ReadSteps
<1>2. UNCHANGED <<db, pushing, whole, hub, import>>
  BY DEF ReadTable
<1>3. HubTypes' /\ read' \in Dbs
  BY <1>1, <1>2 DEF HubTypes, Dbs
<1>4. /\ reading = 0 => read'.runs = read.runs /\ read'.results = read.results
      /\ reading = 1 => read'.runs = db.runs /\ read'.results = read.results
      /\ reading = 2 => read'.runs = read.runs /\ read'.results = db.results
  BY <1>1 DEF HubTypes, Dbs
<1>5. CopiesInv'
  BY <1>1, <1>2, <1>4 DEF CopiesInv
<1>6. ExportInv'
  <2>1. (reading >= 2 => Follows(hub, read))'
    BY <1>1, <1>2, <1>4 DEF CopiesInv, ExportInv
  <2>2. (reading = 3 => Has(read))'
    BY <1>1, <1>2, <1>4 DEF CopiesInv, ExportInv
  <2>. QED
    BY <1>1, <1>2, <2>1, <2>2 DEF ExportInv
<1>7. ImportInv'
  BY <1>2 DEF ImportInv
<1>. QED
  BY <1>3, <1>5, <1>6, <1>7

(* A push replaces runs by later ones, and is whole when it is through.    *)
LEMMA PushTableStep ==
  ASSUME HubInv, PushTable
  PROVE  HubInv'
<1>. USE DEF HubInv, Part, Follows, Has
<1>1. /\ reading = 3 /\ ~clean'
      /\ pushing = 0 => hub' = [hub EXCEPT !.models = read.models]
      /\ pushing = 1 => hub' = [hub EXCEPT !.runs = read.runs]
      /\ pushing = 2 => hub' = [hub EXCEPT !.results = read.results]
      /\ pushing # 2 => /\ pushing' = pushing + 1 /\ ~whole'
                        /\ read' = read /\ reading' = 3
      /\ pushing = 2 => /\ pushing' = 0 /\ whole'
                        /\ read' = EmptyDb /\ reading' = 0
  BY PushSteps
<1>2. UNCHANGED <<db, loading, loaded, merging, replica, merged>>
      /\ whole' \in BOOLEAN /\ clean' \in BOOLEAN
  BY DEF PushTable
<1>3. EmptyDb \in Dbs
  BY DEF EmptyDb, AbsentRun, Dbs, RunRows
<1>4. hub' \in Dbs /\ pushing \in 0..2
  BY <1>1 DEF HubTypes, Dbs
<1>5. HubTypes'
  BY <1>1, <1>2, <1>3, <1>4 DEF HubTypes
<1>6. /\ pushing = 0 => hub'.runs = hub.runs /\ hub'.results = hub.results
      /\ pushing = 1 => hub'.runs = read.runs /\ hub'.results = hub.results
      /\ pushing = 2 => hub'.runs = hub.runs /\ hub'.results = read.results
  BY <1>1 DEF HubTypes, Dbs
<1>7. \A r \in Runs : EmptyDb.results[r] = {} /\ EmptyDb.runs[r].status # "complete"
  BY DEF EmptyDb, AbsentRun
<1>8. \A r \in Runs : hub.runs[r].status = "complete" => hub'.runs[r] = hub.runs[r]
  BY <1>1, <1>4, <1>6 DEF ExportInv
<1>9. CopiesInv'
  <2>1. (Part(read) /\ Part(hub) /\ Part(loaded) /\ Part(replica))'
    BY <1>1, <1>2, <1>4, <1>6, <1>7 DEF CopiesInv
  <2>2. (Follows(read, db) /\ Follows(hub, db))'
    BY <1>1, <1>2, <1>4, <1>6, <1>7 DEF CopiesInv
  <2>3. (Follows(loaded, hub) /\ Follows(replica, hub))'
    BY <1>2, <1>8 DEF CopiesInv
  <2>. QED
    BY <1>2, <2>1, <2>2, <2>3 DEF CopiesInv
<1>10. ExportInv'
  <2>1. CASE pushing = 2
    <3>1. Has(read) /\ hub'.runs = read.runs /\ hub'.results = read.results
      BY <1>1, <1>6, <2>1 DEF ExportInv
    <3>. QED
      BY <1>1, <1>2, <2>1, <3>1 DEF ExportInv
  <2>2. CASE pushing # 2
    <3>1. Follows(hub, read)'
      BY <1>1, <1>4, <1>6, <2>2 DEF ExportInv
    <3>. QED
      BY <1>1, <1>2, <1>4, <1>6, <2>2, <3>1 DEF ExportInv
  <2>. QED
    BY <2>1, <2>2
<1>11. ImportInv'
  BY <1>1, <1>2 DEF ImportInv
<1>. QED
  BY <1>5, <1>9, <1>10, <1>11

(* A download is of one dataset as long as nothing is pushed.              *)
LEMMA LoadTableStep ==
  ASSUME HubInv, LoadTable
  PROVE  HubInv'
<1>. USE DEF HubInv, Part, Follows, Has
<1>1. /\ loading \in 0..2 /\ merging = 0 /\ loading' = loading + 1
      /\ loading = 0 => loaded' = [loaded EXCEPT !.models = hub.models]
      /\ loading = 1 => loaded' = [loaded EXCEPT !.runs = hub.runs]
      /\ loading = 2 => loaded' = [loaded EXCEPT !.results = hub.results]
      /\ clean' = IF loading = 0 THEN whole ELSE clean
  BY LoadSteps
<1>2. UNCHANGED <<db, export, merging, replica, merged>>
  BY DEF LoadTable
<1>3. loaded' \in Dbs
  BY <1>1 DEF HubTypes, Dbs
<1>4. HubTypes'
  BY <1>1, <1>2, <1>3 DEF HubTypes
<1>5. /\ loading = 0 => loaded'.runs = loaded.runs /\ loaded'.results = loaded.results
      /\ loading = 1 => loaded'.runs = hub.runs /\ loaded'.results = loaded.results
      /\ loading = 2 => loaded'.runs = loaded.runs /\ loaded'.results = hub.results
  BY <1>1 DEF HubTypes, Dbs
<1>6. CopiesInv'
  BY <1>1, <1>2, <1>5 DEF CopiesInv
<1>7. ExportInv'
  BY <1>2 DEF ExportInv
<1>8. ImportInv'
  BY <1>1, <1>2, <1>5 DEF ImportInv
<1>. QED
  BY <1>4, <1>6, <1>7, <1>8

(* An end of an import forgets what was downloaded.                        *)
LEMMA EndImportStep ==
  ASSUME HubInv, EndImport, replica' \in Dbs, merged' \in BOOLEAN,
         Part(replica)', Follows(replica, hub)', (merged => Has(replica))'
  PROVE  HubInv'
<1>. USE DEF HubInv, Part, Follows, Has, EndImport
<1>1. EmptyDb \in Dbs
  BY DEF EmptyDb, AbsentRun, Dbs, RunRows
<1>2. \A r \in Runs : EmptyDb.results[r] = {} /\ EmptyDb.runs[r].status # "complete"
  BY DEF EmptyDb, AbsentRun
<1>3. HubTypes'
  BY <1>1 DEF HubTypes
<1>4. CopiesInv'
  BY <1>2 DEF CopiesInv
<1>5. ExportInv'
  BY DEF ExportInv
<1>6. ImportInv'
  BY DEF ImportInv
<1>. QED
  BY <1>3, <1>4, <1>5, <1>6

(* A merge adds what a run of the importing database lacks.                *)
LEMMA MergeTableStep ==
  ASSUME HubInv, MergeTable
  PROVE  HubInv'
<1>. USE DEF HubInv, Part, Follows, Has
<1>1. /\ loading = 3
      /\ merging = 0 => replica' = ImportModels
      /\ merging = 1 => replica' = ImportRuns
      /\ merging = 2 => replica' = ImportResults
      /\ merging # 2 => /\ ~merged' /\ merging' = merging + 1
                        /\ UNCHANGED <<loading, loaded, clean>>
      /\ merging = 2 => merged' = clean /\ EndImport
  BY MergeSteps
<1>2. UNCHANGED <<db, export>> /\ merging \in 0..2 /\ merged' \in BOOLEAN
  BY <1>1 DEF MergeTable, EndImport, HubTypes
<1>3. /\ merging = 0 => replica'.runs = replica.runs /\ replica'.results = replica.results
      /\ merging = 1 =>
           /\ replica'.runs = [r \in Runs |->
                IF replica.runs[r] = AbsentRun THEN loaded.runs[r] ELSE replica.runs[r]]
           /\ replica'.results = replica.results
      /\ merging = 2 =>
           /\ replica'.runs = replica.runs
           /\ replica'.results = [r \in Runs |-> replica.results[r] \cup loaded.results[r]]
      /\ replica' = [models |-> replica'.models, runs |-> replica'.runs,
                     results |-> replica'.results]
      /\ replica'.models \subseteq Models
  <2>1. CASE merging = 0
    BY <1>1, <2>1 DEF HubTypes, Dbs, ImportModels
  <2>2. CASE merging = 1
    BY <1>1, <2>2 DEF HubTypes, Dbs, ImportRuns
  <2>3. CASE merging = 2
    BY <1>1, <2>3 DEF HubTypes, Dbs, ImportResults
  <2>. QED
    BY <1>2, <2>1, <2>2, <2>3
<1>4. replica' \in Dbs
  <2>1. replica'.runs \in [Runs -> RunRows] /\ replica'.results \in [Runs -> SUBSET Keys]
    BY <1>2, <1>3 DEF HubTypes, Dbs
  <2>. QED
    BY <1>3, <2>1 DEF Dbs
<1>5. Part(replica)'
  BY <1>2, <1>3 DEF CopiesInv
<1>6. Follows(replica, hub)'
  BY <1>2, <1>3 DEF CopiesInv
<1>7. CASE merging = 2
  <2>1. ASSUME clean PROVE Has(replica)'
    <3>1. Has(hub) /\ loaded.results = hub.results
      BY <1>1, <2>1 DEF ImportInv, ExportInv
    <3>2. ASSUME NEW r \in Runs, replica.runs[r].status = "complete"
          PROVE  replica.results[r] \cup loaded.results[r] = db.results[r]
      <4>1. hub.results[r] = db.results[r] /\ replica.results[r] \subseteq db.results[r]
        BY <3>1, <3>2 DEF CopiesInv
      <4>. QED
        BY <3>1, <4>1
    <3>. QED
      BY <1>2, <1>3, <1>7, <3>2
  <2>. QED
    BY <1>1, <1>2, <1>4, <1>5, <1>6, <1>7, <2>1, EndImportStep
<1>8. CASE merging # 2
  <2>1. HubTypes'
    BY <1>1, <1>2, <1>4, <1>8 DEF HubTypes
  <2>2. CopiesInv'
    BY <1>1, <1>2, <1>5, <1>6, <1>8 DEF CopiesInv
  <2>3. ExportInv'
    BY <1>2 DEF ExportInv
  <2>4. ImportInv'
    BY <1>1, <1>2, <1>8 DEF ImportInv
  <2>. QED
    BY <2>1, <2>2, <2>3, <2>4
<1>. QED
  BY <1>7, <1>8

(* No step of the pipelines, the export or the import breaks the invariant. *)
LEMMA HubStep == HubInv /\ [HubNext]_hubVars => HubInv'
<1>. SUFFICES ASSUME HubInv, [HubNext]_hubVars PROVE HubInv'
  OBVIOUS
<1>1. CASE ExportEnds
  <2>. USE <1>1 DEF ExportEnds, HubInv, Part, Follows, Has
  <2>1. EmptyDb \in Dbs
    BY DEF EmptyDb, AbsentRun, Dbs, RunRows
  <2>2. \A r \in Runs : EmptyDb.results[r] = {} /\ EmptyDb.runs[r].status # "complete"
    BY DEF EmptyDb, AbsentRun
  <2>3. HubTypes'
    BY <2>1 DEF HubTypes
  <2>4. CopiesInv'
    BY <2>2 DEF CopiesInv
  <2>5. ExportInv' /\ ImportInv'
    BY DEF ExportInv, ImportInv
  <2>. QED
    BY <2>3, <2>4, <2>5
<1>2. CASE ImportFails
  <2>1. EndImport /\ UNCHANGED <<db, hub, replica, merged>>
    BY <1>2 DEF ImportFails, EndImport
  <2>. QED
    BY <2>1, EndImportStep DEF HubInv, HubTypes, CopiesInv, ImportInv, Part, Follows, Has
<1>3. CASE UNCHANGED hubVars
  BY <1>3 DEF hubVars, HubInv, HubTypes, CopiesInv, ExportInv, ImportInv, Part, Follows, Has
<1>. QED
  BY <1>1, <1>2, <1>3, PipelinesStep, ReadTableStep, PushTableStep, LoadTableStep,
     MergeTableStep
     DEF HubNext, ExportScans, ExportPublic, ExportCti, Export, ImportAll

(* For every set of models, runs and results, and however the pipelines    *)
(* write meanwhile: a dataset that was pushed whole has all results of the *)
(* runs it shows as complete.                                              *)
THEOREM PublishedIsWhole == HubSpec => []PublishedWhole
<1>1. HubInv => PublishedWhole
  BY DEF HubInv, CopiesInv, ExportInv, PublishedWhole, Whole, Has, Follows
<1>. QED
  BY <1>1, HubStart, HubStep, PTL DEF HubSpec

(* And so has a database after it imported such a dataset, whatever was    *)
(* imported before, in part or while a run was scanned.                    *)
THEOREM ReplicaIsWhole == HubSpec => []ReplicaWhole
<1>1. HubInv => ReplicaWhole
  BY DEF HubInv, CopiesInv, ImportInv, ReplicaWhole, Whole, Has, Follows
<1>. QED
  BY <1>1, HubStart, HubStep, PTL DEF HubSpec
=============================================================================
