----------------------------- MODULE Dashboard -----------------------------
(***************************************************************************)
(* A browser session of a Gradio dashboard: "glokta" on the API            *)
(* (frontend/gradio_app.py), "lite" on a dataset of scans                  *)
(* (glokta-lite/app.py) and "cti" on a dataset of the CTI benchmark        *)
(* (cti_lite/app.py; the CTI tabs of the first are wired alike). Each has  *)
(* a leaderboard whose rows open a model in a tab with a table of the      *)
(* model's latest results; a row of that table opens a viewer, but in      *)
(* glokta-lite, which has none.                                            *)
(*                                                                         *)
(* An event takes what the browser shows to the server; the handlers of    *)
(* one function run one after the other, those of different functions in   *)
(* any order; a gr.State is kept on the server, the tables in the browser, *)
(* which gets the answers in the order in which they were made. Scans go   *)
(* on all the while.                                                       *)
(***************************************************************************)
EXTENDS Store, Sequences

CONSTANTS
  Tabs,     \* pairs of a table of rows and a viewer of what a row stands for
  MaxRuns,  \* bounds the complete runs of a model
  MaxEvents \* bounds the events under way

ASSUME DashboardAssumption ==
  {MaxRuns, MaxEvents} \subseteq Nat

VARIABLES
  app,      \* the dashboard
  coverage, \* how much of the included risks a model's latest run covers
  active,   \* models the API lists
  latest,   \* number of a model's latest complete run, 0 without one
  risks,    \* the rows of the risk leaderboard in the browser
  known,    \* model_name_to_id
  filter,   \* the model chosen in a tab, or All
  events,   \* filter events under way, the models they were made with
  answers,  \* answers on their way to the browser
  held,     \* run ids kept on the server
  rows,     \* the rows shown in a tab: a model and its run
  click,    \* the row clicked in a tab, until the server answers
  viewer    \* what is shown of the row clicked last

data    == <<app, coverage, active, latest>>
session == <<risks, known, filter, events, answers, held, rows, click, viewer>>
dashboardVars == <<data, session>>

All == "all"
NoRun == << >>
NoRows == [model |-> All, run |-> NoRun]
NoClick == [row |-> NoRows, alone |-> TRUE]
NoViewer == [row |-> NoRows, run |-> NoRun, alone |-> TRUE]

NewSession ==
  [filter |-> [t \in Tabs |-> All],     events |-> [t \in Tabs |-> << >>],
   held   |-> [t \in Tabs |-> NoRun],   rows   |-> [t \in Tabs |-> NoRows],
   click  |-> [t \in Tabs |-> NoClick], viewer |-> [t \in Tabs |-> NoViewer]]

DashboardInit ==
  /\ app \in {"glokta", "lite", "cti"}
  /\ coverage = [m \in Models |-> "none"]
  /\ active = Models
  /\ latest = [m \in Models |-> 0]
  /\ risks = {} /\ known = {} /\ answers = << >>
  /\ filter = NewSession.filter /\ events = NewSession.events
  /\ held = NewSession.held /\ rows = NewSession.rows
  /\ click = NewSession.click /\ viewer = NewSession.viewer
-----------------------------------------------------------------------------
(* The database, or the dataset as last loaded from the Hub                *)

ScanCompletes(m) ==
  /\ latest[m] < MaxRuns
  /\ latest' = [latest EXCEPT ![m] = @ + 1]
  /\ \E c \in {"none", "partial", "full"} : coverage' = [coverage EXCEPT ![m] = c]
  /\ UNCHANGED <<app, active, session>>

Archive(m) ==
  /\ active' = active \ {m}
  /\ UNCHANGED <<app, coverage, latest, session>>
-----------------------------------------------------------------------------
(* The leaderboard                                                         *)

Cell(m) == <<m>>

(* The API's dashboard renders a model that lacks data for an included     *)
(* risk as greyed-out HTML, with a warning sign.                           *)
ModelCell(m) ==
  IF coverage[m] = "partial"
  THEN <<"<span>", m, "warning", "</span>">>
  ELSE Cell(m)

(* What is left of such a cell when its tags are stripped has the sign, so *)
(* no name is found for it.                                                *)
StripHtml(html) == SelectSeq(html, LAMBDA x : x \notin {"<span>", "</span>"})

(* Archived models stay in the table; glokta-lite also has the models      *)
(* without data for any included risk.                                     *)
FetchRiskLeaderboard == {ModelCell(m) : m \in {n \in Models : coverage[n] # "none"}}
LiteRiskLeaderboard  == {Cell(m) : m \in {n \in Models : latest[n] # 0}}
LeaderboardDf        == {Cell(m) : m \in {n \in Models : latest[n] # 0}}

LeaderboardTable == CASE app = "glokta" -> FetchRiskLeaderboard
                      [] app = "lite"   -> LiteRiskLeaderboard
                      [] app = "cti"    -> LeaderboardDf
FetchModels == IF app = "glokta" THEN active ELSE Models

(* A page that is loaded is a session of its own; "glokta" and "lite" look *)
(* up the names only then.                                                 *)
Load ==
  /\ risks' = LeaderboardTable
  /\ known' = FetchModels
  /\ answers' = << >>
  /\ filter' = NewSession.filter /\ events' = NewSession.events
  /\ held' = NewSession.held /\ rows' = NewSession.rows
  /\ click' = NewSession.click /\ viewer' = NewSession.viewer
  /\ UNCHANGED data
OnLoad     == app = "glokta" /\ Load
LiteOnLoad == app = "lite" /\ Load
CtiOnLoad  == app = "cti" /\ Load

OnRiskFilterChange ==
  /\ app # "cti"
  /\ risks' = LeaderboardTable
  /\ UNCHANGED <<data, known, filter, events, answers, held, rows, click, viewer>>

NumEvents(t) == Len(events[t]) + Len(answers)

(* The filter's change is an event of its own where a table follows it.    *)
Changed(t, model) ==
  IF app # "glokta" /\ filter[t] # model THEN Append(events[t], model) ELSE events[t]

(* "Refresh Data from HF" clears the choice of the model.                  *)
OnRefresh(t) ==
  /\ app = "cti" /\ NumEvents(t) < MaxEvents
  /\ risks' = LeaderboardTable
  /\ known' = FetchModels
  /\ filter' = [filter EXCEPT ![t] = All]
  /\ events' = [events EXCEPT ![t] = Changed(t, All)]
  /\ UNCHANGED <<data, answers, held, rows, click, viewer>>

Lookup(name) ==
  IF \E m \in known : name = <<m>> THEN CHOOSE m \in known : name = <<m>> ELSE All

(* The filter is set, and selecting the tab loads its tables.              *)
Drill(t, cell, model) ==
  /\ cell \in risks
  /\ NumEvents(t) < MaxEvents
  /\ filter' = [filter EXCEPT ![t] = model]
  /\ UNCHANGED <<data, risks, known, viewer, rows>>

OnRiskRowClick(t, cell) ==
  LET model == Lookup(StripHtml(cell))
  IN  /\ app = "glokta" /\ Drill(t, cell, model)
      /\ events' = [events EXCEPT ![t] = Append(@, model)]
      /\ UNCHANGED <<answers, held, click>>

OnLbRowClick(t, cell) ==
  LET model == Lookup(cell)
  IN  /\ app = "cti" /\ Drill(t, cell, model)
      /\ events' = [events EXCEPT ![t] = Append(Changed(t, model), model)]
      /\ UNCHANGED <<answers, held, click>>
-----------------------------------------------------------------------------
(* The tables of a tab                                                     *)

(* In "glokta" nothing follows a choice until the tab is selected or       *)
(* refreshed.                                                              *)
ChooseModel(t, m) ==
  /\ NumEvents(t) < MaxEvents
  /\ filter' = [filter EXCEPT ![t] = m]
  /\ events' = [events EXCEPT ![t] = Changed(t, m)]
  /\ UNCHANGED <<data, risks, known, answers, held, rows, click, viewer>>

SelectTab(t) ==
  /\ NumEvents(t) < MaxEvents
  /\ events' = [events EXCEPT ![t] = Append(@, filter[t])]
  /\ UNCHANGED <<data, risks, known, filter, answers, held, rows, click, viewer>>

FetchModelDetail(m) ==
  IF m = All \/ latest[m] = 0 THEN NoRows ELSE [model |-> m, run |-> <<m, latest[m]>>]

(* The run id kept for the rows, none for none                             *)
RunToKeep_NotCleared(t, detail) == IF detail = NoRows THEN held[t] ELSE detail.run
RunToKeep(t, detail) == detail.run

(* The rows go to the browser with an empty viewer.                        *)
Show(t, model) ==
  LET detail == FetchModelDetail(model)
  IN  /\ held' = [held EXCEPT ![t] = RunToKeep(t, detail)]
      /\ answers' = Append(answers, [tab |-> t, rows |-> detail, viewer |-> NoViewer])
      /\ click' = [click EXCEPT ![t].alone = FALSE]

Follow(t) ==
  /\ events[t] # << >>
  /\ Show(t, Head(events[t]))
  /\ events' = [events EXCEPT ![t] = Tail(@)]
  /\ UNCHANGED <<data, risks, known, filter, rows, viewer>>
OnProbeFilterChange(t)     == app = "glokta" /\ Follow(t)
LiteOnProbeFilterChange(t) == app = "lite" /\ Follow(t)
OnModelChange(t)           == app = "cti" /\ Follow(t)

(* glokta-lite fills the tables at once, and again when the filter changes.*)
LiteOnRiskRowClick(t, cell) ==
  LET model == Lookup(cell)
  IN  /\ app = "lite" /\ Drill(t, cell, model)
      /\ Show(t, model)
      /\ events' = [events EXCEPT ![t] = Changed(t, model)]

(* A click takes the row; the run id is the one kept when the server gets  *)
(* to it.                                                                  *)
ClickRow(t) ==
  /\ app # "lite" /\ rows[t] # NoRows
  /\ click[t].row = NoRows /\ NumEvents(t) < MaxEvents
  /\ click' = [click EXCEPT ![t] = [row |-> rows[t], alone |-> NumEvents(t) = 0]]
  /\ UNCHANGED <<data, risks, known, filter, events, answers, held, rows, viewer>>

RunOfRow_Latest(t) == <<click[t].row.model, latest[click[t].row.model]>>
RunOfRow(t) == held[t]

Open(t) ==
  /\ click[t].row # NoRows
  /\ answers' = Append(answers,
       [tab |-> t, rows |-> NoRows,
        viewer |-> [row |-> click[t].row, run |-> RunOfRow(t), alone |-> click[t].alone]])
  /\ click' = [click EXCEPT ![t] = NoClick]
  /\ UNCHANGED <<data, risks, known, filter, events, held, rows, viewer>>

OnProbeSelect(t) == app = "glokta" /\ Open(t)
OnTaskSelect(t)  == app = "cti" /\ Open(t)

(* The browser shows an answer: new rows, or what a row stands for.        *)
Deliver ==
  /\ answers # << >>
  /\ LET a == Head(answers)
     IN  /\ rows' = IF a.viewer = NoViewer THEN [rows EXCEPT ![a.tab] = a.rows] ELSE rows
         /\ viewer' = [viewer EXCEPT ![a.tab] = a.viewer]
  /\ answers' = Tail(answers)
  /\ UNCHANGED <<data, risks, known, filter, events, held, click>>

DashboardNext ==
  \/ \E m \in Models : ScanCompletes(m) \/ Archive(m)
  \/ OnLoad \/ LiteOnLoad \/ CtiOnLoad \/ OnRiskFilterChange \/ Deliver
  \/ \E t \in Tabs, cell \in risks :
       OnRiskRowClick(t, cell) \/ LiteOnRiskRowClick(t, cell) \/ OnLbRowClick(t, cell)
  \/ \E t \in Tabs, m \in known : ChooseModel(t, m)
  \/ \E t \in Tabs : \/ SelectTab(t) \/ OnRefresh(t) \/ ClickRow(t)
                     \/ OnProbeFilterChange(t) \/ LiteOnProbeFilterChange(t) \/ OnModelChange(t)
                     \/ OnProbeSelect(t) \/ OnTaskSelect(t)

DashboardSpec == DashboardInit /\ [][DashboardNext]_dashboardVars
-----------------------------------------------------------------------------
(* Correctness *)

(* Once everything is answered, the run id the server keeps for a tab is   *)
(* the run of the rows the browser shows in it, however the filter events  *)
(* overlapped and whatever runs completed meanwhile: a click then opens    *)
(* that run.                                                               *)
RowsAndRunAgree == answers = << >> =>
  \A t \in Tabs : events[t] = << >> => held[t] = rows[t].run

(* What is shown of a row is of the row's run, not of a run that has       *)
(* completed since, unless the filter changed between the click and the    *)
(* answer.                                                                 *)
ViewerOfClickedRun == \A t \in Tabs :
  viewer[t].alone => viewer[t].run = viewer[t].row.run
=============================================================================
