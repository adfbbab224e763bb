------------------------------- MODULE Panels -------------------------------
(***************************************************************************)
(* A chart panel of the History page between React and ECharts: the answer *)
(* that useQuery.ts holds, the body that Panel.tsx renders, the chart that *)
(* EChart.tsx creates and disposes of, its checkbox legend (ChartLegend    *)
(* .tsx), and the selection of TxRxScatter.tsx, which has all of these.    *)
(*                                                                         *)
(* React renders and commits in one step (layout effects included); the    *)
(* passive effects of that commit run later, together, and before the next *)
(* render.  Handlers of the chart and of the DOM may run in between.  An   *)
(* exception in a render unmounts the application: no boundary catches it. *)
(***************************************************************************)
EXTENDS ScatterPoints

CONSTANTS
  Points,        \* Points[k]: the points of answer k, largest first
  Areas,         \* rectangles a drag can draw: [x0, x1, y0, y1], x received, y sent
  LISTED,        \* MAX_ROWS of the selection's table
  Unset,
  MaxMoves       \* bound: steps of the user

PointsOf(k) == IF k = 0 THEN << >> ELSE Points[k]

\* The states of an ECharts instance: the answer it draws (0: none), its brush
\* and the legend names that are switched off.
SeriesNames == UNION {legendItems(PointsOf(k)) : k \in DOMAIN Points \cup {0}}
ChartStates == [drawn : DOMAIN Points \cup {0}, brush : Areas \cup {Unset}, off : SUBSET SeriesNames]

ASSUME PanelsAssumption == Unset \notin ChartStates

VARIABLES
  panel,     \* useQuery: [data: the answer held (0: none), error, loading]
  chart,     \* the ECharts instance [drawn, brush, off: legend names], or Unset
  chosen,    \* TxRxScatter's `selected`: indexes, in order, or Unset
  rect,      \* the rectangle that chose them
  hidden,    \* ChartLegend's state
  effects,   \* passive effects that the last commit owes
  opened,    \* a click's <<point drawn, point opened>>, which leaves the page
  blank,     \* a render threw
  moves      \* steps of the user so far

panelVars == <<panel, chart, chosen, rect, hidden, effects, opened, blank, moves>>

-----------------------------------------------------------------------------
(* Rendering.                                                               *)

\* Panel.tsx: an error or the empty text take the place of the chart.
Body(p) ==
  IF p.error THEN "error"
  ELSE IF p.data # 0 /\ PointsOf(p.data) = << >> /\ ~p.loading THEN "empty" ELSE "chart"

\* The rows of the selection's table, as indexes.
listedRows(p) == IF chosen = Unset \/ p.data = 0 THEN {} ELSE Range(Take(chosen, LISTED))

\* A new instance: the layout effect of EChart, and onInit's push.
Created(data) == [drawn |-> data, brush |-> Unset, off |-> {}]

PanelInit ==
  /\ panel = [data |-> 0, error |-> FALSE, loading |-> TRUE]
  /\ chart = Created(0)
  /\ chosen = Unset /\ rect = Unset /\ hidden = {}
  /\ effects = {} /\ opened = Unset /\ blank = FALSE
  /\ moves = 0

PanelLives == ~blank /\ opened = Unset

\* A render with query state p, whose data is a new object when fresh holds.
Commit(p, fresh) ==
  LET shows == Body(p) = "chart"
      kept == shows /\ chart # Unset
      throws == shows /\ ~(listedRows(p) \subseteq DOMAIN PointsOf(p.data))
  IN  /\ PanelLives /\ effects = {}
      /\ panel' = p
      /\ blank' = throws
      /\ chart' = IF throws \/ ~shows THEN Unset ELSE IF kept THEN chart ELSE Created(p.data)
      /\ hidden' = IF kept THEN hidden ELSE {}
      /\ effects' = (IF fresh THEN {"reset", "push", "bind"} ELSE {}) \cup (IF shows /\ ~kept THEN {"bind"} ELSE {})
      /\ UNCHANGED <<chosen, rect, opened>>

\* A control changes the URL: the cached answer for it, or else the last data.
NewUrl(cached) ==
  /\ moves < MaxMoves
  /\ Commit([data |-> IF cached = Unset THEN panel.data ELSE cached, error |-> FALSE, loading |-> TRUE], cached # Unset)
  /\ moves' = moves + 1

PanelAnswer(k) ==
  /\ panel.loading
  /\ Commit([data |-> k, error |-> FALSE, loading |-> FALSE], TRUE)
  /\ UNCHANGED moves

PanelFails ==
  /\ panel.loading
  /\ Commit([panel EXCEPT !.error = TRUE, !.loading = FALSE], FALSE)
  /\ UNCHANGED moves

\* The color scheme of the system flips: the chart is created again.
SchemeFlips ==
  /\ PanelLives /\ effects = {} /\ moves < MaxMoves
  /\ chart' = IF chart = Unset THEN Unset ELSE Created(panel.data)
  /\ effects' = {"push", "bind"}
  /\ moves' = moves + 1
  /\ UNCHANGED <<panel, chosen, rect, hidden, opened, blank>>

\* Mutant: a new answer leaves the selection.
RunEffects_KeepSelection ==
  /\ PanelLives /\ effects # {}
  /\ effects' = {}
  /\ hidden' = IF "bind" \in effects /\ chart # Unset THEN chart.off ELSE hidden
  /\ chart' = IF chart = Unset THEN Unset ELSE [chart EXCEPT !.drawn = panel.data]
  /\ UNCHANGED <<panel, chosen, rect, opened, blank, moves>>

\* The passive effects of the last commit: ChartLegend's, which binds itself
\* and reads the legend; TxRxScatter's reset; its push.
RunEffects ==
  /\ PanelLives /\ effects # {}
  /\ effects' = {}
  /\ hidden' = IF "bind" \in effects /\ chart # Unset THEN chart.off ELSE hidden
  /\ chosen' = IF "reset" \in effects THEN Unset ELSE chosen
  /\ chart' = IF chart = Unset THEN Unset
              ELSE [chart EXCEPT !.brush = IF "reset" \in effects THEN Unset ELSE @,
                                 !.drawn = IF "push" \in effects THEN panel.data ELSE @]
  /\ UNCHANGED <<panel, rect, opened, blank, moves>>

-----------------------------------------------------------------------------
(* The user, at the chart on the screen.                                    *)

UserActs ==
  /\ PanelLives /\ chart # Unset /\ moves < MaxMoves
  /\ moves' = moves + 1

\* A drag ends: the handler reads the points of the last render.  A drag
\* without an extent removes the rectangle.
brushEnd(a) ==
  /\ UserActs
  /\ chart' = [chart EXCEPT !.brush = a]
  /\ rect' = a
  /\ chosen' = IF a = Unset \/ panel.data = 0 THEN Unset ELSE inRect(PointsOf(panel.data), a)
  /\ UNCHANGED <<panel, hidden, effects, opened, blank>>

clear ==
  /\ UserActs /\ chosen # Unset
  /\ chart' = [chart EXCEPT !.brush = Unset]
  /\ chosen' = Unset
  /\ UNCHANGED <<panel, rect, hidden, effects, opened, blank>>

\* A point i of the series drawn is clicked; the handler looks i up in the
\* points of the last render.
pointClick(i) ==
  /\ UserActs
  /\ i \in DOMAIN PointsOf(chart.drawn) /\ i \in DOMAIN PointsOf(panel.data)
  /\ opened' = <<PointsOf(chart.drawn)[i].id, PointsOf(panel.data)[i].id>>
  /\ UNCHANGED <<panel, chart, chosen, rect, hidden, effects, blank>>

\* A checkbox of the legend: legendToggleSelect, then sync.
toggleSeries(name) ==
  /\ UserActs
  /\ name \in legendItems(PointsOf(panel.data))
  /\ chart' = [chart EXCEPT !.off = IF name \in @ THEN @ \ {name} ELSE @ \cup {name}]
  /\ hidden' = chart'.off
  /\ UNCHANGED <<panel, chosen, rect, effects, opened, blank>>

showAll ==
  /\ UserActs /\ hidden # {}
  /\ chart' = [chart EXCEPT !.off = {}]
  /\ hidden' = {}
  /\ UNCHANGED <<panel, chosen, rect, effects, opened, blank>>

PanelNext ==
  \/ \E c \in DOMAIN Points \cup {Unset} : NewUrl(c)
  \/ \E k \in DOMAIN Points : PanelAnswer(k)
  \/ PanelFails \/ SchemeFlips \/ RunEffects
  \/ \E a \in Areas \cup {Unset} : brushEnd(a)
  \/ \E i \in 1 .. Len(PointsOf(panel.data)) : pointClick(i)
  \/ \E s \in legendItems(PointsOf(panel.data)) : toggleSeries(s)
  \/ clear \/ showAll

PanelSpec == PanelInit /\ [][PanelNext]_panelVars

-----------------------------------------------------------------------------
(* Properties.                                                              *)

\* The comment of TxRxScatter.tsx: "A new answer invalidates the selection
\* (indexes into the old points)": every row of the selection's table that is
\* rendered is a point of the answer shown.
SelectionInvalidated ==
  Body(panel) = "chart" => listedRows(panel) \subseteq DOMAIN PointsOf(panel.data)

\* Whatever the order of answers, failures, scheme flips and the user's steps,
\* once the effects of the last render have run there is a chart exactly when
\* the panel shows one, it draws the answer held, the checkboxes say which of
\* its series are hidden, and the selection is what the rectangle selects in
\* this answer; a click opens the point it hit unless a push was owed.
PanelSettles ==
  /\ ~blank /\ effects = {} =>
       /\ (chart # Unset) = (Body(panel) = "chart")
       /\ chart # Unset => chart.drawn = panel.data /\ hidden = chart.off
       /\ chosen # Unset => chosen = inRect(PointsOf(panel.data), rect)
  /\ opened # Unset => opened[1] = opened[2] \/ "push" \in effects
=============================================================================
