------------------------ MODULE PanelsStorageProofs ------------------------
(***************************************************************************)
(* Proofs about two pages of the dashboard, for every value of their       *)
(* constants: a panel of the History page settles, and deleting from the   *)
(* Storage page is exact.                                                  *)
(***************************************************************************)
EXTENDS Panels, Storage, TLAPS

\* The provers of a leaf that names none, in the order they are tried.
USE ZenonT(90), SMTT(30)

-----------------------------------------------------------------------------
(***************************************************************************)
(* A panel of the History page settles: PanelSettles, for any answers,     *)
(* areas and number of steps.                                              *)
(*                                                                         *)
(* PanelSettles speaks of the moments when no effect is owed.  The         *)
(* invariant says of every moment what an owed effect will put right: the  *)
(* chart draws the answer held unless a push is owed, the checkboxes agree *)
(* with the legend unless a bind is, and the selection belongs to the      *)
(* answer unless a reset is.  Whether there is a chart at all is settled   *)
(* by the commit itself.                                                   *)
(***************************************************************************)

TypeInv ==
  /\ panel \in [data : DOMAIN Points \cup {0}, error : BOOLEAN, loading : BOOLEAN]
  /\ chart \in ChartStates \cup {Unset}
  /\ blank \in BOOLEAN

\* There is a chart exactly when the panel shows one.
ShownInv == ~blank => (chart # Unset <=> Body(panel) = "chart")

\* What the owed effects still have to put right.
OwedInv ==
  ~blank =>
    /\ chart # Unset => /\ "push" \in effects \/ chart.drawn = panel.data
                        /\ "bind" \in effects \/ hidden = chart.off
    /\ chosen # Unset => "reset" \in effects \/ chosen = inRect(PointsOf(panel.data), rect)

OpenedInv == opened # Unset => opened[1] = opened[2] \/ "push" \in effects

PanelInv == TypeInv /\ ShownInv /\ OwedInv /\ OpenedInv

-----------------------------------------------------------------------------
(* Steps.                                                                   *)

\* A fresh instance is a chart.
LEMMA CreatedFacts ==
  ASSUME NEW d \in DOMAIN Points \cup {0}
  PROVE /\ Created(d) \in ChartStates /\ Created(d) # Unset
        /\ Created(d).drawn = d /\ Created(d).off = {}
<1>1. Created(d) \in ChartStates
  BY DEF Created, ChartStates
<1> QED BY <1>1, PanelsAssumption DEF Created

\* The fields of a chart.
LEMMA ChartFacts ==
  ASSUME NEW c \in ChartStates
  PROVE /\ c.drawn \in DOMAIN Points \cup {0} /\ c.brush \in Areas \cup {Unset} /\ c.off \subseteq SeriesNames
        /\ c = [drawn |-> c.drawn, brush |-> c.brush, off |-> c.off]
        /\ c # Unset
  BY PanelsAssumption DEF ChartStates

\* Updates of a chart.
LEMMA ChartUpdate ==
  ASSUME NEW c, c = [drawn |-> c.drawn, brush |-> c.brush, off |-> c.off], NEW d, NEW b, NEW o, NEW e
  PROVE /\ e = [c EXCEPT !.brush = b, !.drawn = d] => e = [drawn |-> d, brush |-> b, off |-> c.off]
        /\ e = [c EXCEPT !.brush = b, !.off = o] => e = [drawn |-> c.drawn, brush |-> b, off |-> o]
<1>1. ASSUME e = [c EXCEPT !.brush = b, !.drawn = d] PROVE e = [drawn |-> d, brush |-> b, off |-> c.off]
  BY <1>1
<1>2. ASSUME e = [c EXCEPT !.brush = b, !.off = o] PROVE e = [drawn |-> c.drawn, brush |-> b, off |-> o]
  BY <1>2
<1> QED BY <1>1, <1>2

\* The first render shows a chart and owes nothing.
LEMMA PanelInvInit == PanelInit => PanelInv
<1> SUFFICES ASSUME PanelInit PROVE PanelInv
  OBVIOUS
<1>1. panel = [data |-> 0, error |-> FALSE, loading |-> TRUE] /\ chart = Created(0) /\ blank = FALSE
  BY DEF PanelInit
<1>2. Body(panel) = "chart"
  BY <1>1 DEF Body
<1>3. chart \in ChartStates /\ chart # Unset /\ chart.drawn = 0 /\ chart.off = {}
  BY <1>1, CreatedFacts
<1>4. TypeInv
  BY <1>1, <1>3 DEF TypeInv
<1>5. hidden = {} /\ chosen = Unset /\ opened = Unset /\ panel.data = 0
  BY <1>1, SMTT(30) DEF PanelInit
<1> QED BY <1>2, <1>3, <1>4, <1>5 DEF PanelInv, ShownInv, OwedInv, OpenedInv

\* A render: a fresh answer owes reset, push and bind; without one the data is
\* the same and everything that agreed with it still does.
LEMMA CommitStep ==
  ASSUME PanelInv, NEW p \in [data : DOMAIN Points \cup {0}, error : BOOLEAN, loading : BOOLEAN],
         NEW fresh \in BOOLEAN, Commit(p, fresh), fresh \/ p.data = panel.data
  PROVE PanelInv'
<1> DEFINE shows == Body(p) = "chart"
           kept == shows /\ chart # Unset
           throws == shows /\ ~(listedRows(p) \subseteq DOMAIN PointsOf(p.data))
<1>1. /\ ~blank /\ opened = Unset /\ effects = {}
      /\ panel' = p /\ blank' = throws
      /\ chart' = IF throws \/ ~shows THEN Unset ELSE IF kept THEN chart ELSE Created(p.data)
      /\ hidden' = IF kept THEN hidden ELSE {}
      /\ effects' = (IF fresh THEN {"reset", "push", "bind"} ELSE {}) \cup (IF shows /\ ~kept THEN {"bind"} ELSE {})
      /\ UNCHANGED <<chosen, rect, opened>>
  BY DEF Commit, PanelLives
<1>2. p.data \in DOMAIN Points \cup {0} /\ throws \in BOOLEAN
  OBVIOUS
<1>3. Created(p.data) \in ChartStates /\ Created(p.data) # Unset
      /\ Created(p.data).drawn = p.data /\ Created(p.data).off = {}
  BY <1>2, CreatedFacts
<1>4. TypeInv'
  BY <1>1, <1>2, <1>3 DEF PanelInv, TypeInv
<1>5. fresh => "push" \in effects' /\ "bind" \in effects' /\ "reset" \in effects'
  BY <1>1
<1>6. ShownInv'
  <2>1. (Body(panel) = "chart")' <=> shows
    BY <1>1 DEF Body
  <2> HIDE DEF shows, throws
  <2> QED BY <1>1, <1>3, <2>1 DEF ShownInv, kept
<1>7. ASSUME ~blank' PROVE OwedInv'
  <2>1. CASE kept
    <3>1. chart' = chart /\ hidden' = hidden
      BY <1>1, <1>7, <2>1
    <3> QED BY <1>1, <1>5, <3>1, SMTT(30) DEF PanelInv, OwedInv
  <2>2. CASE shows /\ ~kept
    <3>1. chart' = Created(p.data) /\ hidden' = {}
      BY <1>1, <1>7, <2>2
    <3> QED BY <1>1, <1>3, <1>5, <3>1 DEF PanelInv, OwedInv
  <2>3. CASE ~shows
    <3>1. chart' = Unset
      BY <1>1, <2>3
    <3> QED BY <1>1, <1>5, <3>1 DEF PanelInv, OwedInv
  <2> QED BY <2>1, <2>2, <2>3
<1>8. OpenedInv'
  BY <1>1 DEF OpenedInv
<1>9. OwedInv'
  BY <1>7 DEF OwedInv
<1> QED BY <1>4, <1>6, <1>8, <1>9 DEF PanelInv

\* New URLs, answers and failures render.
LEMMA RenderStep ==
  ASSUME PanelInv,
         \/ \E c \in DOMAIN Points \cup {Unset} : NewUrl(c)
         \/ \E k \in DOMAIN Points : PanelAnswer(k)
         \/ PanelFails
  PROVE PanelInv'
<1>0. panel \in [data : DOMAIN Points \cup {0}, error : BOOLEAN, loading : BOOLEAN]
  BY DEF PanelInv, TypeInv
<1>1. ASSUME NEW c \in DOMAIN Points \cup {Unset}, NewUrl(c) PROVE PanelInv'
  <2> DEFINE p == [data |-> IF c = Unset THEN panel.data ELSE c, error |-> FALSE, loading |-> TRUE]
  <2>1. Commit(p, c # Unset)
    BY <1>1 DEF NewUrl
  <2>2. p \in [data : DOMAIN Points \cup {0}, error : BOOLEAN, loading : BOOLEAN]
    BY <1>0
  <2>3. (c # Unset) \/ p.data = panel.data
    OBVIOUS
  <2> HIDE DEF p
  <2> QED BY <2>1, <2>2, <2>3, CommitStep
<1>2. ASSUME NEW k \in DOMAIN Points, PanelAnswer(k) PROVE PanelInv'
  <2> DEFINE p == [data |-> k, error |-> FALSE, loading |-> FALSE]
  <2>1. Commit(p, TRUE)
    BY <1>2 DEF PanelAnswer
  <2>2. p \in [data : DOMAIN Points \cup {0}, error : BOOLEAN, loading : BOOLEAN]
    OBVIOUS
  <2> HIDE DEF p
  <2> QED BY <2>1, <2>2, CommitStep
<1>3. ASSUME PanelFails PROVE PanelInv'
  <2> DEFINE p == [panel EXCEPT !.error = TRUE, !.loading = FALSE]
  <2>1. Commit(p, FALSE)
    BY <1>3 DEF PanelFails
  <2>2. p \in [data : DOMAIN Points \cup {0}, error : BOOLEAN, loading : BOOLEAN] /\ p.data = panel.data
    BY <1>0
  <2> HIDE DEF p
  <2> QED BY <2>1, <2>2, CommitStep
<1> QED BY <1>1, <1>2, <1>3

\* The scheme flips: a chart is created again and its effects are owed.
LEMMA FlipStep == ASSUME PanelInv, SchemeFlips PROVE PanelInv'
<1>1. /\ ~blank /\ opened = Unset /\ effects = {}
      /\ chart' = IF chart = Unset THEN Unset ELSE Created(panel.data)
      /\ effects' = {"push", "bind"}
      /\ UNCHANGED <<panel, chosen, rect, hidden, opened, blank>>
  BY DEF SchemeFlips, PanelLives
<1>2. panel.data \in DOMAIN Points \cup {0}
  BY DEF PanelInv, TypeInv
<1>3. Created(panel.data) \in ChartStates /\ Created(panel.data) # Unset
  BY <1>2, CreatedFacts
<1>4. Body(panel)' = Body(panel)
  BY <1>1 DEF Body
<1>5. TypeInv'
  BY <1>1, <1>3 DEF PanelInv, TypeInv
<1>6. ShownInv'
  BY <1>1, <1>3, <1>4 DEF PanelInv, ShownInv
<1>7. OwedInv' /\ OpenedInv'
  BY <1>1 DEF PanelInv, OwedInv, OpenedInv
<1> QED BY <1>5, <1>6, <1>7 DEF PanelInv

\* The effects run, and nothing is owed any more.
LEMMA EffectsStep == ASSUME PanelInv, RunEffects PROVE PanelInv'
<1> DEFINE b == IF "reset" \in effects THEN Unset ELSE chart.brush
           d == IF "push" \in effects THEN panel.data ELSE chart.drawn
<1>1. /\ ~blank /\ opened = Unset /\ effects' = {}
      /\ hidden' = IF "bind" \in effects /\ chart # Unset THEN chart.off ELSE hidden
      /\ chosen' = IF "reset" \in effects THEN Unset ELSE chosen
      /\ UNCHANGED <<panel, rect, opened, blank>>
  BY DEF RunEffects, PanelLives
<1>2. panel.data \in DOMAIN Points \cup {0}
  BY DEF PanelInv, TypeInv
<1>3. Body(panel)' = Body(panel) /\ PointsOf(panel.data)' = PointsOf(panel.data)
  BY <1>1 DEF Body, PointsOf
<1>4. chosen' # Unset => chosen' = inRect(PointsOf(panel.data), rect)'
  BY <1>1, <1>3 DEF PanelInv, OwedInv
<1>5. CASE chart = Unset
  <2>1. chart' = Unset
    BY <1>5 DEF RunEffects
  <2> QED BY <1>1, <1>3, <1>4, <1>5, <2>1 DEF PanelInv, TypeInv, ShownInv, OwedInv, OpenedInv
<1>6. CASE chart # Unset
  <2>1. chart \in ChartStates
    BY <1>6 DEF PanelInv, TypeInv
  <2>2. chart' = [chart EXCEPT !.brush = b, !.drawn = d]
    BY <1>6 DEF RunEffects
  <2>3. chart' = [drawn |-> d, brush |-> b, off |-> chart.off]
    <3>1. chart = [drawn |-> chart.drawn, brush |-> chart.brush, off |-> chart.off]
      BY <2>1, ChartFacts
    <3> HIDE DEF b, d
    <3> QED BY <2>2, <3>1, ChartUpdate
  <2>4. d \in DOMAIN Points \cup {0} /\ b \in Areas \cup {Unset} /\ chart.off \subseteq SeriesNames
    BY <1>2, <2>1, ChartFacts
  <2>5. d = panel.data /\ hidden' = chart.off
    BY <1>1, <1>6 DEF PanelInv, OwedInv
  <2> HIDE DEF b, d
  <2>6. chart' \in ChartStates
    BY <2>3, <2>4 DEF ChartStates
  <2>7. chart' # Unset /\ chart'.drawn = d /\ chart'.off = chart.off
    BY <2>3, <2>6, PanelsAssumption
  <2>8. TypeInv' /\ ShownInv'
    BY <1>1, <1>3, <1>6, <2>6, <2>7 DEF PanelInv, TypeInv, ShownInv
  <2>9. OwedInv' /\ OpenedInv'
    BY <1>1, <1>4, <2>5, <2>7 DEF OwedInv, OpenedInv
  <2> QED BY <2>8, <2>9 DEF PanelInv
<1> QED BY <1>5, <1>6

\* The user's steps need a chart.
LEMMA UserStep ==
  ASSUME PanelInv,
         \/ \E a \in Areas \cup {Unset} : brushEnd(a)
         \/ clear \/ showAll
         \/ \E i \in 1 .. Len(PointsOf(panel.data)) : pointClick(i)
         \/ \E s \in legendItems(PointsOf(panel.data)) : toggleSeries(s)
  PROVE PanelInv'
<1>1. /\ ~blank /\ opened = Unset /\ chart # Unset
      /\ UNCHANGED <<panel, effects, blank>>
  BY DEF brushEnd, clear, showAll, pointClick, toggleSeries, UserActs, PanelLives
<1>2. panel.data \in DOMAIN Points \cup {0}
  BY DEF PanelInv, TypeInv
<1>3. /\ Body(panel)' = Body(panel) /\ PointsOf(panel.data)' = PointsOf(panel.data)
      /\ panel.data' = panel.data
  BY <1>1 DEF Body, PointsOf
<1>4. chart \in ChartStates
  BY <1>1 DEF PanelInv, TypeInv
<1>5. Body(panel) = "chart"
  BY <1>1 DEF PanelInv, ShownInv
\* What is left to show of a step that gives the chart brush b and legend o.
<1>6. ASSUME NEW b \in Areas \cup {Unset}, NEW o \in SUBSET SeriesNames,
             chart' = [chart EXCEPT !.brush = b, !.off = o],
             "bind" \in effects \/ hidden' = o,
             chosen' # Unset => "reset" \in effects \/ chosen' = inRect(PointsOf(panel.data), rect'),
             opened' = opened
      PROVE PanelInv'
  <2>1. chart' = [drawn |-> chart.drawn, brush |-> b, off |-> o]
    <3>1. chart = [drawn |-> chart.drawn, brush |-> chart.brush, off |-> chart.off]
      BY <1>4, ChartFacts
    <3> QED BY <1>6, <3>1, ChartUpdate
  <2>2. chart' \in ChartStates
    BY <1>4, <2>1, ChartFacts DEF ChartStates
  <2>3. chart' # Unset /\ chart'.drawn = chart.drawn /\ chart'.off = o
    BY <2>1, <2>2, PanelsAssumption
  <2>4. TypeInv' /\ ShownInv'
    BY <1>1, <1>3, <1>5, <2>2, <2>3 DEF PanelInv, TypeInv, ShownInv
  <2>5. "push" \in effects \/ chart.drawn = panel.data
    BY <1>1 DEF PanelInv, OwedInv
  <2>6. OwedInv'
    BY <1>1, <1>3, <1>6, <2>3, <2>5 DEF OwedInv
  <2>7. OpenedInv'
    BY <1>1, <1>6 DEF OpenedInv
  <2> QED BY <2>4, <2>6, <2>7 DEF PanelInv
<1>7. /\ chart.off \in SUBSET SeriesNames /\ chart.brush \in Areas \cup {Unset}
      /\ "bind" \in effects \/ hidden = chart.off
      /\ chosen # Unset => "reset" \in effects \/ chosen = inRect(PointsOf(panel.data), rect)
  BY <1>1, <1>4, ChartFacts DEF PanelInv, OwedInv
<1>8. ASSUME NEW a \in Areas \cup {Unset}, brushEnd(a) PROVE PanelInv'
  <2>1. /\ chart' = [chart EXCEPT !.brush = a] /\ rect' = a
        /\ chosen' # Unset => chosen' = inRect(PointsOf(panel.data), a)
        /\ hidden' = hidden /\ opened' = opened
    BY <1>8 DEF brushEnd
  <2>2. chart' = [chart EXCEPT !.brush = a, !.off = chart.off]
    BY <1>4, <2>1, ChartFacts
  <2> QED BY <1>6, <1>7, <2>1, <2>2
<1>9. ASSUME clear PROVE PanelInv'
  <2>1. /\ chart' = [chart EXCEPT !.brush = Unset] /\ chosen' = Unset
        /\ hidden' = hidden /\ opened' = opened
    BY <1>9 DEF clear
  <2>2. chart' = [chart EXCEPT !.brush = Unset, !.off = chart.off]
    BY <1>4, <2>1, ChartFacts
  <2> QED BY <1>6, <1>7, <2>1, <2>2
<1>10. ASSUME showAll PROVE PanelInv'
  <2>1. /\ chart' = [chart EXCEPT !.off = {}] /\ hidden' = {}
        /\ UNCHANGED <<chosen, rect, opened>>
    BY <1>10 DEF showAll
  <2>2. chart' = [chart EXCEPT !.brush = chart.brush, !.off = {}]
    BY <1>4, <2>1, ChartFacts
  <2> QED BY <1>6, <1>7, <2>1, <2>2
<1>11. ASSUME NEW s \in legendItems(PointsOf(panel.data)), toggleSeries(s) PROVE PanelInv'
  <2> DEFINE o == IF s \in chart.off THEN chart.off \ {s} ELSE chart.off \cup {s}
  <2>1. /\ chart' = [chart EXCEPT !.off = o] /\ hidden' = chart'.off
        /\ UNCHANGED <<chosen, rect, opened>>
    BY <1>11 DEF toggleSeries
  <2>2. s \in SeriesNames
    BY <1>2 DEF SeriesNames
  <2>3. o \in SUBSET SeriesNames
    BY <1>7, <2>2
  <2> HIDE DEF o
  <2>4. chart' = [chart EXCEPT !.brush = chart.brush, !.off = o]
    BY <1>4, <2>1, ChartFacts
  <2>5. hidden' = o
    <3>1. chart' = [drawn |-> chart.drawn, brush |-> chart.brush, off |-> o]
      BY <1>4, <2>1, ChartFacts, SMTT(30)
    <3> QED BY <2>1, <3>1
  <2> QED BY <1>6, <1>7, <2>1, <2>3, <2>4, <2>5
<1>12. ASSUME NEW i \in 1 .. Len(PointsOf(panel.data)), pointClick(i) PROVE PanelInv'
  <2>1. /\ opened' = <<PointsOf(chart.drawn)[i].id, PointsOf(panel.data)[i].id>>
        /\ UNCHANGED <<chart, chosen, rect, hidden>>
    BY <1>12 DEF pointClick
  <2>2. "push" \in effects \/ chart.drawn = panel.data
    BY <1>1 DEF PanelInv, OwedInv
  <2>3. OpenedInv'
    BY <1>1, <2>1, <2>2 DEF OpenedInv
  <2>4. TypeInv' /\ ShownInv' /\ OwedInv'
    BY <1>1, <1>3, <2>1 DEF PanelInv, TypeInv, ShownInv, OwedInv
  <2> QED BY <2>3, <2>4 DEF PanelInv
<1> QED BY <1>8, <1>9, <1>10, <1>11, <1>12

\* Every step keeps the invariant.
LEMMA PanelInvStep == PanelInv /\ [PanelNext]_panelVars => PanelInv'
<1> SUFFICES ASSUME PanelInv, [PanelNext]_panelVars PROVE PanelInv'
  OBVIOUS
<1>1. CASE UNCHANGED panelVars
  <2>1. UNCHANGED <<panel, chart, chosen, rect, hidden, effects, opened, blank>>
    BY <1>1 DEF panelVars
  <2> QED BY <2>1 DEF PanelInv, TypeInv, ShownInv, OwedInv, OpenedInv, Body, PointsOf
<1>2. CASE PanelNext
  <2>1. CASE \/ \E c \in DOMAIN Points \cup {Unset} : NewUrl(c)
             \/ \E k \in DOMAIN Points : PanelAnswer(k)
             \/ PanelFails
    BY <2>1, RenderStep
  <2>2. CASE SchemeFlips
    BY <2>2, FlipStep
  <2>3. CASE RunEffects
    BY <2>3, EffectsStep
  <2>4. CASE \/ \E a \in Areas \cup {Unset} : brushEnd(a)
             \/ clear \/ showAll
             \/ \E i \in 1 .. Len(PointsOf(panel.data)) : pointClick(i)
             \/ \E s \in legendItems(PointsOf(panel.data)) : toggleSeries(s)
    BY <2>4, UserStep
  <2> QED BY <1>2, <2>1, <2>2, <2>3, <2>4 DEF PanelNext
<1> QED BY <1>1, <1>2

-----------------------------------------------------------------------------

\* Once the effects of the last render have run, chart, checkboxes, selection and
\* answer agree, and a click opens the point it hit unless a push was owed.
THEOREM Settles == PanelSpec => []PanelSettles
<1>1. PanelInv => PanelSettles
  <2> SUFFICES ASSUME PanelInv PROVE PanelSettles
    OBVIOUS
  <2>1. ASSUME ~blank, effects = {}
        PROVE /\ (chart # Unset) = (Body(panel) = "chart")
              /\ chart # Unset => chart.drawn = panel.data /\ hidden = chart.off
              /\ chosen # Unset => chosen = inRect(PointsOf(panel.data), rect)
    <3>1. chart # Unset <=> Body(panel) = "chart"
      BY <2>1 DEF PanelInv, ShownInv
    <3>2. (chart # Unset) = (Body(panel) = "chart")
      BY <3>1
    <3> QED BY <2>1, <3>2 DEF PanelInv, OwedInv
  <2> QED BY <2>1 DEF PanelInv, OpenedInv, PanelSettles
<1> QED BY <1>1, PanelInvInit, PanelInvStep, PTL DEF PanelSpec

-----------------------------------------------------------------------------
(***************************************************************************)
(* Deleting from the Storage page is exact, for any processes, days,       *)
(* partitions and dashboards, whatever the collector writes and expiry     *)
(* removes between the steps of the delete.                                *)
(***************************************************************************)

\* The Storage page alone.
StorageSpec ==
  /\ On("storage") /\ StorageInit
  /\ [][StorageNext /\ UNCHANGED route]_<<route, storageVars>>

-----------------------------------------------------------------------------
(* The inductive invariant.                                                 *)

\* A delete is a record with these fields.
IsDelete(d) ==
  d = [store |-> d.store, keys |-> d.keys, pc |-> d.pc,
       todo |-> d.todo, chunk |-> d.chunk, asked |-> d.asked]

\* Where deleteEndedDays is: what it has removed stays removed unless it was
\* written again (r), what it is about to remove is asked for, and has ended or
\* is among those that began again (b).
DaysOK(d, i, h, a, r, b) ==
  /\ d.pc \in {"read", "unlink", "zrem", "forget", "reply"}
  /\ Days(BrowserTz, d.asked) \subseteq d.keys
  /\ d.asked \cap a \subseteq b
  /\ d.todo \subseteq d.asked
  /\ (d.asked \ d.todo) \cap (i \cup h) \subseteq r
  /\ d.pc = "zrem" => d.chunk \subseteq d.todo /\ d.chunk \cap h \subseteq r
  /\ d.pc \in {"forget", "reply"} => d.todo = {}

\* Where dropPartitions is.
PartitionsOK(d, p, r) ==
  /\ d.pc \in {"read", "drop", "reply"}
  /\ d.pc = "drop" => (d.keys \ d.todo) \cap p \subseteq r
  /\ d.pc = "reply" => d.keys \cap p \subseteq r

\* d is a delete that fits the index i, the keys h, the living a, the
\* partitions p, what was written again r and what began again b.
DeleteOK(d, i, h, a, p, r, b) ==
  d # Null =>
    /\ IsDelete(d)
    /\ d.store = "redis" => DaysOK(d, i, h, a, r, b)
    /\ d.store # "redis" => PartitionsOK(d, p, r)

\* What holds of the stores whether or not a delete is under way: a process in
\* the index is alive only if it began again, and keys are within reach.
StoresInv ==
  /\ hash \subseteq Procs
  /\ index \cap alive \subseteq began
  /\ hash \ (index \cup alive) \subseteq rewritten \cup aged

DeleteInv ==
  /\ StoresInv
  /\ DeleteOK(del, index, hash, alive, parts, rewritten, began)

\* No delete is under way initially.
LEMMA DeleteInvInit == On("storage") /\ StorageInit => DeleteInv
  BY StorageAssumption DEF StorageInit, DeleteInv, DeleteOK, StoresInv

\* The fields of a delete.
Delete(store, keys, pc, todo, chunk, asked) ==
  [store |-> store, keys |-> keys, pc |-> pc, todo |-> todo, chunk |-> chunk, asked |-> asked]

\* Such a record is a delete, and has the fields it was made of.
LEMMA DeleteFields ==
  ASSUME NEW s, NEW k, NEW c, NEW t, NEW u, NEW a, NEW d, d = Delete(s, k, c, t, u, a)
  PROVE /\ d.store = s /\ d.keys = k /\ d.pc = c /\ d.todo = t /\ d.chunk = u /\ d.asked = a
        /\ IsDelete(d)
<1>1. d.store = s /\ d.keys = k /\ d.pc = c /\ d.todo = t /\ d.chunk = u /\ d.asked = a
  BY DEF Delete
<1> QED BY <1>1 DEF Delete, IsDelete

\* A step that leaves the stores alone, and the delete or ends it.
LEMMA FrameStep ==
  ASSUME DeleteInv, UNCHANGED <<index, hash, alive, parts, rewritten, began, aged>>, del' = del \/ del' = Null
  PROVE DeleteInv'
  BY DEF DeleteInv, DeleteOK, StoresInv

\* A step that begins a delete.
LEMMA SubmitStep ==
  ASSUME DeleteInv, NEW right \in BOOLEAN, Submit(right)
  PROVE DeleteInv'
<1>1. UNCHANGED <<index, hash, alive, parts, rewritten, began, aged>>
  BY DEF Submit, stores
<1>0. StoresInv' BY <1>1 DEF DeleteInv, StoresInv
<1>2. CASE del' = del
  BY <1>1, <1>2, FrameStep
<1>3. CASE del' = Delete(dialog.store, dialog.keys, "read", {}, {}, {})
  <2>1. IsDelete(del') /\ del'.pc = "read" /\ del'.todo = {} /\ del'.chunk = {} /\ del'.asked = {}
    BY <1>3, DeleteFields, SMTT(30)
  <2>2. Days(BrowserTz, del'.asked) = {}
    BY <2>1 DEF Days
  <2>3. DaysOK(del', index', hash', alive', rewritten', began') /\ PartitionsOK(del', parts', rewritten')
    BY <2>1, <2>2 DEF DaysOK, PartitionsOK
  <2> QED BY <1>0, <2>1, <2>3 DEF DeleteInv, DeleteOK
<1> QED BY <1>2, <1>3 DEF Submit, Delete

\* The collector writes a process: what is written again is remembered as such,
\* and so is one that begins again.
LEMMA CollectorStep ==
  ASSUME DeleteInv, NEW p \in Procs, NEW over \in BOOLEAN, CollectorWrites(p, over)
  PROVE DeleteInv'
<1>1. /\ alive' = (IF over THEN alive \ {p} ELSE alive \cup {p})
      /\ index' = (IF over THEN index \cup {p} ELSE index)
      /\ hash' = hash \cup {p}
      /\ rewritten' = rewritten \cup (IF del = Null THEN {} ELSE del.asked \cap {p})
      /\ began' = (IF over \/ p \in alive THEN began ELSE began \cup {p})
      /\ parts' = parts /\ del' = del /\ aged' = aged
  BY DEF CollectorWrites
<1>2. StoresInv'
  <2>1. hash' \subseteq Procs BY <1>1 DEF DeleteInv, StoresInv
  <2>2. index' \cap alive' \subseteq began' BY <1>1 DEF DeleteInv, StoresInv
  <2>3. hash' \ (index' \cup alive') \subseteq rewritten' \cup aged' BY <1>1 DEF DeleteInv, StoresInv
  <2> QED BY <2>1, <2>2, <2>3 DEF StoresInv
<1>3. ASSUME del # Null, del.store = "redis" PROVE DaysOK(del, index', hash', alive', rewritten', began')
  <2>1. DaysOK(del, index, hash, alive, rewritten, began)
    BY <1>3 DEF DeleteInv, DeleteOK
  <2>2. /\ alive' \subseteq alive \cup {p} /\ began \subseteq began'
        /\ p \in alive' => p \in alive \/ p \in began'
        /\ index' \cup hash' \subseteq (index \cup hash) \cup {p}
        /\ rewritten' = rewritten \cup (del.asked \cap {p})
    BY <1>1, <1>3
  <2>3. del.asked \cap alive' \subseteq began' BY <2>1, <2>2 DEF DaysOK
  <2>4. (del.asked \ del.todo) \cap (index' \cup hash') \subseteq rewritten' BY <2>1, <2>2 DEF DaysOK
  <2>5. del.pc = "zrem" => del.chunk \subseteq del.todo /\ del.chunk \cap hash' \subseteq rewritten'
    BY <1>1, <2>1, <2>2 DEF DaysOK
  <2> QED BY <2>1, <2>3, <2>4, <2>5 DEF DaysOK
<1>4. ASSUME del # Null, del.store # "redis" PROVE PartitionsOK(del, parts', rewritten')
  <2>1. PartitionsOK(del, parts, rewritten)
    BY <1>4 DEF DeleteInv, DeleteOK
  <2> QED BY <1>1, <2>1 DEF PartitionsOK
<1> QED BY <1>1, <1>2, <1>3, <1>4 DEF DeleteInv, DeleteOK

\* Entries and keys expire, and rows are inserted.
LEMMA WriteStep ==
  ASSUME DeleteInv, (\E p \in Procs, b \in BOOLEAN : Ages(p, b)) \/ (\E k \in Parts : InsertRows(k) \/ PartitionExpires(k))
  PROVE DeleteInv'
<1>1. CASE \E p \in Procs, b \in BOOLEAN : Ages(p, b)
  <2>1. PICK p \in Procs, b \in BOOLEAN : Ages(p, b)
    BY <1>1
  <2>2. /\ alive' = alive /\ index' \subseteq index /\ hash' \subseteq hash
        /\ hash' \ (index' \cup alive) \subseteq (hash \ (index \cup alive)) \cup {p}
        /\ aged' = aged \cup {p} /\ UNCHANGED <<parts, del, rewritten, began>>
    BY <2>1 DEF Ages
  <2>3. StoresInv'
    BY <2>2 DEF DeleteInv, StoresInv
  <2>4. ASSUME del # Null, del.store = "redis" PROVE DaysOK(del, index', hash', alive', rewritten', began')
    <3>1. DaysOK(del, index, hash, alive, rewritten, began)
      BY <2>4 DEF DeleteInv, DeleteOK
    <3> QED BY <2>2, <3>1 DEF DaysOK
  <2> QED BY <2>2, <2>3, <2>4 DEF DeleteInv, DeleteOK
<1>2. CASE \E k \in Parts : InsertRows(k) \/ PartitionExpires(k)
  <2>1. PICK k \in Parts : InsertRows(k) \/ PartitionExpires(k)
    BY <1>2
  <2>2. /\ UNCHANGED <<alive, index, hash, del, began, aged>>
        /\ \/ parts' = parts \cup {k} /\ rewritten' = rewritten \cup {k}
           \/ parts' = parts \ {k} /\ rewritten' = rewritten
    BY <2>1 DEF InsertRows, PartitionExpires, server
  <2>4. ASSUME del # Null, del.store = "redis" PROVE DaysOK(del, index', hash', alive', rewritten', began')
    <3>1. DaysOK(del, index, hash, alive, rewritten, began)
      BY <2>4 DEF DeleteInv, DeleteOK
    <3> QED BY <2>2, <3>1 DEF DaysOK
  <2>5. ASSUME del # Null, del.store # "redis" PROVE PartitionsOK(del, parts', rewritten')
    <3>1. PartitionsOK(del, parts, rewritten)
      BY <2>5 DEF DeleteInv, DeleteOK
    <3> QED BY <2>2, <3>1 DEF PartitionsOK
  <2>6. StoresInv'
    BY <2>2 DEF DeleteInv, StoresInv
  <2> QED BY <2>2, <2>4, <2>5, <2>6 DEF DeleteInv, DeleteOK
<1> QED BY <1>1, <1>2

\* dropPartitions.
LEMMA DropStep ==
  ASSUME DeleteInv, DropRead \/ \E k \in Parts, ok \in BOOLEAN : DropPartition(k, ok)
  PROVE DeleteInv'
<1> DEFINE D(c, t) == Delete(del.store, del.keys, c, t, del.chunk, del.asked)
<1>1. CASE DropRead
  <2>1. /\ del # Null /\ del.store = "clickhouse" /\ UNCHANGED <<index, hash, alive, parts, began, aged>>
        /\ \/ del' = [del EXCEPT !.pc = "drop", !.todo = del.keys] /\ rewritten' = rewritten \cap Procs
           \/ del' = Null /\ rewritten' = rewritten
    BY <1>1 DEF DropRead, Fail, stores
  <2>2. CASE del' = Null /\ rewritten' = rewritten
    BY <2>1, <2>2, FrameStep
  <2>3. CASE del' = [del EXCEPT !.pc = "drop", !.todo = del.keys] /\ rewritten' = rewritten \cap Procs
    <3>1. del' = D("drop", del.keys)
      BY <2>1, <2>3 DEF DeleteInv, DeleteOK, IsDelete, Delete
    <3>2. IsDelete(del') /\ del'.store = "clickhouse" /\ del'.pc = "drop" /\ del'.todo = del.keys /\ del'.keys = del.keys
      BY <2>1, <3>1, DeleteFields, SMTT(30)
    <3>3. PartitionsOK(del', parts', rewritten')
      BY <3>2 DEF PartitionsOK
    <3>4. StoresInv'
      BY <2>1, <2>3 DEF DeleteInv, StoresInv
    <3> QED BY <3>2, <3>3, <3>4 DEF DeleteInv, DeleteOK
  <2> QED BY <2>1, <2>2, <2>3
<1>2. CASE \E k \in Parts, ok \in BOOLEAN : DropPartition(k, ok)
  <2>1. PICK k \in Parts, ok \in BOOLEAN : DropPartition(k, ok)
    BY <1>2
  <2>2. del # Null /\ del.pc = "drop" /\ UNCHANGED <<index, hash, alive, rewritten, began, aged>>
    BY <2>1 DEF DropPartition
  <2>3. del.store # "redis" /\ IsDelete(del) /\ PartitionsOK(del, parts, rewritten)
    BY <2>2 DEF DeleteInv, DeleteOK, DaysOK
  <2>4. CASE ~ok
    <3>1. del' = Null /\ parts' = parts
      BY <2>1, <2>4 DEF DropPartition, Fail
    <3> QED BY <2>2, <3>1, FrameStep
  <2>5. CASE ok
    <3> DEFINE c == IF del.todo = {k} THEN "reply" ELSE "drop"
    <3>1. parts' = parts \ {k} /\ del' = [del EXCEPT !.todo = @ \ {k}, !.pc = c]
      BY <2>1, <2>5 DEF DropPartition
    <3>2. del' = D(c, del.todo \ {k})
      BY <2>3, <3>1 DEF IsDelete, Delete
    <3>3. /\ IsDelete(del') /\ del'.store = del.store /\ del'.pc = c
          /\ del'.todo = del.todo \ {k} /\ del'.keys = del.keys
      BY <3>2, DeleteFields, SMTT(30)
    <3>4. (del.keys \ del.todo) \cap parts \subseteq rewritten
      BY <2>2, <2>3 DEF PartitionsOK
    <3>5. (del'.keys \ del'.todo) \cap parts' \subseteq rewritten
      BY <3>1, <3>3, <3>4
    <3>6. c = "reply" => del'.todo = {}
      BY <3>3
    <3>7. PartitionsOK(del', parts', rewritten')
      BY <2>2, <3>3, <3>5, <3>6 DEF PartitionsOK
    <3>8. StoresInv'
      BY <2>2 DEF DeleteInv, StoresInv
    <3> QED BY <2>3, <3>3, <3>7, <3>8 DEF DeleteInv, DeleteOK
  <2> QED BY <2>4, <2>5
<1> QED BY <1>1, <1>2

\* deleteEndedDays.
LEMMA DaysStep ==
  ASSUME DeleteInv,
         \/ \E ok \in BOOLEAN : IndexRead(ok)
         \/ \E p \in Procs, ran \in BOOLEAN, ok \in BOOLEAN : Unlink(p, ran, ok)
         \/ \E ran \in BOOLEAN, ok \in BOOLEAN : ZRem(ran, ok)
         \/ Forget
  PROVE DeleteInv'
<1> DEFINE D(c, t, u, a) == Delete(del.store, del.keys, c, t, u, a)
<1>1. CASE \E ok \in BOOLEAN : IndexRead(ok)
  <2> DEFINE c == IF Doomed = {} THEN "forget" ELSE "unlink"
  <2>1. /\ del # Null /\ del.store = "redis" /\ UNCHANGED <<index, hash, alive, parts, began, aged>>
        /\ \/ del' = [del EXCEPT !.pc = c, !.todo = Doomed, !.asked = Doomed] /\ rewritten' = rewritten \ Doomed
           \/ del' = Null /\ rewritten' = rewritten
    BY <1>1 DEF IndexRead, Fail, stores
  <2>2. CASE del' = Null /\ rewritten' = rewritten
    BY <2>1, <2>2, FrameStep
  <2>3. CASE del' = [del EXCEPT !.pc = c, !.todo = Doomed, !.asked = Doomed] /\ rewritten' = rewritten \ Doomed
    <3>1. del' = D(c, Doomed, del.chunk, Doomed)
      BY <2>1, <2>3 DEF DeleteInv, DeleteOK, IsDelete, Delete
    <3>2. /\ IsDelete(del') /\ del'.store = "redis" /\ del'.pc = c
          /\ del'.todo = Doomed /\ del'.asked = Doomed /\ del'.keys = del.keys
      BY <2>1, <3>1, DeleteFields, SMTT(30)
    <3>3. Days(BrowserTz, Doomed) \subseteq del.keys /\ Doomed \cap alive \subseteq began
      BY DEF Days, Doomed, DeleteInv, StoresInv
    <3>4. DaysOK(del', index', hash', alive', rewritten', began')
      BY <2>1, <3>2, <3>3 DEF DaysOK
    <3>5. StoresInv'
      <4>1. Doomed \subseteq index BY DEF Doomed
      <4> QED BY <2>1, <2>3, <4>1 DEF DeleteInv, StoresInv
    <3> QED BY <3>2, <3>4, <3>5 DEF DeleteInv, DeleteOK
  <2> QED BY <2>1, <2>2, <2>3
<1>2. CASE \E p \in Procs, ran \in BOOLEAN, ok \in BOOLEAN : Unlink(p, ran, ok)
  <2>1. PICK p \in Procs, ran \in BOOLEAN, ok \in BOOLEAN : Unlink(p, ran, ok)
    BY <1>2
  <2>2. /\ del # Null /\ del.pc = "unlink" /\ p \in del.todo
        /\ hash' \subseteq hash
        /\ ok => hash' = hash \ {p} /\ del' = [del EXCEPT !.pc = "zrem", !.chunk = {p}]
        /\ ~ok => del' = Null
        /\ UNCHANGED <<index, alive, parts, rewritten, began, aged>>
    BY <2>1 DEF Unlink, Fail
  <2>3. del.store = "redis" /\ IsDelete(del) /\ DaysOK(del, index, hash, alive, rewritten, began)
    BY <2>2 DEF DeleteInv, DeleteOK, PartitionsOK
  <2>4. StoresInv'
    BY <2>2 DEF DeleteInv, StoresInv
  <2>5. CASE ~ok
    BY <2>2, <2>4, <2>5 DEF DeleteInv, DeleteOK
  <2>6. CASE ok
    <3>1. del' = D("zrem", del.todo, {p}, del.asked)
      BY <2>2, <2>3, <2>6 DEF IsDelete, Delete
    <3>2. /\ IsDelete(del') /\ del'.store = "redis" /\ del'.pc = "zrem" /\ del'.chunk = {p}
          /\ del'.todo = del.todo /\ del'.asked = del.asked /\ del'.keys = del.keys
      BY <2>3, <3>1, DeleteFields, SMTT(30)
    <3>3. DaysOK(del', index', hash', alive', rewritten', began')
      BY <2>2, <2>3, <2>6, <3>2 DEF DaysOK
    <3> QED BY <2>4, <3>2, <3>3 DEF DeleteInv, DeleteOK
  <2> QED BY <2>5, <2>6
<1>3. CASE \E ran \in BOOLEAN, ok \in BOOLEAN : ZRem(ran, ok)
  <2> DEFINE c == IF del.todo = del.chunk THEN "forget" ELSE "unlink"
  <2>1. PICK ran \in BOOLEAN, ok \in BOOLEAN : ZRem(ran, ok)
    BY <1>3
  <2>2. /\ del # Null /\ del.pc = "zrem"
        /\ index \ del.chunk \subseteq index' /\ index' \subseteq index
        /\ ok => index' = index \ del.chunk /\ del' = [del EXCEPT !.todo = @ \ del.chunk, !.pc = c]
        /\ ~ok => del' = Null
        /\ UNCHANGED <<hash, alive, parts, rewritten, began, aged>>
    BY <2>1 DEF ZRem, Fail
  <2>3. del.store = "redis" /\ IsDelete(del) /\ DaysOK(del, index, hash, alive, rewritten, began)
    BY <2>2 DEF DeleteInv, DeleteOK, PartitionsOK
  <2>4. del.chunk \cap hash \subseteq rewritten /\ (del.asked \ del.todo) \cap (index \cup hash) \subseteq rewritten
    BY <2>2, <2>3 DEF DaysOK
  <2>5. StoresInv'
    BY <2>2, <2>4 DEF DeleteInv, StoresInv
  <2>6. CASE ~ok
    BY <2>2, <2>5, <2>6 DEF DeleteInv, DeleteOK
  <2>7. CASE ok
    <3>1. del' = D(c, del.todo \ del.chunk, del.chunk, del.asked)
      BY <2>2, <2>3, <2>7 DEF IsDelete, Delete
    <3>2. /\ IsDelete(del') /\ del'.store = "redis" /\ del'.pc = c /\ del'.chunk = del.chunk
          /\ del'.todo = del.todo \ del.chunk /\ del'.asked = del.asked /\ del'.keys = del.keys
      BY <2>3, <3>1, DeleteFields, SMTT(30)
    <3>3. (del'.asked \ del'.todo) \cap (index' \cup hash') \subseteq rewritten'
      BY <2>2, <2>4, <2>7, <3>2
    <3>4. c \in {"forget", "unlink"} /\ (c = "forget" => del'.todo = {})
      BY <3>2
    <3>5. DaysOK(del', index', hash', alive', rewritten', began')
      BY <2>2, <2>3, <3>2, <3>3, <3>4 DEF DaysOK
    <3> QED BY <2>5, <3>2, <3>5 DEF DeleteInv, DeleteOK
  <2> QED BY <2>6, <2>7
<1>4. CASE Forget
  <2>1. /\ del # Null /\ del.pc = "forget" /\ del' = [del EXCEPT !.pc = "reply"]
        /\ UNCHANGED <<index, hash, alive, parts, rewritten, began, aged>>
    BY <1>4 DEF Forget, stores
  <2>2. del.store = "redis" /\ IsDelete(del) /\ DaysOK(del, index, hash, alive, rewritten, began)
    BY <2>1 DEF DeleteInv, DeleteOK, PartitionsOK
  <2>3. del' = D("reply", del.todo, del.chunk, del.asked)
    BY <2>1, <2>2 DEF IsDelete, Delete
  <2>4. /\ IsDelete(del') /\ del'.store = "redis" /\ del'.pc = "reply"
        /\ del'.todo = del.todo /\ del'.asked = del.asked /\ del'.keys = del.keys
    BY <2>2, <2>3, DeleteFields, SMTT(30)
  <2>5. DaysOK(del', index', hash', alive', rewritten', began')
    BY <2>1, <2>2, <2>4 DEF DaysOK
  <2>6. StoresInv'
    BY <2>1 DEF DeleteInv, StoresInv
  <2> QED BY <2>4, <2>5, <2>6 DEF DeleteInv, DeleteOK
<1> QED BY <1>1, <1>2, <1>3, <1>4

\* The list, the table and the dialog: they leave the stores and the delete
\* alone, and the answer ends the delete.
LEMMA PageStep ==
  ASSUME \/ StorageClock \/ Refresh \/ Cancel \/ Reply
         \/ \E tz \in Tzs : OtherFetch(tz)
         \/ \E s \in scans : ScanIndex(s) \/ \E ok \in BOOLEAN : ScanDone(s, ok)
         \/ \E s \in Stores : ToggleAll(s) \/ \E k \in RowsOf(s) : Toggle(s, k)
         \/ \E s \in Stores : \E keys \in {selected[s]} \cup {{k} : k \in RowsOf(s)} : Ask(s, keys)
  PROVE UNCHANGED <<index, hash, alive, parts, rewritten, began, aged>> /\ (del' = del \/ del' = Null)
  BY DEF StorageClock, Refresh, Cancel, Reply, OtherFetch, ScanIndex, ScanDone, ToggleAll, Toggle, Ask,
         stores, server

\* Every step keeps the invariant.
LEMMA DeleteInvStep == DeleteInv /\ [StorageNext /\ UNCHANGED route]_<<route, storageVars>> => DeleteInv'
<1> SUFFICES ASSUME DeleteInv, [StorageNext /\ UNCHANGED route]_<<route, storageVars>> PROVE DeleteInv'
  OBVIOUS
<1>1. CASE UNCHANGED <<route, storageVars>>
  <2>1. UNCHANGED <<index, hash, alive, parts, rewritten, began, aged>> /\ del' = del
    BY <1>1 DEF storageVars, stores, server
  <2> QED BY <2>1, FrameStep
<1>2. CASE StorageNext
  <2>1. CASE \E right \in BOOLEAN : Submit(right)
    BY <2>1, SubmitStep
  <2>0. CASE \E p \in Procs, over \in BOOLEAN : CollectorWrites(p, over)
    BY <2>0, CollectorStep
  <2>2. CASE (\E p \in Procs, b \in BOOLEAN : Ages(p, b)) \/ (\E k \in Parts : InsertRows(k) \/ PartitionExpires(k))
    BY <2>2, WriteStep
  <2>3. CASE DropRead \/ \E k \in Parts, ok \in BOOLEAN : DropPartition(k, ok)
    BY <2>3, DropStep
  <2>4. CASE \/ \E ok \in BOOLEAN : IndexRead(ok)
             \/ \E p \in Procs, ran \in BOOLEAN, ok \in BOOLEAN : Unlink(p, ran, ok)
             \/ \E ran \in BOOLEAN, ok \in BOOLEAN : ZRem(ran, ok)
             \/ Forget
    BY <2>4, DaysStep
  <2>5. CASE \/ StorageClock \/ Refresh \/ Cancel \/ Reply
             \/ \E tz \in Tzs : OtherFetch(tz)
             \/ \E s \in scans : ScanIndex(s) \/ \E ok \in BOOLEAN : ScanDone(s, ok)
             \/ \E s \in Stores : ToggleAll(s) \/ \E k \in RowsOf(s) : Toggle(s, k)
             \/ \E s \in Stores : \E keys \in {selected[s]} \cup {{k} : k \in RowsOf(s)} : Ask(s, keys)
    BY <2>5, PageStep, FrameStep
  <2> QED BY <1>2, <2>0, <2>1, <2>2, <2>3, <2>4, <2>5 DEF StorageNext
<1> QED BY <1>1, <1>2

-----------------------------------------------------------------------------

\* Deleting from the Storage page is exact: DeleteExact holds of the page in
\* every interleaving with the collector, processes that begin again, expiry
\* and other dashboards, wherever the delete fails.
THEOREM Exact == StorageSpec => []DeleteExact
<1>1. DeleteInv => DeleteExact
  <2> SUFFICES ASSUME DeleteInv, del # Null
               PROVE IF del.store = "redis"
                     THEN /\ Days(BrowserTz, del.asked) \subseteq del.keys
                          /\ del.asked \cap alive \subseteq began
                          /\ del.pc = "reply" => del.asked \cap (index \cup hash) \subseteq rewritten
                     ELSE del.pc = "reply" => del.keys \cap parts \subseteq rewritten
    BY DEF DeleteExact, DeleteInv, StoresInv
  <2>1. CASE del.store = "redis"
    <3>1. DaysOK(del, index, hash, alive, rewritten, began)
      BY <2>1 DEF DeleteInv, DeleteOK
    <3> QED BY <2>1, <3>1 DEF DaysOK
  <2>2. CASE del.store # "redis"
    <3>1. PartitionsOK(del, parts, rewritten)
      BY <2>2 DEF DeleteInv, DeleteOK
    <3> QED BY <2>2, <3>1 DEF PartitionsOK
  <2> QED BY <2>1, <2>2
<1> QED BY <1>1, DeleteInvInit, DeleteInvStep, PTL DEF StorageSpec

=============================================================================
