------------------------------ MODULE Drawings ------------------------------
(***************************************************************************)
(* What the charts draw of the answers of the history API: their cells,    *)
(* bars, dots, rows and hues (history/heatmapCells.ts, bytesPerCall.ts,    *)
(* treemapData.ts, NewDestDaily.tsx, process/beaconStrip.ts,               *)
(* destinations/geoView.ts and the components that use them).              *)
(***************************************************************************)
EXTENDS Charts, ScatterPoints

CONSTANTS
  ROOT_UID, ROOT_SLOT,   \* root's hue is its own
  VISIBLE_ROWS,          \* rows of the beacon strip before it scrolls, three or more
  ASN_BARS,              \* networks with a bar
  MAP_CCS,               \* countries the map has an outline of
  MIN_DAYS               \* the least window of the daily counts, in ms

-----------------------------------------------------------------------------
(* Grids of cells.                                                          *)

\* The cells of a week that have samples, and the top of the colour scale.
heatData(grid) ==
  LET data == [c \in {x \in DOMAIN grid.cells : grid.cells[x].samples > 0} |->
                 kbps(grid.cells[c].bytes, HOUR * grid.cells[c].samples)]
  IN  [data |-> data, max |-> Max({1} \cup {data[c] : c \in DOMAIN data})]

\* Bytes per call: a cell per row and bucket with calls, <<bucket, row>>, and
\* the mark of each row's median.
heatCells(rows) ==
  UNION {{<<b, y>> : b \in {x \in 0 .. BPC_BUCKETS - 1 : rows[y].calls[x] > 0}} : y \in DOMAIN rows}
medianMarks(rows) == {<<medianOf(rows[y]), y>> : y \in {n \in DOMAIN rows : medianOf(rows[n]) # Missing}}

-----------------------------------------------------------------------------
(* The treemap.  A hue is a slot; -1 is the neutral one.                     *)

\* Root has its own hue, an unknown user none; the rest take the others in
\* order of their bytes.
userColors(uids) ==
  LET place(acc, u) ==
        LET n == IF acc.next = ROOT_SLOT THEN acc.next + 1 ELSE acc.next
        IN  IF u = ROOT_UID THEN [acc EXCEPT !.out = @ @@ (u :> ROOT_SLOT)]
            ELSE IF u = UNKNOWN_UID THEN [acc EXCEPT !.out = @ @@ (u :> -1)]
            ELSE [next |-> IF n < SLOTS THEN n + 1 ELSE n, out |-> acc.out @@ (u :> IF n < SLOTS THEN n ELSE -1)]
  IN  FoldLeft(place, [next |-> 0, out |-> NoSlots], uids).out

\* The nodes: users with their hue, processes (a folded one has no hue and no
\* children to open), apps.
userNode(u, slot) ==
  [uid |-> u.uid, value |-> u.value, slot |-> slot,
   procs |-> {[name |-> p.name, value |-> p.value, slot |-> IF p.folded > 0 THEN -1 ELSE slot, apps |-> p.children] : p \in u.children}]
colored(users, colors) == {userNode(u, colors[u.uid]) : u \in users}
seriesData(users) ==
  LET uids == {x.uid : x \in users}
  IN  colored(users, userColors(Ranked([u \in uids |-> (CHOOSE x \in users : x.uid = u).value], uids)))

-----------------------------------------------------------------------------
(* New destinations per day.                                                *)

dailyWindow(r) == [r EXCEPT !.from = Smaller(@, r.to - MIN_DAYS)]

\* Bars of the days of the window, each name in its hue.
barsOf(counts, colors) ==
  [x \in DOMAIN counts |-> [counts |-> counts[x], slot |-> IF x \in DOMAIN colors THEN colors[x] ELSE -1]]
dailyBars(dests, r, pageSlot) ==
  barsOf(dailyCounts(dests, r, SLOTS),
         colorSlots(Take(namesByCount(Group(DOMAIN dests, LAMBDA n : dests[n].key[1])), SLOTS), pageSlot))

-----------------------------------------------------------------------------
(* The beacon strip.                                                        *)

focusRows(dests, ip) == {n \in DOMAIN dests : IpOf[dests[n].dest[1]] = ip}

scrollStart(row, total, visible) == Larger(0, Smaller(row - 2, total - visible))

\* The rows of the window [first, last], from 0; a focused address is in it.
stripFrom(first, total) == [first |-> first, last |-> first + Smaller(total, VISIBLE_ROWS) - 1]
stripWindow(dests, ip) ==
  LET focus == focusRows(dests, ip)
  IN  stripFrom(IF focus # {} /\ Len(dests) > VISIBLE_ROWS THEN scrollStart(Min(focus) - 1, Len(dests), VISIBLE_ROWS) ELSE 0,
                Len(dests))

\* A row is named after its destination and application, and after its
\* protocol when another has the same name.
rowLabels(dests) ==
  LET base(n) == <<dests[n].dest, dests[n].app>>
      twice(n) == \E m \in DOMAIN dests \ {n} : base(m) = base(n)
  IN  [n \in DOMAIN dests |-> IF twice(n) THEN Append(base(n), dests[n].proto) ELSE base(n)]

\* Every dot: <<t, row, bytes, gap>>.
dotData(dests) ==
  UNION {{<<d.t, n - 1, d.b, d.gap>> : d \in Range(dests[n].dots)} : n \in DOMAIN dests}

-----------------------------------------------------------------------------
(* Networks and countries.                                                  *)

\* The largest networks, and the ends of the axis.
barRows(top, sum) ==
  [bars |-> [n \in DOMAIN top |-> [asn |-> top[n], tx |-> sum[top[n]].tx, rx |-> -sum[top[n]].rx]],
   max |-> Max({1} \cup UNION {{sum[top[n]].tx, sum[top[n]].rx} : n \in DOMAIN top})]
topBars(sum) == barRows(Take(Ranked([a \in DOMAIN sum |-> sum[a].bytes], DOMAIN sum), ASN_BARS), sum)
asnBars(asns) == topBars(Memo([a \in {x.key : x \in asns} |-> (CHOOSE x \in asns : x.key = a).sum]))

\* The countries with a colour, and the ones listed under the map.
mapData(countries) == {c \in countries : c.sum.bytes > 0}
offMap(countries) == {c \in countries : c.key \notin MAP_CCS}

\* The text that says that addresses are left out.
coverageText(geo) == geo.coverage.ips < geo.coverage.totalIps

-----------------------------------------------------------------------------
(* Panels above each other.                                                 *)

\* Tops and heights of panels with these weights.
gridTops(hs, top, gap) == Memo([n \in DOMAIN hs |-> [top |-> top + SumSeq([m \in 1 .. n - 1 |-> hs[m] + gap]), height |-> hs[n]]])
gridHeights(weights, plot, sum) == [n \in DOMAIN weights |-> (plot * weights[n]) \div sum]
gridLayout(weights, height, top, bottom, gap) ==
  gridTops(gridHeights(weights, Larger(0, height - top - bottom - gap * (Len(weights) - 1)), Larger(1, SumSeq(weights))), top, gap)

-----------------------------------------------------------------------------
(* Properties.                                                              *)

\* Panels above each other never overlap, and end above the bottom margin
\* when the chart is higher than its margins and gaps (smallMultiples.ts:47).
GridsFit ==
  \A ws \in [1 .. 3 -> 1 .. 3], height \in 0 .. 30 : \A g \in {gridLayout(ws, height, 3, 2, 4)} :
    /\ \A n \in 1 .. 2 : g[n].top + g[n].height < g[n + 1].top
    /\ height >= 13 => g[3].top + g[3].height <= height - 2

\* Rows of the beacon strip that differ have labels that differ: the axis, the
\* badges and a click on a label find their row by it (beaconStrip.ts:35-44,
\* BeaconStrip.tsx:82, 193).
LabelsDiffer ==
  LET D == [dest : {1, 2}, app : {1, 2}, proto : {1, 2}]
  IN  \A ds \in {s \in [1 .. 3 -> D] : \A n, m \in 1 .. 3 : s[n] = s[m] => n = m} :
        \A n, m \in 1 .. 3 : rowLabels(ds)[n] = rowLabels(ds)[m] => n = m

\* A strip that scrolls starts where the focused row is in its window, two rows
\* above it if it can, and never past the last window (beaconStrip.ts:22-25).
FocusInView ==
  \A visible \in 3 .. 5, total \in 4 .. 8 : \A row \in 0 .. total - 1 :
    visible < total => LET s == scrollStart(row, total, visible) IN s \in 0 .. total - visible /\ row \in s .. s + visible - 1

\* The slots that names may hold on the page when a chart is drawn.
PageSlots(names) ==
  {f \in [names -> -1 .. SLOTS - 1] : \A x, y \in names : f[x] = f[y] /\ f[x] >= 0 => x = y}

\* Names with a hue of their own in one chart have different hues, whatever
\* the page's other charts hold, and a name keeps the hue it has there.
HuesOwn(S, slot(_), pageSlot) ==
  /\ \A x, y \in S : slot(x) = slot(y) /\ slot(x) >= 0 => x = y
  /\ \A x \in S : pageSlot[x] >= 0 => slot(x) = pageSlot[x]
  /\ Cardinality(S) <= SLOTS => \A x \in S : slot(x) >= 0

SeriesWhole(points, s, held) ==
  /\ \A i \in DOMAIN points : Cardinality({x \in DOMAIN s : i \in s[x].at}) = 1
  /\ HuesOwn(DOMAIN s \ {OTHER_SERIES}, LAMBDA x : s[x].slot, held)
PointsWhole(points, extent) ==
  /\ \A held \in PageSlots({points[i].name : i \in DOMAIN points}) : SeriesWhole(points, scatterSeries(points, held), held)
  /\ \A i \in DOMAIN points : {clamp1(points[i].tx), clamp1(points[i].rx)} \subseteq extent.min .. extent.max
  /\ extent.min < extent.max
  /\ \A l \in refLines(extent) : {l[n] : n \in 1 .. 4} \subseteq extent.min .. extent.max
UsersWhole(nodes) ==
  /\ \A u, v \in nodes : u.slot = v.slot /\ u.slot >= 0 => u = v
  /\ \A u \in nodes : u.uid = ROOT_UID <=> u.slot = ROOT_SLOT
GridWhole(cells, h) ==
  /\ \A c \in DOMAIN h.data : h.data[c] <= h.max
  /\ \A c \in CELLS : cells[c].bytes > 0 => c \in DOMAIN h.data
GeoWhole(geo, bars) ==
  /\ \A n \in DOMAIN bars.bars : bars.bars[n].tx <= bars.max /\ bars.bars[n].rx >= -bars.max
  /\ \A c \in geo.countries : c.sum.bytes > 0 => c \in offMap(geo.countries) \/ (c.key \in MAP_CCS /\ c \in mapData(geo.countries))
  /\ geo.coverage.bytes < geo.coverage.total => coverageText(geo)
BarsWhole(dests, b, held) ==
  /\ HuesOwn(DOMAIN b \ {THROUGHPUT_OTHER}, LAMBDA x : b[x].slot, held)
  /\ Sum(LAMBDA x : Sum(LAMBDA d : b[x].counts[d], DOMAIN b[x].counts), DOMAIN b) = Len(dests)
DailyWhole(dests, win) ==
  \A held \in PageSlots({dests[n].key[1] : n \in DOMAIN dests}) : BarsWhole(dests, dailyBars(dests, win, held), held)

\* Every point, cell, bar and dot of an answer is drawn, once, where its axis
\* reaches, in a hue that tells its name from the others in the chart and
\* agrees with the page's; the heatmap has all its bytes in cells that count
\* an hour, and panels never overlap (ch/heatmap.ts:81-93, scatterPoints.ts:33-79,
\* NewDestDaily.tsx:50, treemapData.ts:21-39, heatmapCells.ts:40-54,
\* beaconStrip.ts:22-25, geoView.ts:70-107, WorldMap.tsx:46).
DrawnWhole ==
  /\ GridsFit /\ HeatmapWhole
  /\ On("history") /\ half = Missing /\ rolled # {} => \A r \in Asked, f \in Filterings :
       /\ \A points \in {scatter(r, "instance", "range", f, AllRows).points} : PointsWhole(points, axisExtent(points))
       /\ UsersWhole(seriesData(treemap(r, "both", f, 1, AllRows).users))
       /\ \A geo \in {geoAnswer(From(r, f), From(r, f))} : GeoWhole(geo, asnBars(geo.asns))
       /\ \A win \in {dailyWindow(r)} :
            DailyWhole(newDests(win, [ports |-> FALSE, loopback |-> TRUE, warmup |-> TRUE, names |-> Missing], AllRows).dests, win)
       /\ \A g \in Range(heatmap(parseHeatRange(heatWindow(HEAT_SPAN, Now), Now), "both", FALSE, f)) :
            GridWhole(g.cells, heatData(g))

RowsDrawn(strip, dots) ==
  /\ {d[2] : d \in dots} = 0 .. Len(strip) - 1
  /\ \A n, m \in DOMAIN strip : n < m /\ strip[m].stats.periodic => strip[n].stats.periodic
  /\ \A ip \in Range(IpOf) : \A w \in {stripWindow(strip, ip)} :
       /\ w.first >= 0 /\ w.last < Len(strip)
       /\ focusRows(strip, ip) # {} => Min(focusRows(strip, ip)) - 1 \in w.first .. w.last

\* On the Process page every row of the strip has its dots, the periodic
\* destinations come first (BeaconStrip.tsx:294), a focused address is in the
\* window of rows, and the median of bytes per call marks a drawn cell.
StripWhole ==
  /\ LabelsDiffer /\ FocusInView
  /\ On("history") /\ half = Missing => \A p \in Latest(processes) :
       /\ \A strip \in {processBeacons(p.id, Now).dests} : RowsDrawn(strip, dotData(strip))
       /\ \A rows \in {heatRows(bytesPerCall(lifetimeRange(p, Now), "tx", "app", [id |-> p.id], 1))} :
            medianMarks(rows) \subseteq heatCells(rows)

\* One page agrees with itself: what its panels show of a range adds up to the
\* header's total, the flow diagram balances, and the share of the traffic with a
\* known network is never above all of it, though two queries read apart.
AnswersAddUp == TotalsAgree /\ SankeyBalances /\ CoverageHonest

\* The throughput chart agrees with itself: its buckets hold every row of the
\* range, each overlay describes the buckets it is drawn over, and a double-click
\* on a band opens a chart of the same bytes.
SeriesAgree == BucketsAddUp /\ OverlaysAgree /\ DrillShowsBand

\* The Process page shows all that is known of a process, and draws all of it.
ProcessPanels == ProcessPageWhole /\ StripWhole

=============================================================================
