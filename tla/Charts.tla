------------------------------- MODULE Charts -------------------------------
(***************************************************************************)
(* What the History and Process pages draw from the answers of the history *)
(* API, as operators: client/history/*.ts, client/process/beaconStrip.ts   *)
(* and client/charts/buildSankey.ts.  Pixels, labels and colours of a      *)
(* theme are left out; a hue is the number of its slot.                    *)
(***************************************************************************)
EXTENDS History

CONSTANTS
  CLUSTER,          \* CLUSTER_PX, in ms
  TOP_PROCS, TOP_DESTS, MIN_SHARE,   \* buildSankey's options; per mille
  DEVIATION_FACTOR, DEVIATION_BUCKETS,
  PortOf,           \* the port of a destination
  DayStart,         \* DayStart[t]: the start of the local day of t
  LOOKBACK          \* how far lastOccurrence searches

Sorted(S, f) == Ordered(S, LAMBDA a, b : f[a] < f[b] \/ (f[a] = f[b] /\ a < b))

-----------------------------------------------------------------------------
(* Markers.                                                                 *)

\* The starts and the ends of an answer that lie in the range.
eventsAt(procs, order, at) == Memo([k \in DOMAIN order |-> [t |-> at[order[k]], proc |-> procs[order[k]]]])
eventsIn(procs, at, r) == LET in == {n \in DOMAIN at : Within(at[n], r)} IN eventsAt(procs, Sorted(in, at), at)
lifecycleEvents(procs, r, mode) ==
  [kind \in {"start", "end"} |->
     IF mode = "all" \/ (mode = "starts" /\ kind = "start")
     THEN eventsIn(procs, [n \in DOMAIN procs |-> IF kind = "start" THEN procs[n].first ELSE procs[n].ended], r) ELSE << >>]

\* Mutant: an event joins while it is near the one before it.
clusterMarkers_Previous(ts, gap) ==
  FoldLeft(LAMBDA groups, t :
             IF groups # << >> /\ t - Last(Last(groups)) < gap
             THEN [groups EXCEPT ![Len(groups)] = Append(@, t)]
             ELSE Append(groups, <<t>>), << >>, ts)

\* Groups events (oldest first): one joins while it is near the group's first.
clusterMarkers(ts, gap) ==
  FoldLeft(LAMBDA groups, t :
             IF groups # << >> /\ t - Head(Last(groups)) < gap
             THEN [groups EXCEPT ![Len(groups)] = Append(@, t)]
             ELSE Append(groups, <<t>>), << >>, ts)

clusterNewDests(dests, r, gap) ==
  LET order == Sorted({n \in DOMAIN dests : dests[n].first >= r.from /\ dests[n].first < r.to}, [n \in DOMAIN dests |-> dests[n].first])
  IN  clusterMarkers([k \in DOMAIN order |-> dests[order[k]].first], gap)

\* New destinations per local day: the programs with most, and the rest.
daysOf(r) == {DayStart[t] : t \in {u \in DOMAIN DayStart : u < r.to /\ u >= DayStart[r.from]}}
perDay(dests, days, S) == [d \in days |-> Cardinality({n \in S : DayStart[dests[n].first] = d})]
dailyOf(dests, days, of, kept) ==
  [x \in kept \cup (IF kept = DOMAIN of THEN {} ELSE {THROUGHPUT_OTHER}) |->
     perDay(dests, days, IF x = THROUGHPUT_OTHER THEN UNION {of[y] : y \in DOMAIN of \ kept} ELSE of[x])]
namesByCount(of) == Ranked([x \in DOMAIN of |-> Cardinality(of[x])], DOMAIN of)
dailyTop(dests, days, of, top) == dailyOf(dests, days, of, Range(Take(namesByCount(of), top)))
dailyCounts(dests, r, top) == dailyTop(dests, daysOf(r), Group(DOMAIN dests, LAMBDA n : dests[n].key[1]), top)

-----------------------------------------------------------------------------
(* The throughput chart and its overlays.                                   *)

stacksOf(dir) == CASE dir = "both" -> {"tx", "rx"} [] dir = "total" -> {"sum"} [] OTHER -> {dir}

\* The magnitude of a band, per drawn stack; and of the total line.
buildSeries(res, dir) ==
  LET value(k, stack, n) == CASE stack = "tx" -> res.tx[k][n] [] stack = "rx" -> res.rx[k][n]
                              [] stack = "sum" -> res.tx[k][n] + res.rx[k][n]
      band(stack) == [k \in Range(res.keys) |-> [n \in 1 .. bucketCount(res.r) |-> value(k, stack, n)]]
  IN  [bands |-> [stack \in stacksOf(dir) |-> band(stack)],
       totals |-> [stack \in stacksOf(dir) |->
                     Memo([n \in 1 .. bucketCount(res.r) |-> Sum(LAMBDA k : value(k, stack, n), Range(res.keys))])]]

BY_VALUES == <<"app", "name", "proto", "uid", "dest">>
DRILL_NEXT == [app |-> "name", name |-> "dest", dest |-> "name", proto |-> "app", uid |-> "name"]

\* Mutant: the other filters are forgotten.
drillDown_Alone(p, key) ==
  [by |-> DRILL_NEXT[p.by], filters |-> [d \in {p.by} |-> key]]

\* A double-click: the key's filter joins the others, the grouping moves on.
drillNext(by, filters, free) ==
  IF DRILL_NEXT[by] \notin DOMAIN filters THEN DRILL_NEXT[by] ELSE IF free = {} THEN by ELSE BY_VALUES[Min(free)]
drilled(by, filters) ==
  [by |-> drillNext(by, filters, {n \in DOMAIN BY_VALUES : BY_VALUES[n] \notin DOMAIN filters}), filters |-> filters]
drillDown(p, key) ==
  drilled(p.by, [d \in DOMAIN p.filters \cup {p.by} |-> IF d = p.by THEN key ELSE p.filters[d]])

\* The line of a stack: Missing where there is no data.
ghostValues(c, stack) ==
  IF stack # "sum" THEN c.rates[stack]
  ELSE [n \in DOMAIN c.rates.tx |-> IF c.rates.tx[n] = Missing THEN Missing ELSE c.rates.tx[n] + c.rates.rx[n]]

\* Its value in the bucket that holds t.
ghostAt(c, stack, t) ==
  LET n == (t - c.r.from) \div c.r.step + 1
  IN  IF t >= c.r.from /\ n \in 1 .. bucketCount(c.r) THEN ghostValues(c, stack)[n] ELSE Missing

\* The spans where the drawn stacks together are well above their ghosts.
aboveGhosts(cur, ghosts) == cur > 0 /\ Missing \notin Range(ghosts) /\ cur > DEVIATION_FACTOR * Sum(LAMBDA s : ghosts[s], DOMAIN ghosts)
runsOf(above, N) ==
  {<<a, b>> \in N \X N : a <= b /\ a .. b \subseteq above /\ a - 1 \notin above /\ b + 1 \notin above}
deviationRuns(totals, r, c) ==
  LET N == 1 .. bucketCount(r)
      above == {n \in N : aboveGhosts(Sum(LAMBDA s : totals[s][n], DOMAIN totals), [s \in DOMAIN totals |-> ghostAt(c, s, Start(r, n))])}
  IN  {run \in runsOf(above, N) : Start(r, run[2] + 1) - Start(r, run[1]) >= DEVIATION_BUCKETS * c.r.step}

\* The band between the mean and the p95, on top of the stack.
burstSeries(band) ==
  [n \in DOMAIN band |-> [lo |-> band[n].mean, hi |-> Larger(0, band[n].p95 - band[n].mean), max |-> band[n].max]]

\* Mutant: the first and the last point never get one.
dotIsolated_Inner(points) ==
  {n \in DOMAIN points : /\ points[n] # Missing
                         /\ \A m \in {n - 1, n + 1} : m \in DOMAIN points /\ points[m] = Missing}

\* sharePoints and dotIsolated: a point between two gaps gets a dot.
dotIsolated(points) ==
  LET v(n) == IF n \in DOMAIN points THEN points[n] ELSE Missing
  IN  {n \in DOMAIN points : points[n] # Missing /\ v(n - 1) = Missing /\ v(n + 1) = Missing}

\* Twice the median of the buckets with traffic.
middle2(s) == IF s = << >> THEN Missing ELSE s[(Len(s) + 1) \div 2] + s[Len(s) \div 2 + 1]
medianShare2(shares) == middle2(SortSeq(SelectSeq(shares, LAMBDA x : x # Missing), <))

bandSpanOk(r) == r.to - r.from <= BURST_SPAN

\* The calls panel reads the sums of the throughput answer.
fromThroughput(res, cs) ==
  [dir \in {"tx", "rx"} |-> Memo([n \in 1 .. bucketCount(res.r) |->
     [rate |-> Sum(LAMBDA k : IF dir = "tx" THEN res.tx[k][n] ELSE res.rx[k][n], Range(res.keys)), calls |-> cs[dir][n]]])]

\* Bytes per call, where there are both.
meanPerCall(rate, perSec) == IF rate > 0 /\ perSec > 0 THEN (125 * rate) \div perSec ELSE Missing

callsPoints(d) ==
  [dir \in {"tx", "rx"} |-> [n \in DOMAIN d[dir] |-> meanPerCall(d[dir][n].rate, d[dir][n].calls)]]

hasTraffic(d) == \E dir \in {"tx", "rx"} : \E n \in DOMAIN d[dir] : d[dir][n].rate > 0 \/ d[dir][n].calls > 0

-----------------------------------------------------------------------------
(* Bytes per call, heatmap, beacons.                                        *)

\* The bucket of the median call.
callsUpTo(row, b) == SumSeq([c \in 1 .. b + 1 |-> row.calls[c - 1]])
medianOf(row) ==
  LET total == totalCalls(row)
  IN  IF total = 0 THEN Missing ELSE Min({b \in 0 .. BPC_BUCKETS - 1 : row.calls[b] > 0 /\ 2 * callsUpTo(row, b) >= total})

\* The rows of the grid: every key summed, then the keys and the rest.
heatRows(d) ==
  IF Len(d.rows) > 1 \/ (d.rows # << >> /\ d.rows[1].key = THROUGHPUT_OTHER) THEN <<d.total>> \o d.rows ELSE d.rows

heatWindow(span, now) == [from |-> Floor(now, HOUR) - span, to |-> Floor(now, HOUR), step |-> Missing]

\* The latest whole hour of a cell that ends by then.
hourFrom(starts) == IF starts = {} THEN Missing ELSE [from |-> Max(starts) * QUARTER, to |-> Max(starts) * QUARTER + HOUR]
lastOccurrence(cell, before) ==
  hourFrom({q \in DOMAIN ZoneAt : ZoneAt[q].minute = 0 /\ ZoneAt[q].cell = cell
                                   /\ q * QUARTER <= before - HOUR /\ q * QUARTER > before - LOOKBACK})

\* The window of the Process page's calls: its traffic, padded, never past now.
padded(first, pad, to) == [from |-> Smaller(first - pad, to - MINUTE), to |-> to]
padTo(first, end, pad, now) == padded(first, pad, Smaller(now, end + pad))
padOf(span) == Max({SECOND, span \div 50, (MINUTE - span) \div 2})
aroundLife(first, end, now) == padTo(first, end, padOf(end - first), now)
processCallsRange(p, now) == aroundLife(p.first, lastSeen(p), now)

scopeRange(r, scope) ==
  LET most == IF scope = "name" THEN BEACON_SPAN ELSE BEACON_LIFE_SPAN
  IN  IF r.to - r.from > most THEN [r EXCEPT !.from = r.to - most] ELSE r

-----------------------------------------------------------------------------
(* The flow Sankey: process name -> app -> destination.  A node is <<layer, *)
(* key>>.                                                                   *)

PROC == 1
OTHER_PROCS == <<2, 0>>
APP == 3
UNKNOWN_PEER == <<4, 0>>
DEST == 5
NETWORK == 6
OTHER_DEST == 7

isUnknownPeer(dest) == PortOf[dest] = 0 /\ IpOf[dest] \in NO_PEER

nodeOf(dest, geo, byAsn) ==
  IF isUnknownPeer(dest) THEN UNKNOWN_PEER ELSE IF byAsn /\ geo # NoGeo THEN <<NETWORK, geo.asn>> ELSE <<DEST, dest>>
destNode(dest, byAsn) == nodeOf(dest, GeoOf(IpOf[dest]).geo, byAsn)

\* Mutant: one too many.
topKeys_OneMore(sums, n) == Range(Take(RankedTuples(sums, DOMAIN sums), n + 1))

\* The largest keys; ties by key.
topKeys(sums, n) == Range(Take(RankedTuples(sums, DOMAIN sums), n))

\* F maps the flows of a direction to their bytes; proc and dest to their nodes.
SumOver(F, S) == Sum(LAMBDA n : F[n], S)
cap(F, node, most, other) ==
  LET of == Group(DOMAIN F, LAMBDA n : node[n])
      kept == topKeys(Memo([x \in DOMAIN of |-> SumOver(F, of[x])]), most)
  IN  Memo([n \in DOMAIN F |-> IF node[n] \in kept THEN node[n] ELSE other[n]])
thin(F, S, total) == 1000 * SumOver(F, S) < MIN_SHARE * total
foldThin(F, app, node, kinds, other, total) ==
  Memo([n \in DOMAIN F |->
     IF node[n][1] \in kinds /\ thin(F, {m \in DOMAIN F : app[m] = app[n] /\ node[m] = node[n]}, total)
     THEN other[n] ELSE node[n]])
pathsOf(F, id, app, proc, dest, total) ==
  [total |-> total, paths |-> {[value |-> F[n], flow |-> n, id |-> id[n], app |-> app[n], proc |-> proc[n], dest |-> dest[n]] : n \in DOMAIN F}]
folded(F, id, app, proc, dest, rest, total) ==
  pathsOf(F, id, app, foldThin(F, app, cap(F, proc, TOP_PROCS, rest.proc), {PROC}, rest.proc, total),
          foldThin(F, app, cap(F, dest, TOP_DESTS, rest.dest), {DEST, NETWORK}, rest.dest, total), total)
flowBytes(f, dir) == (IF dir # "rx" THEN f.tx ELSE 0) + (IF dir # "tx" THEN f.rx ELSE 0)

\* An app seen over both transports is a node per transport.
appLabel(fs, N, f) ==
  IF \E n \in N : fs[n].app = f.app /\ fs[n].proto # f.proto THEN <<f.app, f.proto>> ELSE <<f.app, 0>>
Paths(fs, dir, byAsn) ==
  LET N == {n \in DOMAIN fs : flowBytes(fs[n], dir) > 0}
      label == Memo([n \in N |-> appLabel(fs, N, fs[n])])
  IN  folded(Memo([n \in N |-> flowBytes(fs[n], dir)]), [n \in N |-> fs[n].id], [n \in N |-> <<APP>> \o label[n]],
             [n \in N |-> <<PROC, fs[n].name>>], Memo([n \in N |-> destNode(fs[n].dest, byAsn)]),
             [proc |-> [n \in N |-> OTHER_PROCS], dest |-> [n \in N |-> <<OTHER_DEST>> \o label[n]]],
             Sum(LAMBDA n : flowBytes(fs[n], dir), N))

\* S holds the paths through a node or a link.
through(S) == Sum(LAMBDA p : p.value, S)
busiestId(S) ==
  LET by(id) == through({p \in S : p.id = id})
  IN  Min({id \in {p.id : p \in S} : \A q \in S : by(q.id) <= by(id)})
nodeRow(x, S) == [node |-> x, value |-> through(S), target |-> IF x[1] # PROC THEN Missing ELSE busiestId(S)]
diagram(total, P) ==
  [total |-> total,
   nodes |-> {nodeRow(x, {p \in P : x \in {p.proc, p.app, p.dest}}) : x \in UNION {{p.proc, p.app, p.dest} : p \in P}},
   links |-> {[source |-> l[1], target |-> l[2], value |-> through({p \in P : l \in {<<p.proc, p.app>>, <<p.app, p.dest>>}})] :
                l \in UNION {{<<p.proc, p.app>>, <<p.app, p.dest>>} : p \in P}}]
drawn(g) == diagram(g.total, g.paths)
buildSankey(fs, dir, byAsn) == drawn(Paths(fs, dir, byAsn))

-----------------------------------------------------------------------------
(* Properties.                                                              *)

Layer(g, kinds) == {n \in g.nodes : n.node[1] \in kinds}
Balanced(g, S, dir, others) ==
  /\ g.total = Bytes(dir, S)
  /\ \A kinds \in {{PROC, OTHER_PROCS[1]}, {APP}, {UNKNOWN_PEER[1], DEST, NETWORK, OTHER_DEST}} : through(Layer(g, kinds)) = g.total
  /\ \A a \in Layer(g, {APP}) : /\ through({l \in g.links : l.target = a.node}) = a.value
                                /\ through({l \in g.links : l.source = a.node}) = a.value
  /\ Cardinality(Layer(g, {PROC})) <= TOP_PROCS /\ Cardinality(Layer(g, {DEST, NETWORK})) <= TOP_DESTS
  /\ \A l \in g.links : 1000 * l.value < MIN_SHARE * g.total => {l.source[1], l.target[1]} \cap others # {}
  /\ \A n \in Layer(g, {PROC}) : \E i \in S : Rows[i].id = n.target /\ Rows[i].name = n.node[2]

\* The flow diagram neither loses nor invents traffic: every layer adds up to
\* the total of the flows, what enters an app leaves it, the caps hold, no
\* thin link leads to a node of its own, and a process node opens an instance
\* that is behind it (buildSankey.ts:103-108).
SankeyBalances ==
  On("history") /\ half = Missing => \A r \in Asked : \A fs \in {flows(r, << >>, AllRows).flows} :
    \A byAsn \in BOOLEAN, dir \in {"both", "rx"} :
      Balanced(buildSankey(fs, dir, byAsn), Near(r, << >>), dir, {OTHER_PROCS[1], UNKNOWN_PEER[1], OTHER_DEST})

SameSeries(total, tx, rx, d) == \A n \in DOMAIN total : Close(total[n], tx[n] + rx[n], d)
DrilledBand(t, k, t2) == SameSeries(buildSeries(t2, "total").totals["sum"], t.tx[k], t.rx[k], Len(t2.keys) + 1)

\* A double-click on a band opens a chart of that band: the same bytes in the
\* same buckets, up to rounding, whatever was filtered before
\* (throughputSeries.ts:48-52).
DrillShowsBand ==
  On("history") /\ half = Missing => \A r \in Asked, f \in Filterings, by \in {"proto", "uid", "dest"} :
    \A t \in {throughput(r, by, "both", 2, f)} : \A k \in Range(t.keys) \ {THROUGHPUT_OTHER} :
      \A p \in {drillDown([by |-> by, filters |-> f], k)} :
        /\ by \notin DOMAIN f => p.by # by
        /\ DrilledBand(t, k, throughput(r, p.by, "both", AllRows, p.filters))

Narrow(groups) ==
  /\ \A n \in DOMAIN groups : Last(groups[n]) - Head(groups[n]) < CLUSTER
  /\ \A n \in 2 .. Len(groups) : Head(groups[n]) - Head(groups[n - 1]) >= CLUSTER
Grouped(times, groups) == FlattenSeq(groups) = times /\ Narrow(groups)
Marked(e, p) == \E m \in DOMAIN e : e[m].proc = toLifecycleProc(p)
ProcessMarkers(r, events, bars) ==
  /\ \A e \in Range(events) : \A ts \in {[n \in DOMAIN e |-> e[n].t]} : Grouped(ts, clusterMarkers(ts, CLUSTER))
  /\ \A p \in Latest(processes) :
       /\ Marked(events["start"], p) <=> Within(p.first, r)
       /\ Marked(events["end"], p) <=> Within(p.ended, r) /\ p.first < r.to
       /\ (\E e \in Range(events) : Marked(e, p)) /\ (p.ended # Missing => p.ended >= r.from) =>
            \E b \in Range(bars) : b.id = p.id /\ b.ended = p.ended
DestMarkers(dests, from, track, days) ==
  /\ Narrow(track)
  /\ Len(FlattenSeq(track)) = Cardinality({n \in DOMAIN dests : dests[n].first >= from})
  /\ Sum(LAMBDA x : Sum(LAMBDA d : days[x][d], DOMAIN days[x]), DOMAIN days) = Len(dests)

\* Every process that started in the range has a start marker, and every one that
\* ended in it an end marker, unless its first I/O was counted only after the
\* range (lifecycle.ts:38).  They are in one group each, none of which is wider
\* than the limit, and the process of a marker has a bar in the list of
\* lifetimes unless it had exited before the range (lifetimes.ts:47).  Every new
\* destination is counted in one day and drawn at most once
\* (clusterMarkers.ts:56-60, newDests.ts:41-45).
MarkersComplete ==
  On("history") /\ half = Missing => \A r \in Asked :
    /\ \A procs \in {lifecycle(r, Missing, Missing, AllRows).procs} :
         ProcessMarkers(r, lifecycleEvents(procs, r, "all"), lifetimes(r, Missing, Missing, AllRows).bars)
    /\ \A dests \in {newDests(r, [ports |-> TRUE, loopback |-> TRUE, warmup |-> TRUE, names |-> Missing], AllRows).dests} :
         DestMarkers(dests, r.from, clusterNewDests(dests, r, CLUSTER), dailyCounts(dests, r, 1))

GhostShows(c, then) ==
  \A b \in 1 .. bucketCount(c.r) : \A ghost \in {ghostAt(c, "sum", Start(c.r, b))} :
    ghost # Missing /\ Start(c.r, b) >= c.since => Close(ghost, kbps(then[b].total, coveredSeconds(c.r, b)), 1)
RunsApart(runs, r, S) ==
  /\ \A x, y \in runs : x # y => x[2] < y[1] - 1 \/ y[2] < x[1] - 1
  /\ \A x \in runs : Bytes("both", {i \in S : Time(r, i) \in Start(r, x[1]) .. Start(r, x[2] + 1) - 1}) > 0
BandOnTop(band, u, r) ==
  \A n \in DOMAIN band : band[n].lo = kbps(u[n].total, coveredSeconds(r, n)) /\ (band[n].hi > 0 => band[n].lo + band[n].hi <= band[n].max)
SharesShown(shares, busy, dots, mid) ==
  /\ \A n \in busy : n \in dots \/ n - 1 \in busy \/ n + 1 \in busy
  /\ busy # {} => /\ 2 * Cardinality({n \in busy : 2 * shares[n] <= mid}) >= Cardinality(busy)
                  /\ 2 * Cardinality({n \in busy : 2 * shares[n] >= mid}) >= Cardinality(busy)
CallsShown(panel, perCall, busy) ==
  /\ \A n \in busy : \E dir \in {"tx", "rx"} : perCall[dir][n] # Missing
  /\ hasTraffic(panel) <=> busy # {}
Overlays(r, f, t, u, c, shares, busy) ==
  /\ c # Missing => /\ r.table = "flows_1m" => GhostShows(c, unknown([r EXCEPT !.from = @ - OFFSET, !.to = @ - OFFSET], f))
                    /\ RunsApart(deviationRuns(buildSeries(t, "both").totals, t.r, c), t.r, From(t.r, f))
  /\ \A answer \in {burst(r, "both", f)} : /\ bandSpanOk(r) => answer # Missing
                                           /\ r.table = "flows" => BandOnTop(burstSeries(answer), u, t.r)
  /\ SharesShown(shares, busy, dotIsolated(shares), medianShare2(shares))
  /\ \A panel \in {fromThroughput(t, calls(r, f))} : CallsShown(panel, callsPoints(panel), busy)

\* The overlays describe the buckets that they are drawn over: the ghost is
\* what the chart of the earlier window shows, a shaded run is long enough and
\* ends where the excess does, the burst band starts at the stack's top, and a
\* bucket with traffic is never invisible (ghost.ts:98-104, burst.ts:28-34).
OverlaysAgree ==
  On("history") /\ half = Missing => \A r \in Asked, f \in Filterings : \A u \in {unknown(r, f)} :
    Overlays(r, f, throughput(r, "app", "both", 1, f), u, compare(r, OFFSET, f),
             [n \in DOMAIN u |-> u[n].share], {n \in DOMAIN u : u[n].share # Missing})

\* The local hours of a cell that overlap a range, by their dates.
HoursIn(c, from, to) == {Zone(t).date : t \in {u \in from .. to - 1 : Zone(u).cell = c}}
CellsWhole(grid, S, from, to) ==
  /\ \A c \in CELLS : /\ grid[c].bytes > 0 => grid[c].samples > 0
                       /\ grid[c].active <= grid[c].samples
                       /\ grid[c].samples = Cardinality(HoursIn(c, from, to))
  /\ Sum(LAMBDA c : grid[c].bytes, CELLS) = Bytes("both", S)

\* The heatmap puts all its bytes in cells that count an hour, a cell counts
\* each of its local hours once, a repeated or a cut one too, no cell is active
\* in more hours than it counts, and the hour that a click on a cell opens
\* lies wholly in that cell and in the past (ch/heatmap.ts:81-93,
\* heatmapCells.ts:84-99).
HeatmapWhole ==
  On("history") /\ half = Missing =>
    /\ \A c \in CELLS : \A opened \in {lastOccurrence(c, Now)} \ {Missing} :
         /\ opened.to <= Now
         /\ \A q \in DOMAIN ZoneAt : q * QUARTER \in opened.from .. opened.to - 1 => ZoneAt[q].cell = c
    /\ \A req \in Requests \cup {heatWindow(span, Now) : span \in {HOUR, HEAT_SPAN}} \cup {[from |-> a, to |-> Now] : a \in Cuts},
          f \in Filterings :
         \A r \in {parseHeatRange(req, Now)} :
           /\ req.to = Floor(Now, HOUR) => r # Missing
           /\ r # Missing /\ Near(r, f) # {} => 
             CellsWhole(heatmap(r, "both", FALSE, f)[1].cells, Near(r, f), Larger(r.from, Minute(Min(rolled))), r.to)

WindowsHold(mine, a, b) == \A i \in mine : \A r \in {a, b} : Rows[i].ts >= r.from /\ Rows[i].ts < r.to
GapsFit(dots, gaps) == SumSeq([n \in DOMAIN gaps |-> gaps[n].gap]) <= Last(dots).t - dots[1].t
StripsWhole(strip, named, mine, life) ==
  /\ ~strip.truncated => Sum(LAMBDA d : d.bytes, Range(strip.dests)) >= Bytes("both", {i \in mine : Rows[i].ts >= strip.from})
  /\ \A d \in Range(strip.dests) \cup Range(named.dests) :
       /\ SumSeq([n \in DOMAIN d.dots |-> d.dots[n].b]) = d.bytes
       /\ ~d.binned => GapsFit(d.dots, SelectSeq(d.dots, LAMBDA x : x.gap # Missing))
  /\ Sum(LAMBDA d : Len(d.dots), Range(strip.dests)) <= Larger(BEACON_POINT_BUDGET, BEACON_MIN_POINTS * BEACON_DEST_LIMIT)
  /\ scopeRange(life, "name").from = named.from /\ scopeRange(life, "id").from = strip.from
MedianSplits(row, median, all) == all > 0 => 2 * callsUpTo(row, median) >= all /\ 2 * callsUpTo(row, median - 1) <= all
HistsAdd(hist, rows) ==
  /\ MedianSplits(hist.total, medianOf(hist.total), totalCalls(hist.total))
  /\ Len(rows) > 1 => \A b \in 0 .. BPC_BUCKETS - 1 : 2 * hist.total.calls[b] = SumSeq([n \in DOMAIN rows |-> rows[n].calls[b]])

\* The panels of a process show all that is known of it: every raw row up to
\* its recorded last I/O, and no later than a second after its exit, is in the
\* window of its calls and of its beacons, the calls panel is then not empty,
\* the dots of a destination carry its bytes and its gaps its active span, and
\* the strip's axis is the window that the server answered for
\* (callsSeries.ts:90-94, ch/beacons.ts:25-33, beaconStrip.ts:92).
ProcessPageWhole ==
  On("history") /\ half = Missing => \A p \in Latest(processes) :
    \A mine \in {{i \in raw : Rows[i].id = p.id /\ Rows[i].ts <= p.last /\ Rows[i].ts < lastSeen(p) + SECOND}},
       window1 \in {processCallsRange(p, Now)}, life \in {lifetimeRange(p, Now)} :
      /\ WindowsHold(mine, window1, life)
      /\ mine # {} =>
           hasTraffic(processCalls(parseRange([from |-> window1.from, to |-> window1.to, step |-> Missing], Now), p.id))
      /\ StripsWhole(processBeacons(p.id, Now), beacons(life, p.name), mine, life)
      /\ \A hist \in {bytesPerCall(life, "tx", "app", [id |-> p.id], 1)} : HistsAdd(hist, heatRows(hist))
=============================================================================
