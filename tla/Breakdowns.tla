----------------------------- MODULE Breakdowns -----------------------------
(***************************************************************************)
(* The answers of the history API beside throughput: the burst band,       *)
(* process markers and lifetimes, scatter, heatmap, treemap, bytes per     *)
(* call and beacons (ch/*.ts, analysis/periodicity.ts and their routes).   *)
(***************************************************************************)
EXTENDS Queries, AsnTable

CONSTANTS
  INTERVAL,           \* the collector's tick
  ZoneAt,             \* ZoneAt[q]: the local [date, cell, minute] of the q-th quarter
  HEATMAP_SPLIT_TOP,
  CELLS,              \* cells (weekday, hour) of the heatmap
  BURST_SPAN, HEAT_SPAN, HEAT_MAX_SPAN,   \* of a burst request, of the heatmap
  BPC_BUCKETS, MIN_BURSTS, MAX_SPREAD,
  BEACON_SPAN, BEACON_LIFE_SPAN,          \* BEACON_MAX_SPAN_MS of a name, of an instance
  BEACON_DEST_LIMIT, BEACON_MIN_POINTS, BEACON_POINT_BUDGET,
  GeoTable            \* the parsed ASN table

-----------------------------------------------------------------------------
(* Burst band and one process's calls: always from raw flows.               *)

DescBy(f, keys) == [n \in DOMAIN keys |-> f[keys[n]]]
Desc(f) == DescBy(f, Ranked(f, DOMAIN f))

paddedStats(samples, ticks) ==
  LET i == Larger(ticks, Len(samples)) \div 20 + 1
  IN  [p95 |-> IF i <= Len(samples) THEN samples[i] ELSE 0, max |-> IF samples = << >> THEN 0 ELSE samples[1]]

\* The rows of each bucket; and of a bucket, the rate of each tick, all flows
\* summed.
burstQuery(r, filters) == bucketSeconds(r, From(r, filters))
tickRates(ticks, dir) == Memo([ts \in DOMAIN ticks |-> Nearest(8 * SECOND * Bytes(dir, ticks[ts]), INTERVAL)])

burstOf(S, stats, dir, ms) == [mean |-> kbps(Bytes(dir, S), ms), p95 |-> stats.p95, max |-> stats.max]
burstCell(S, dir, ms) ==
  burstOf(S, paddedStats(Desc(tickRates(Group(S, LAMBDA i : Rows[i].ts), dir)), Nearest(ms, INTERVAL)), dir, ms)
buildBurst(rows, r, dir) ==
  [n \in 1 .. bucketCount(r) |-> burstCell(Cell(rows, r, n), dir, coveredSeconds(r, n))]

burstSpanOk(r) == r.to - r.from <= BURST_SPAN

\* Refused over a long range, unless it is about one instance.
burst(r0, dir, filters) ==
  LET r == rawRange(r0) IN
  IF "id" \notin DOMAIN filters /\ ~burstSpanOk(r0) THEN Missing ELSE buildBurst(burstQuery(r, filters), r, dir)

processCallsQuery(r, id) == bucketSeconds(r, From(r, [id |-> id]))
buildProcessCalls(rows, r) ==
  [dir \in {"tx", "rx"} |-> [n \in 1 .. bucketCount(r) |->
     [rate |-> kbps(Bytes(dir, Cell(rows, r, n)), coveredSeconds(r, n)),
      calls |-> perSecond(Calls(dir, Cell(rows, r, n)), coveredSeconds(r, n))]]]
processCalls(r0, id) == LET r == rawRange(r0) IN buildProcessCalls(processCallsQuery(r, id), r)

-----------------------------------------------------------------------------
(* Processes.  argMax(_, version) over the rows that pass WHERE.            *)

Latest(S) == {p \in S : \A q \in S : q.id = p.id => q.version <= p.version}
OfNames(names, uid, S) ==
  {p \in S : (names = Missing \/ p.name \in names) /\ (uid = Missing \/ ProcOf[p.id].uid = uid)}
Within(t, r) == t # Missing /\ t >= r.from /\ t < r.to
By(S, ahead(_, _)) == Ordered(S, LAMBDA p, q : ahead(p, q) \/ (~ahead(q, p) /\ p.id < q.id))
Total2(p) == p.tx + p.rx

\* First I/O or end in the range, the largest first.
lifecycleQuery(r, names, uid, limit) ==
  Take(By({p \in Latest(OfNames(names, uid, {q \in processes : q.first < r.to})) :
             Within(p.first, r) \/ Within(p.ended, r)},
          LAMBDA p, q : Total2(p) > Total2(q)), limit)
toLifecycleProc(p) == [id |-> p.id, name |-> p.name, first |-> p.first, ended |-> p.ended, bytes |-> Total2(p)]
lifecycle(r, names, uid, limit) ==
  LET rows == lifecycleQuery(r, names, uid, limit + 1)
  IN  [procs |-> [n \in DOMAIN Take(rows, limit) |-> toLifecycleProc(rows[n])], truncated |-> Len(rows) > limit]

\* A lifetime that overlaps the range, the latest start first.
lifetimesQuery(r, names, uid, limit) ==
  Take(By({p \in Latest(OfNames(names, uid, {q \in processes : ProcOf[q.id].start < r.to})) :
             p.ended = Missing \/ p.ended >= r.from},
          LAMBDA p, q : ProcOf[p.id].start > ProcOf[q.id].start), limit)
toLifetimeBar(p) ==
  [id |-> p.id, name |-> p.name, start |-> ProcOf[p.id].start, first |-> Larger(ProcOf[p.id].start, p.first),
   last |-> p.last, ended |-> p.ended, tx |-> p.tx, rx |-> p.rx]
lifetimes(r, names, uid, limit) ==
  LET rows == lifetimesQuery(r, names, uid, limit + 1)
  IN  [bars |-> [n \in DOMAIN Take(rows, limit) |-> toLifetimeBar(rows[n])], truncated |-> Len(rows) > limit]

\* One row per instance: lifetime totals, or the bytes of the range.
lifetimeInstances(r, near, filters) ==
  {[id |-> p.id, name |-> p.name, tx |-> p.tx, rx |-> p.rx, start |-> ProcOf[p.id].start, ended |-> p.ended] :
     p \in {p \in Latest(processes) :
              /\ DOMAIN filters # {} => \E i \in near : Rows[i].id = p.id
              /\ ProcOf[p.id].start < r.to /\ (p.ended = Missing \/ p.ended >= r.from)
              /\ Total2(p) > 0}}
rangeInstance(id, S, known) ==
  [id |-> id, name |-> Rows[Min(S)].name, tx |-> Bytes("tx", S), rx |-> Bytes("rx", S),
   start |-> IF known = {} THEN Missing ELSE ProcOf[id].start,
   ended |-> IF known = {} THEN Missing ELSE (CHOOSE p \in known : TRUE).ended]
rangeInstances(of) ==
  {rangeInstance(id, of[id], {p \in Latest(processes) : p.id = id}) : id \in {x \in DOMAIN of : Bytes("both", of[x]) > 0}}
instances(r, basis, filters) ==
  IF basis = "lifetime" THEN lifetimeInstances(r, Near(r, filters), filters)
  ELSE rangeInstances(Group(Near(r, filters), LAMBDA i : Rows[i].id))

\* The instances, or their sums per name with the busiest one's id.
nameSums(x, S, starts, ends) ==
  [id |-> (CHOOSE p \in S : \A q \in S : Total2(q) <= Total2(p)).id, name |-> x,
   tx |-> Sum(LAMBDA p : p.tx, S), rx |-> Sum(LAMBDA p : p.rx, S),
   start |-> IF starts = {} THEN Missing ELSE Min(starts), ended |-> IF Missing \in ends THEN Missing ELSE Max(ends)]
byName(named) ==
  {nameSums(x, named[x], {p.start : p \in named[x]} \ {Missing}, {p.ended : p \in named[x]}) : x \in DOMAIN named}
scatterQuery(r, group, basis, filters, limit) ==
  Take(By(IF group = "instance" THEN instances(r, basis, filters)
          ELSE byName(Group(instances(r, basis, filters), LAMBDA p : p.name)),
          LAMBDA p, q : Total2(p) > Total2(q)), limit)
cutAt(rows, limit) == [points |-> Take(rows, limit), truncated |-> Len(rows) > limit]
scatter(r, group, basis, filters, limit) == cutAt(scatterQuery(r, group, basis, filters, limit + 1), limit)

-----------------------------------------------------------------------------
(* Heatmap: bytes per local cell, over the hours of the covered range.      *)

Zone(t) == ZoneAt[t \div QUARTER]

\* Two quarters are of one local hour: the key they are compared by has no
\* minutes, so that an hour the clock repeats is one.
SameHour(p, q) == ZoneAt[p].date = ZoneAt[q].date /\ ZoneAt[p].cell = ZoneAt[q].cell

\* Mutant: samples are counted from the first whole quarter.
sampleCounts_Whole(from, to) ==
  LET steps == {q \in DOMAIN ZoneAt : q * QUARTER >= from /\ q * QUARTER < to}
      counted == {q \in steps : q - 1 \in steps => ~SameHour(q - 1, q)}
  IN  [c \in CELLS |-> Cardinality({q \in counted : ZoneAt[q].cell = c})]

\* How many local hours of a cell overlap the range, in steps of a quarter.
sampleCounts(from, to) ==
  LET steps == {q \in DOMAIN ZoneAt : q >= from \div QUARTER /\ q * QUARTER < to}
      counted == {q \in steps : q - 1 \in steps => ~SameHour(q - 1, q)}
  IN  [c \in CELLS |-> Cardinality({q \in counted : ZoneAt[q].cell = c})]

\* parseHeatRange of a request: refused when it is too long.
parseHeatRange(q, now) ==
  LET to == IF q.to = Missing THEN now ELSE q.to
      from == IF q.from = Missing THEN to - HEAT_SPAN ELSE q.from
  IN  IF from >= to \/ to - from > HEAT_MAX_SPAN THEN Missing
      ELSE [from |-> from, to |-> to, table |-> "flows_1m", step |-> MINUTE]

\* The rows of the top apps, or all of them under one key.
topApps(of, dir) == [a \in Range(Take(LargestFirst(of, dir), HEATMAP_SPLIT_TOP)) |-> of[a]]
heatmapQuery(r, dir, split, filters) ==
  IF split THEN topApps(Group(Near(r, filters), LAMBDA i : Rows[i].app), dir)
  ELSE Group(Near(r, filters), LAMBDA i : THROUGHPUT_OTHER)

\* A grid per key, the largest first.
heatCell(S, dir, samples) ==
  [bytes |-> Bytes(dir, S), samples |-> samples, active |-> Cardinality({Zone(Floor(Rows[i].ts, MINUTE)).date : i \in S})]
heatGrid(key, S, dir, samples) ==
  [key |-> key,
   cells |-> Memo([c \in CELLS |-> heatCell({i \in S : Zone(Floor(Rows[i].ts, MINUTE)).cell = c}, dir, samples[c])])]
heatGrids(rows, keys, dir, samples) == [n \in DOMAIN keys |-> heatGrid(keys[n], rows[keys[n]], dir, samples)]
buildHeatmap(rows, dir, samples) ==
  heatGrids(rows, Ranked([k \in DOMAIN rows |-> Bytes(dir, rows[k])], DOMAIN rows), dir, samples)

\* Samples are counted in the part of the range that the rollup covers.
samplesFrom(r, first) == IF first < r.to THEN sampleCounts(first, r.to) ELSE [c \in CELLS |-> 0]
heatmap(r, dir, split, filters) ==
  buildHeatmap(heatmapQuery(r, dir, split, filters), dir,
               samplesFrom(r, IF rolled = {} THEN r.from ELSE Larger(r.from, Floor(Rows[Min(rolled)].ts, MINUTE))))

-----------------------------------------------------------------------------
(* Treemap: users, their processes, their apps; a user's small processes    *)
(* are folded.                                                              *)

\* Bytes per (uid, name, app), the largest rows.
treemapRows(of, all, dir) ==
  Memo([n \in DOMAIN all |-> [uid |-> all[n][1], name |-> all[n][2], app |-> all[n][3], bytes |-> Bytes(dir, of[all[n]])]])
treemapOf(of, dir, limit) == treemapRows(of, Take(LargestTuples(of, dir), limit), dir)
treemapQuery(r, dir, filters, limit) ==
  treemapOf(Group(From(r, filters), LAMBDA i : <<Uid(r, i), Rows[i].name, Rows[i].app>>), dir, limit)

\* S holds the rows of a node.
valueOf(S) == Sum(LAMBDA x : x.bytes, S)
appNodes(of) == {[name |-> a, value |-> valueOf(of[a])] : a \in DOMAIN of}
procNode(x, S, folded) ==
  [name |-> x, value |-> valueOf(S), children |-> appNodes(Group(S, LAMBDA row : row.app)), folded |-> folded]
foldNodes(of, kept, rest) ==
  {procNode(x, of[x], 0) : x \in kept}
    \cup {procNode(THROUGHPUT_OTHER, UNION {of[x] : x \in X}, Cardinality(X)) : X \in {rest} \ {{}}}
keepTop(of, procs, top) ==
  LET kept == Range(IF Len(procs) > top + 1 THEN Take(procs, top) ELSE procs) IN foldNodes(of, kept, DOMAIN of \ kept)
procNodes(of, top) == keepTop(of, Ranked(Memo([x \in DOMAIN of |-> valueOf(of[x])]), DOMAIN of), top)
userNodes(of, top) ==
  {[uid |-> u, value |-> valueOf(of[u]), children |-> procNodes(Group(of[u], LAMBDA row : row.name), top)] : u \in DOMAIN of}
buildTreemap(rows, top) == userNodes(Group(Range(rows), LAMBDA row : row.uid), top)

mapOf(rows, users, limit) ==
  [users |-> users, total |-> Sum(LAMBDA u : u.value, users), truncated |-> Len(rows) > limit]
cutMap(rows, top, limit) == mapOf(rows, buildTreemap(Take(rows, limit), top), limit)
treemap(r, dir, filters, top, limit) == cutMap(treemapQuery(r, dir, filters, limit + 1), top, limit)

-----------------------------------------------------------------------------
(* Bytes per call: each source row's mean, weighted by its calls.  A rollup *)
(* row is the sum of a minute's rows of one flow.                           *)

bucketOf(bytes, n) == Min({BPC_BUCKETS - 1} \cup {b \in 0 .. BPC_BUCKETS - 1 : bytes < n * 2 ^ (b + 1)})

\* Calls and bytes per (key, bucket).
sourceRows(r, S, by) ==
  IF r.table = "flows" THEN {{i} : i \in S}
  ELSE Range(Group(S, LAMBDA i : <<Time(r, i), Rows[i].id, Rows[i].proto, Rows[i].app, Rows[i].dest, Dim(r, i, by)>>))
callSums(of, dir) ==
  Memo([k \in DOMAIN of |-> [calls |-> Sum(LAMBDA T : Calls(dir, T), of[k]), bytes |-> Sum(LAMBDA T : Bytes(dir, T), of[k])]])
bytesPerCallQuery(r, dir, by, filters) ==
  callSums(Group({T \in sourceRows(r, From(r, filters), by) : Calls(dir, T) > 0},
                 LAMBDA T : <<Dim(r, Min(T), by), bucketOf(Bytes(dir, T), Calls(dir, T))>>), dir)

emptyRow(key) == [key |-> key, calls |-> [b \in 0 .. BPC_BUCKETS - 1 |-> 0], bytes |-> [b \in 0 .. BPC_BUCKETS - 1 |-> 0]]
addInto(into, row) ==
  [into EXCEPT !.calls = [b \in 0 .. BPC_BUCKETS - 1 |-> @[b] + row.calls[b]],
               !.bytes = [b \in 0 .. BPC_BUCKETS - 1 |-> @[b] + row.bytes[b]]]

\* A histogram per key, the top by calls, the rest folded, and the total.
histOf(rows, k) ==
  LET at(b, field) == IF <<k, b>> \in DOMAIN rows THEN rows[<<k, b>>][field] ELSE 0
  IN  [key |-> k, calls |-> [b \in 0 .. BPC_BUCKETS - 1 |-> at(b, "calls")], bytes |-> [b \in 0 .. BPC_BUCKETS - 1 |-> at(b, "bytes")]]
totalCalls(row) == SumSeq([b \in 1 .. BPC_BUCKETS |-> row.calls[b - 1]])
foldHists(all, rest, top) ==
  [total |-> FoldLeft(addInto, emptyRow(THROUGHPUT_OTHER), all), folded |-> Len(rest),
   rows |-> Take(all, top) \o (IF rest # << >> THEN <<FoldLeft(addInto, emptyRow(THROUGHPUT_OTHER), rest)>> ELSE << >>)]
topHists(all, top) == foldHists(all, Rest(all, top), top)
rankHists(of, top) == topHists(DescBy(of, Ranked(Memo([k \in DOMAIN of |-> totalCalls(of[k])]), DOMAIN of)), top)
buildBytesPerCall(rows, top) == rankHists(Memo([k \in {x[1] : x \in DOMAIN rows} |-> histOf(rows, k)]), top)

\* One instance is read from raw flows, whatever the range.
bytesPerCall(r0, dir, by, filters, top) ==
  LET r == IF "id" \in DOMAIN filters THEN [r0 EXCEPT !.table = "flows"] ELSE r0
  IN  buildBytesPerCall(bytesPerCallQuery(r, dir, by, filters), top)

-----------------------------------------------------------------------------
(* Beacons: active ticks per destination, merged into bursts.               *)

continues(gap) == 2 * gap <= 3 * INTERVAL
burstStarts(ts) == {n \in DOMAIN ts : n = 1 \/ ~continues(ts[n] - ts[n - 1])}
gapsFrom(ts, starts) ==
  [n \in DOMAIN ts |-> IF n \notin starts THEN 0 ELSE IF n = 1 THEN Missing ELSE ts[n] - ts[Max({m \in starts : m < n})]]
burstGaps(ts) == gapsFrom(ts, burstStarts(ts))

\* The spread is the gaps' cv squared, in ten thousandths; MAX_SPREAD is
\* that of MAX_CV.
periodStats(bursts, spread, sorted) ==
  [bursts |-> bursts, spread |-> spread,
   period2 |-> IF sorted = << >> THEN Missing ELSE sorted[(Len(sorted) + 1) \div 2] + sorted[Len(sorted) \div 2 + 1],
   periodic |-> spread # Missing /\ bursts >= MIN_BURSTS /\ spread < MAX_SPREAD]
spreadOf(gaps, sum) ==
  IF Len(gaps) < 2 THEN Missing
  ELSE Nearest(10000 * (Len(gaps) * SumSeq([m \in DOMAIN gaps |-> gaps[m] * gaps[m]]) - sum * sum), sum * sum)
statsOf(bursts, gaps) == periodStats(bursts, spreadOf(gaps, SumSeq(gaps)), SortSeq(gaps, <))
periodicity(ts) == statsOf(Cardinality(burstStarts(ts)), SelectSeq(burstGaps(ts), LAMBDA g : g # Missing /\ g # 0))

capSpan(r, most) == [r EXCEPT !.from = Larger(@, r.to - most)]

window(first, to) == [from |-> Smaller(first, to - SECOND), to |-> to, table |-> "flows", step |-> SECOND]
lastSeen(p) == Larger(p.first, IF p.ended = Missing THEN p.last ELSE p.ended)
\* Mutant: the window ends with the last I/O, which it excludes.
lifetimeRange_Ended(p, now) == window(p.first, Smaller(now, lastSeen(p)))

lifetimeRange(p, now) == window(p.first, Smaller(now, lastSeen(p) + SECOND))

binDots(dots, from, bin) ==
  LET of == Group(DOMAIN dots, LAMBDA n : (dots[n].t - from) \div bin)
      starts == Ordered({Min(of[b]) : b \in DOMAIN of}, <)
  IN  [k \in DOMAIN starts |-> [dots[starts[k]] EXCEPT !.b = Sum(LAMBDA m : dots[m].b, of[(dots[starts[k]].t - from) \div bin])]]

\* Active ticks per destination, the most active first: of one instance per
\* (dest, proto, app), of a name per dest.
beaconRow(dest, ticks) == [dest |-> dest, bytes |-> Memo([t \in DOMAIN ticks |-> Bytes("both", ticks[t])])]
beaconRows(of, all) == Memo([n \in DOMAIN all |-> beaconRow(all[n], Group(of[all[n]], LAMBDA i : Rows[i].ts))])
mostActive(of, limit) ==
  beaconRows(of, Take(RankedTuples([k \in DOMAIN of |-> Cardinality({Rows[i].ts : i \in of[k]})], DOMAIN of), limit))
beaconsQuery(r, scope, limit) ==
  mostActive(Group(From([r EXCEPT !.table = "flows"], scope),
                   LAMBDA i : IF "id" \in DOMAIN scope THEN <<Rows[i].dest, Rows[i].proto, Rows[i].app>> ELSE <<Rows[i].dest, 0, 0>>), limit)

beaconDest(row, ts, gaps, from, width, maxDots) ==
  LET dots == [n \in DOMAIN ts |-> [t |-> ts[n], gap |-> gaps[n], b |-> row.bytes[ts[n]]]]
  IN  [dest |-> row.dest, ticks |-> Len(ts), bytes |-> SumSeq([n \in DOMAIN ts |-> row.bytes[ts[n]]]), stats |-> periodicity(ts),
       binned |-> Len(ts) > maxDots, dots |-> IF Len(ts) > maxDots THEN binDots(dots, from, width) ELSE dots]
gapped(row, ts, r, maxDots) ==
  beaconDest(row, ts, burstGaps(ts), r.from, Ceil((r.to - r.from + maxDots - 1) \div maxDots, SECOND), maxDots)
toBeaconDest(row, r, maxDots) == gapped(row, Ordered(DOMAIN row.bytes, <), r, maxDots)

\* Highest score first (a spread below the limit, with enough bursts), then
\* most ticks, then by destination.
compareDests(a, b) ==
  LET loss(d) == IF d.stats.periodic THEN d.stats.spread ELSE MAX_SPREAD
      rank(d) == <<loss(d), -d.ticks, d.dest[1], d.dest[3], d.dest[2]>>
  IN  Before(rank(a), rank(b))

\* The destinations share a budget of dots.
beaconsOf(kept, r, maxDots, truncated) ==
  [dests |-> Ordered({toBeaconDest(kept[n], r, maxDots) : n \in DOMAIN kept}, compareDests),
   truncated |-> truncated, from |-> r.from, to |-> r.to]
buildBeacons(rows, r, limit) ==
  beaconsOf(Take(rows, limit), r,
            Larger(BEACON_MIN_POINTS, BEACON_POINT_BUDGET \div Larger(1, Smaller(limit, Len(rows)))), Len(rows) > limit)

\* Name scope: the end of the range.  Instance scope: by default its lifetime.
beaconsIn(r, scope) == buildBeacons(beaconsQuery(r, scope, BEACON_DEST_LIMIT + 1), r, BEACON_DEST_LIMIT)
beacons(r0, name) == beaconsIn(capSpan(r0, BEACON_SPAN), [name |-> name])
lifeOf(known, now) ==
  IF known = {} THEN parseRange([from |-> Missing, to |-> Missing, step |-> Missing], now)
  ELSE lifetimeRange(CHOOSE p \in known : TRUE, now)
processBeacons(id, now) ==
  beaconsIn(capSpan(lifeOf({p \in Latest(processes) : p.id = id}, now), BEACON_LIFE_SPAN), [id |-> id])
=============================================================================
