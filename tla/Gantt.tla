------------------------------- MODULE Gantt --------------------------------
(***************************************************************************)
(* The process lifetimes chart: the lanes and rows of packLanes.ts over    *)
(* the answers of GET /api/history/lifetimes, as ProcessGantt.tsx keeps    *)
(* them while the range grows and the lanes' order changes.                *)
(***************************************************************************)
EXTENDS Route, Lists

CONSTANTS
  Shapes,          \* bars: [name, start, first, last, ended, bytes], first > start
  Clocks,          \* Date.now() when an answer arrives
  MaxBars,         \* bound: bars of an answer
  SCHEDULED_MIN,   \* instances that a schedule needs (5)
  Running          \* the end of a process that runs

\* The collector takes both times from one reading of its clocks, at a drain that
\* comes after the process started.
ASSUME GanttAssumption ==
  \A b \in Shapes : b.first > b.start

VARIABLES
  gantt   \* [bars, sort, now]: the answer (latest start first), the order of the lanes, the time of the answer

ganttVars == <<gantt>>

-----------------------------------------------------------------------------

\* Mutant: an end before the last I/O is kept.
barEnd_Ended(b, now) == IF b.ended = Running THEN now ELSE b.ended

barEnd(b, now) == Max({IF b.ended = Running THEN now ELSE b.ended, b.first, b.last})

\* subRows: by start, then position, each interval takes the first row that is
\* free again, else a new one.  The state is the last end of every row.
byStart(s) == Ordered(DOMAIN s, LAMBDA a, b : s[a].start < s[b].start \/ (s[a].start = s[b].start /\ a < b))
placeIn(acc, i, iv, row) ==
  [ends |-> [r \in 1 .. Larger(row, Len(acc.ends)) |-> IF r = row THEN iv.end ELSE acc.ends[r]], out |-> acc.out @@ (i :> row - 1)]
subRows(ivs) ==
  LET place(acc, i) ==
        LET free == {r \in DOMAIN acc.ends : acc.ends[r] <= ivs[i].start}
        IN  placeIn(acc, i, ivs[i], IF free = {} THEN Len(acc.ends) + 1 ELSE Min(free))
  IN  FoldLeft(place, [ends |-> << >>, out |-> [i \in {} |-> 0]], byStart(ivs)).out

\* Twice the median.
median2(xs) == LET h == Len(xs) \div 2
               IN  IF Len(xs) % 2 = 1 THEN 2 * xs[h + 1] ELSE xs[h] + xs[h + 1]

\* The gaps between starts have a coefficient of variation below 0.1.
varies(gaps, total) ==
  100 * (Len(gaps) * SumSeq([i \in DOMAIN gaps |-> gaps[i] * gaps[i]]) - total * total) >= total * total
Regular(gaps) == Len(gaps) >= 2 /\ ~varies(gaps, SumSeq(gaps))

laneStatsOf(bars, lives) ==
  [n |-> Len(bars), ended |-> Len(lives),
   median2 |-> IF lives = << >> THEN Running ELSE median2(lives),
   scheduled |-> Len(bars) >= SCHEDULED_MIN /\ Regular([i \in 1 .. Len(bars) - 1 |-> bars[i + 1].start - bars[i].start])]
laneStats(bars) ==
  LET ended == SelectSeq(bars, LAMBDA b : b.ended # Running)
  IN  laneStatsOf(bars, SortSeq([n \in DOMAIN ended |-> barEnd(ended[n], 0) - ended[n].start], <))

\* The instances of a name, by start and id (the bar's place in the answer).
Members(bars, name) ==
  SelectSeq([n \in DOMAIN bars |-> bars[byStart(bars)[n]] @@ [id |-> byStart(bars)[n]]], LAMBDA b : b.name = name)

LaneOf(name, list, sub) ==
  [name |-> name, bars |-> list, sub |-> sub, rows |-> Max(Range(sub)) + 1,
   bytes |-> SumSeq([i \in DOMAIN list |-> list[i].bytes]), firstStart |-> list[1].start,
   stats |-> laneStats(list)]
LaneRows(name, list, now) ==
  LaneOf(name, list, subRows([i \in DOMAIN list |-> [start |-> list[i].start, end |-> barEnd(list[i], now)]]))
Lane(bars, name, now) == LaneRows(name, Members(bars, name), now)

\* packLanes: the lanes in order, the row each of them begins at and the row
\* and end of every bar.
barsAt(lanes, row0, now) ==
  [lanes |-> lanes, rows |-> row0[Len(lanes) + 1],
   bars |-> UNION {{[bar |-> lanes[l].bars[i].id, row |-> row0[l] + lanes[l].sub[i], lane |-> l,
                     end |-> barEnd(lanes[l].bars[i], now)] : i \in DOMAIN lanes[l].bars} : l \in DOMAIN lanes}]
stacked(lanes, now) == barsAt(lanes, [l \in 1 .. Len(lanes) + 1 |-> SumSeq([k \in 1 .. l - 1 |-> lanes[k].rows])], now)
laneBefore(a, b, sort) ==
  IF sort = "bytes" THEN Before(<<-a.bytes, a.name>>, <<-b.bytes, b.name>>)
  ELSE Before(<<a.firstStart, a.name>>, <<b.firstStart, b.name>>)
packLanes(bars, sort, now) ==
  stacked(Ordered({Lane(bars, x, now) : x \in {bars[i].name : i \in DOMAIN bars}}, LAMBDA a, b : laneBefore(a, b, sort)), now)

-----------------------------------------------------------------------------

GanttInit == \E t \in Clocks : gantt = [bars |-> << >>, sort |-> "start", now |-> t]

\* The range grows into the past, and the answer ends with one more bar.
Lifetimes(b, t) ==
  /\ Len(gantt.bars) < MaxBars
  /\ \A i \in DOMAIN gantt.bars : b.start <= gantt.bars[i].start
  /\ gantt' = [gantt EXCEPT !.bars = Append(@, b), !.now = t]

\* The control "lanes by".
SortLanes(v) == v # gantt.sort /\ gantt' = [gantt EXCEPT !.sort = v]

GanttNext ==
  \/ \E b \in Shapes, t \in Clocks : Lifetimes(b, t)
  \/ \E v \in {"start", "bytes"} : SortLanes(v)

-----------------------------------------------------------------------------
(* Properties.                                                              *)

Known(bar, d, now) == d.end >= bar.last /\ d.end >= bar.first /\ (bar.ended = Running => d.end >= now)
Apart(bars, d, e) == d.lane = e.lane /\ (d.end <= bars[e.bar].start \/ e.end <= bars[d.bar].start)
RowsNeeded(bars, lane, rows) ==
  LET at(t) == {d \in lane : bars[d.bar].start <= t /\ t < d.end}
  IN  rows = Max({Cardinality(at(bars[d.bar].start)) : d \in lane})
MedianDrawn(bars, lane, st) ==
  st.ended > 0 => \E d, e \in lane :
    /\ {bars[d.bar].ended, bars[e.bar].ended} \cap {Running} = {}
    /\ 2 * (d.end - bars[d.bar].start) <= st.median2 /\ st.median2 <= 2 * (e.end - bars[e.bar].start)
Fits(p, bars, now) ==
  /\ Cardinality(p.bars) = Len(bars) /\ {d.bar : d \in p.bars} = DOMAIN bars
  /\ \A d \in p.bars : /\ p.lanes[d.lane].name = bars[d.bar].name /\ Known(bars[d.bar], d, now)
                       /\ \A e \in p.bars \ {d} : d.row = e.row => Apart(bars, d, e)
  /\ {d.row : d \in p.bars} = 0 .. p.rows - 1
  /\ \A l \in DOMAIN p.lanes : \A lane \in {{d \in p.bars : d.lane = l}} :
       RowsNeeded(bars, lane, p.lanes[l].rows) /\ MedianDrawn(bars, lane, p.lanes[l].stats)

\* Every instance is drawn once, over the whole time it is known to have run,
\* in a row of its name's lane, where no other instance overlaps it; the lanes
\* share no row and leave none out; a lane has the fewest rows possible, as many
\* as its instances overlap at one moment; and the lane's median lifetime is
\* that of instances drawn (packLanes.ts:1-28, 109-153).
LanesFit ==
  On("gantt") => Fits(packLanes(gantt.bars, gantt.sort, gantt.now), gantt.bars, gantt.now)

=============================================================================
