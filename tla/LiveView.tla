------------------------------ MODULE LiveView ------------------------------
(***************************************************************************)
(* The charts of the Live page over the ticks that useLive holds: the      *)
(* compaction of a tick on the server (live/compact.ts), the throughput    *)
(* stack with its ranking and pause (useLiveThroughput.ts,                 *)
(* LiveThroughput.tsx) and the Sankey that shares the page's colours       *)
(* (FlowSankey.tsx).  One direction stands for both.  A process id is      *)
(* 10 * name + instance.  A rate is counted in half hundredths of a kbps,  *)
(* which r2 rounds to hundredths.                                          *)
(***************************************************************************)
EXTENDS Route, Slots

CONSTANTS
  Snapshots,      \* Snapshots[i]: the rates of a snapshot, by process id
  TOP_N, RANK_EVERY_MS, HOLD_MS,
  Windows,        \* lengths of the window
  FlowSeconds,    \* the Sankey averages the ticks of this many seconds
  MaxClock,       \* bound: time
  MaxClicks,      \* bound: clicks on the page
  NoTime          \* a time that is not set

VARIABLES
  time,      \* the collector's and the browser's clock
  feed,      \* the ticks held: [ts, snap]
  liveChart,     \* LiveThroughput: [by, win, pausedAt, view, ranking, owned, bands]
  slots,     \* the page's SlotAssigner
  sankey,    \* LiveFlowSankey: [hover, flows, procSlots]
  clicks

liveVars == <<time, feed, liveChart, slots, sankey, clicks>>

Ids == DOMAIN Snapshots[1]
NameOf(id) == id \div 10
keyOf(id, by) == IF by = "name" THEN NameOf(id) ELSE id

r2(n) == (n + 1) \div 2
Total(f, S) == FoldFunctionOnSet(LAMBDA a, b : a + b, 0, f, S)

-----------------------------------------------------------------------------
(* The server's part: a snapshot reduced to a tick, and ticks to flows.     *)

compactTick(snap) ==
  [total |-> r2(Total(snap, Ids)),
   procs |-> [id \in {id \in Ids : snap[id] > 0} |-> r2(snap[id])]]

Compact == Memo([i \in DOMAIN Snapshots |-> Memo(compactTick(Snapshots[i]))])

\* Mean rate per process name over some ticks.
sumOfName(ticks, ids) == Total([i \in DOMAIN ticks |-> Total(Snapshots[ticks[i].snap], ids)], DOMAIN ticks)
aggregateFlows(ticks) ==
  Memo([n \in {NameOf(id) : id \in Ids} |->
     r2(sumOfName(ticks, {id \in Ids : NameOf(id) = n}) \div Larger(1, Len(ticks)))])

-----------------------------------------------------------------------------
(* useLiveThroughput.                                                       *)

windowTicks(ticks, end, win) == SelectSeq(ticks, LAMBDA t : t.ts <= end /\ t.ts > end - win)

Keys(by) == {keyOf(id, by) : id \in Ids}
Rates ==
  Memo([i \in DOMAIN Snapshots |-> Memo([k \in Keys("name") \cup Keys("id") |->
     Total(Compact[i].procs, {id \in DOMAIN Compact[i].procs : k \in {keyOf(id, "name"), keyOf(id, "id")}})])])
KeyRate(t, key) == Rates[t.snap][key]
windowSums(ticks, by) ==
  Memo([k \in Keys(by) |-> Total([i \in DOMAIN ticks |-> KeyRate(ticks[i], k)], DOMAIN ticks)])


NoRank == [by |-> "none", win |-> 0, at |-> 0, top |-> << >>, last |-> NoSlots]

\* rank: the earlier ranking within RANK_EVERY_MS; else the plain top, where a
\* series that was in it less than HOLD_MS ago keeps its place.
ranked(by, win, now, sums, last, kept, joined) ==
  [by |-> by, win |-> win, at |-> now, top |-> Ranked(sums, kept \cup Range(joined)), last |-> last]
keepShown(by, win, now, sums, fresh, last, kept) ==
  ranked(by, win, now, sums, last, kept, Take(SelectSeq(fresh, LAMBDA k : k \notin kept), TOP_N - Cardinality(kept)))
rerank(by, win, now, sums, fresh, prev, still) ==
  keepShown(by, win, now, sums, fresh, [k \in still \cup Range(fresh) |-> IF k \in Range(fresh) THEN now ELSE prev.last[k]],
            Range(prev.top) \cap (still \cup Range(fresh)))
rankAt(now, by, win, prev, sums) ==
  IF prev.by = by /\ prev.win = win /\ now >= prev.at /\ now - prev.at < RANK_EVERY_MS THEN prev
  ELSE LET before == IF prev.by = by /\ prev.win = win THEN prev ELSE NoRank
       IN  rerank(by, win, now, sums, Take(Ranked(sums, {k \in DOMAIN sums : sums[k] > 0}), TOP_N), before,
                  {k \in DOMAIN before.last : now - before.last[k] < HOLD_MS})
rank(ticks, by, win, prev) ==
  rankAt(IF ticks = << >> THEN 0 ELSE Last(ticks).ts, by, win, prev, windowSums(ticks, by))

\* Mutant: the remainder takes in the processes that are shown too.
Other_All(t, by, top) == Compact[t.snap].total

\* One band per shown key, and "other": the rest of the tick's total.
Other(t, by, top) ==
  LET rest == Compact[t.snap].total - Total([i \in DOMAIN top |-> KeyRate(t, top[i])], DOMAIN top)
  IN  IF rest > 0 THEN rest ELSE 0

\* The band at a height of the stack at a tick: its place, Len(top) + 1 for
\* "other", and 0 above the stack.
heightsOf(rates) == [i \in 0 .. Len(rates) |-> Total(rates, 1 .. i)]
bandUnder(height, v) == {i \in DOMAIN height \ {0} : v <= height[i] /\ height[i] > height[i - 1]}
bandAt(t, by, top, v) ==
  LET under == bandUnder(heightsOf(Append([i \in DOMAIN top |-> KeyRate(t, top[i])], Other(t, by, top))), v)
  IN  IF under = {} THEN 0 ELSE Min(under)

\* The hook after a change of the ticks, the grouping or the window.
Drawn(c, view, ranking, owned, given) ==
  /\ liveChart' = [c EXCEPT !.view = view, !.ranking = ranking, !.owned = owned,
                            !.bands = [i \in DOMAIN ranking.top |-> Slot(given, ranking.top[i])]]
  /\ slots' = given
Coloured(c, view, ranking, freed, owned, now) ==
  Drawn(c, view, ranking, Range(ranking.top) \cup owned, assign(freed, ranking.top, now))
Redrawn(c, view, now) ==
  Coloured(c, view, rank(view, c.by, c.win, c.ranking),
           IF c.ranking.by # c.by THEN releaseNames(slots, c.owned) ELSE slots,
           IF c.ranking.by # c.by THEN {} ELSE c.owned, now)
Chart(c, view, now) ==
  IF view = liveChart.view THEN liveChart' = c /\ slots' = slots ELSE Redrawn(c, view, now)

Shown(c, ticks) ==
  windowTicks(ticks, IF c.pausedAt # NoTime THEN c.pausedAt ELSE IF ticks = << >> THEN 0 ELSE Last(ticks).ts, c.win)

-----------------------------------------------------------------------------

LiveInit ==
  /\ time = 0 /\ feed = << >> /\ clicks = 0
  /\ \E w \in Windows :
       liveChart = [by |-> "name", win |-> w, pausedAt |-> NoTime, view |-> << >>, ranking |-> NoRank,
                owned |-> {}, bands |-> << >>]
  /\ slots = NoSlots
  /\ sankey = [hover |-> FALSE, flows |-> << >>, procSlots |-> NoSlots]

\* A tick arrives; every chart of the page renders.
LiveTick(i) ==
  LET ticks == Append(feed, [ts |-> time + 1, snap |-> i]) IN
  /\ time < MaxClock
  /\ time' = time + 1
  /\ feed' = ticks
  /\ Chart(liveChart, Shown(liveChart, ticks), time + 1)
  /\ UNCHANGED <<sankey, clicks>>

\* No tick for a while.
Silence ==
  /\ time < MaxClock
  /\ time' = time + 1
  /\ UNCHANGED <<feed, liveChart, slots, sankey, clicks>>

Click == clicks < MaxClicks /\ clicks' = clicks + 1

\* The pause button: the view ends at the tick shown when pausing.
Pause ==
  LET c == [liveChart EXCEPT !.pausedAt = IF @ # NoTime THEN NoTime ELSE Last(feed).ts] IN
  /\ Click /\ feed # << >>
  /\ Chart(c, Shown(c, feed), time)
  /\ UNCHANGED <<time, feed, sankey>>

\* The grouping and window controls.
GroupBy(by, w) ==
  LET c == [liveChart EXCEPT !.by = by, !.win = w] IN
  /\ Click /\ <<by, w>> # <<liveChart.by, liveChart.win>>
  /\ Redrawn(c, Shown(c, feed), time)
  /\ UNCHANGED <<time, feed, sankey>>

\* The Sankey's poll answers; while the pointer is over it, it keeps its flows.
Polled(flows, procs, given) ==
  /\ slots' = given
  /\ sankey' = [sankey EXCEPT !.flows = flows, !.procSlots = [n \in Range(procs) |-> Slot(given, n)]]
SankeyRows(flows, procs) == Polled(flows, procs, assign(slots, procs, time))
recentFlows == SelectSeq(feed, LAMBDA t : t.ts > Last(feed).ts - FlowSeconds)
SankeyPoll ==
  /\ feed # << >> /\ ~sankey.hover
  /\ LET flows == aggregateFlows(recentFlows)
     IN  SankeyRows(flows, Ranked(flows, {n \in DOMAIN flows : flows[n] > 0}))
  /\ UNCHANGED <<time, feed, liveChart, clicks>>

Hover ==
  /\ Click
  /\ sankey' = [sankey EXCEPT !.hover = ~@]
  /\ UNCHANGED <<time, feed, liveChart, slots>>

LiveNext ==
  \/ \E i \in DOMAIN Snapshots : LiveTick(i)
  \/ Silence \/ Pause \/ SankeyPoll \/ Hover
  \/ \E by \in {"name", "id"}, w \in Windows : GroupBy(by, w)

-----------------------------------------------------------------------------
(* Properties.                                                              *)

StackAdds(t, by, top, stack, total) ==
  /\ stack >= total
  /\ 2 * (stack - total) <= Cardinality(DOMAIN Compact[t.snap].procs)
  /\ \A v \in 1 .. stack : bandAt(t, by, top, v) > 0
  /\ bandAt(t, by, top, stack + 1) = 0

\* Each stack adds up to the tick's total, but for the rounding of its parts to
\* hundredths, and every height of it belongs to one band
\* (useLiveThroughput.ts:108-214).
BandsAddUp ==
  On("live") => \A t \in Range(liveChart.view) : \A top \in {liveChart.ranking.top} :
    StackAdds(t, liveChart.by, top, Total([j \in DOMAIN top |-> KeyRate(t, top[j])], DOMAIN top) + Other(t, liveChart.by, top),
              Compact[t.snap].total)

\* Two bands of the throughput chart never have the same colour, other than the
\* grey of those that got no slot, and a band with a slot keeps its colour from
\* one update to the next while its key stays shown,
\* unless a pause or a silence of the feed lasted longer than RELEASE_MS: no tick
\* renews its slots meanwhile, and other names may take them over
\* (palette.ts:65-98, useLiveThroughput.ts:255-264).
ColoursKept ==
  [][On("live") =>
     /\ \A i, j \in DOMAIN liveChart'.bands : i # j /\ liveChart'.bands[i] >= 0 => liveChart'.bands[i] # liveChart'.bands[j]
     /\ liveChart'.by = liveChart.by =>
          \A i \in DOMAIN liveChart.bands, j \in DOMAIN liveChart'.bands :
            liveChart.ranking.top[i] = liveChart'.ranking.top[j] /\ liveChart.bands[i] >= 0 =>
              \/ liveChart'.bands[j] = liveChart.bands[i]
              \/ time' - Last(liveChart.view).ts > RELEASE_MS]_liveVars

=============================================================================
