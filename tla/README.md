# net-watch: TLA+ verification

net-watch measures how much network traffic each process moves. eBPF programs
count bytes in the kernel, a collector reads the counters once per interval and
keeps per-process state, two sinks write that state to Redis (live) and to
ClickHouse (history), and a web server and a browser client show both. This
directory models the path a byte takes from the socket call to the browser's
charts, checks the models with TLC on small instances, and proves with TLAPS,
for every value of the constants, the safety properties of the collector, of
both sinks, of the server's stream reader, and of five parts of the dashboard.

## The system and what is hard about it

| part | source | hard behaviour |
|---|---|---|
| eBPF accounting | `net-watch-ebpf/src/main.rs` | programs of several CPUs and the collector interleave inside `account()`; element pointers outlive the element |
| exit hook | same | threads outlive their leader, PIDs are reused, `PROCS` and `EXITS` lose entries |
| probe and loop | `net-watch/src/probe.rs`, `main.rs` | a 2 ms sleep is the only thing that separates programs from the drain |
| aggregator | `net-watch/src/model.rs` | exits and counters come in either order; consumers get deltas |
| Redis sink | `net-watch/src/sink_redis.rs` | skipped, refused and unacknowledged writes; Redis loses its data |
| ClickHouse sink | `net-watch/src/sink_clickhouse.rs` | two inserts that fail separately, after any prefix of their rows |
| LiveHub | `web/src/server/live/hub.ts` | commands fail at every await; the stream is trimmed or lost meanwhile |
| LiveStore | `web/src/client/hooks/useLive.ts` | two connections whose answers interleave; aborted and failed loads |
| storage | `web/src/server/storage/*`, `StoragePage.tsx` | a delete in steps against a collector that writes, expiry and other dashboards |
| queries | `web/src/server/ch/*`, `routes/history.ts` | panels of one page computed by different queries, over rows that arrive and expire |
| charts | `web/src/client/history/*`, `live/*`, `charts/*` | folding, colours that several charts share, React effects that run after the render |
| caches | `geo/asn.ts`, `geo/rdns.ts`, `useQuery.ts` | stale values, answers after their request, reloads of a changed file |

`PROJECT.json` lists all parts, the ones that are not modelled included.

## Modules

### Collector and sinks

| module | models | state and actions |
|---|---|---|
| `Accounting` | what the flow maps promise | `pending`, `dropped`, `delivered`; `Happen`, `Drop`, `Tick` |
| `FlowMaps` | eBPF programs, exit hook, flip/drain/publish cycle | `account(c)` is seven actions, one per step another CPU can interleave with (`ReadActive`, `Lookup`, `AddBytes`, `AddCalls`, `Insert`, `RecordProc`, `Retry`); the collector is `Flip`, `StartDrain`, `DrainBucket`, `Publish`, `Fail` |
| `Aggregator` | `model.rs` | `Ingest(dt)` is the whole of `ingest()`; `Send`, `Exit`, `Reap`, `Flip`, `Drain` are the kernel side reduced to what `FlowMaps` shows; `unread` are the stat files the sweep could not read in this tick; `mirror` is a consumer that applies the deltas |
| `RedisSink` | `sink_redis.rs` and the keys it writes | `Tick` is the aggregator, which may list a forgotten process again; `Write`, `WriteFails`, `ConnectFails` consume a tick; `Exec` is `build()`; `Lose`, `Age`, `Expire` are Redis |
| `ClickHouseSink` | `sink_clickhouse.rs` and its two tables | `Receive`, `ReceiveAndFlush`, `Finish`; a flush is `NoSchema`, `FlushAll`, `FlowsFail` or `ProcsFail` |

### Live data

| module | models | state and actions |
|---|---|---|
| `LiveHub` | `hub.ts` | `BackfillPage`, `checkTrimmed`, `readOnce`, `Fail`, one action per awaited command; `Add`, `Wipe`, `Connect`, `Disconnect` are the environment. The n-th entry ever added has the id n, so the stream, a page and an XREAD are intervals of ids |
| `LiveStore` | `useLive.ts` and the two routes it uses | one action per callback (`onHello`, `onTick`, `Loaded`, `LoadFails`, `Refused`, the timers, `acquire`, `release`, `close`) and the server's steps |
| `LiveView` | `live/compact.ts`, `useLiveThroughput.ts`, `LiveThroughput.tsx`, `FlowSankey.tsx` | ticks arrive, the ranking is renewed or held, the chart is paused; colours come from `Slots` |
| `HealthStrip` | `HealthStrip.tsx` | the drop counter over missed ticks and collector restarts: `HostTick`, `HostRestart`, `PageOpens`; a tick shown runs `trackDrops` over the whole buffer |
| `Talkers` | `topTalkers.ts`, `TopTalkers.tsx` | the table of processes under its filters, over the ticks of `HealthStrip` |

### History, storage and the browser

| module | models |
|---|---|
| `Lists`, `Slots`, `Route` | shared operators; `SlotAssigner` of `palette.ts`; which part of the dashboard a behaviour is about |
| `Queries`, `Breakdowns`, `History` | the history API: each endpoint is an operator over the tables of `schema.sql`, an endpoint with two queries reads them in two steps while rows arrive and raw rows expire |
| `Charts`, `Drawings`, `ScatterPoints` | the pure functions that turn an answer into what is drawn |
| `HistoryPage` | the page's URL and every control that changes it, the debounced zoom, the hues of its charts |
| `Gantt` | lanes and rows of `packLanes.ts` over answers that grow |
| `Panels` | one chart panel between React and ECharts: a render (`Commit`), its passive effects (`RunEffects`) and the user's handlers are separate steps |
| `Storage` | the Storage page, its cached scan, `deleteEndedDays` and `dropPartitions`; every await ends an action and may fail, and the collector writes, ends and brings back processes in between |
| `AsnTable`, `Destinations` | the range table and its reload, the health poll, `useQuery` and the page's filters |
| `Rdns` | the LRU with its TTL, shared lookups, answers after the budget |
| `MC*` | constants of the small instances; `MCWeb` puts the web parts side by side |

Each module takes the part upstream of it as its environment, with what the
upstream module establishes: `Aggregator` assumes of the kernel what `FlowMaps`
shows (a call in one map, events that name exited leaders and may be lost);
`RedisSink` and `ClickHouseSink` receive ticks whose changed flags behave as
`DeltasSuffice` says; `LiveStore` relies on `FeedComplete` and `NoneMissed` of
`LiveHub`; `LiveView`, `HealthStrip` and `Talkers` take ticks that `LiveStore` may have missed.

### Data that is abstracted

- A counter is the *set* of socket calls (or sends) added to it. "Lost" and
  "counted twice" are then visible, which a number would hide. Byte amounts and
  64-bit wrap-around are left out of the collector.
- The byte and the call counter of a flow element are separate sets, because
  `add()` updates them with separate atomic instructions.
- A flow map is a set of preallocated slots. A program holds a pointer to a slot
  across steps and writes to whatever the slot holds by then.
- Times in `Aggregator` are ages that saturate at the largest interval the code
  compares them with; in `LiveHub` and `LiveStore` they are counted in
  intervals, so `GAP_INTERVALS = 2.5` is `2 * difference > 5`. The web modules
  count in a unit of which `SECOND`, `MINUTE` and `HOUR` are small multiples, so
  that times within a second exist.
- A query is what its text denotes over the rows of its table: range, bucket,
  filter, groups, order, limit. `any(name)` of `flows_1m_mv` is taken as the
  name of the row, and the labels of beacons over several processes are left out.
- Rounding is integer arithmetic with the rounding of the code (floor, round,
  hundredths), never the identity.
- Names, command lines, JSON, SQL text, formatting, tooltips and layout are left
  out.

## Runs

| run | result | shows |
|---|---|---|
| `FlowMaps_grace` | pass | While programs end within the sleep: nothing is lost or counted twice, bytes and calls are published together, drops mean a full map, and `FlowMaps` implements `Accounting`; every call is settled while the collector runs. |
| `FlowMaps_late` | pass | Without that assumption, with a PID that two instances reuse and a full ring: exit events still name exited processes. The instance has one PID, so `PROCS` evicts nothing; that it holds with evictions, and that nothing is counted twice, is proved (see below). |
| `FlowMaps_late_not_lost` | violation | `README.md:184-186` says late bytes "are late, not lost". A program that looked up its element before the drain and adds to it afterwards writes to a freed element. |
| `FlowMaps_pid_reuse` | violation | `README.md:114-115` says a reused PID never merges two processes. The flow key has no start time, so within one interval it can. |
| `Aggregator` | pass | Deltas keep a consumer exact, totals are conserved and split by destination, an exit event is applied in its tick or the next, what was published stands, what is gone is forgotten; a sweep that cannot read a stat file may end a process that runs, and nothing else can. |
| `RedisSink` | pass | After any failure the keys of a tick agree with each other; ended processes expire and are indexed; what a process that comes back finds in Redis is the only exception. |
| `RedisSink_dests` | violation | `sink_redis.rs:2-4` says a skipped tick "can never make the data drift". Destination totals of a skipped tick stay old until the next traffic to them. |
| `ClickHouseSink` | pass | Rows are conserved, only the oldest are discarded and only during an outage, FINAL gives the last state, closing flushes, an outage that ends is followed by a flush. |
| `LiveHub` | pass | No entry is missed, the ring is the newest ticks, trimmed entries leave a gap mark, subscribers hear every tick, the reader catches up. |
| `LiveStore_holes` | violation | `useLive.ts:138-139` says a tick after missing ticks has `gap`. After a failed series load it has not. |
| `Web` | pass | Eighteen properties of the dashboard, below. |
| `Panels_selection` | violation | `TxRxScatter.tsx:78` says "A new answer invalidates the selection". Its effect runs after a render that already used the old selection with the new answer. |

`Web` steps one machine per behaviour (`part`): the machines share the operators
of the server and the charts but no state, so their product would only multiply
states. It has 1,407,994 distinct states. What it checks:

| property | module | says |
|---|---|---|
| `DeleteExact` | `Storage` | a delete takes only processes that ended on the days asked for, and leaves nothing of them but what was written meanwhile; one that fails part way leaves no key out of the reach of the next; the same for partitions |
| `ShownBelongs` | `Destinations` | what is shown as final is the answer for the URL, enriched from the newest table the page was told of |
| `BandsAddUp`, `ColoursKept` | `LiveView` | the live stack adds up to the tick but for rounding; bands have distinct colours and keep them |
| `AnswersAddUp`, `SeriesAgree` | `Drawings` | the panels of one range agree with the header, the diagram balances, the throughput chart holds every row, and a drill-down opens the same bytes |
| `FirstContacts` | `History` | over adjacent ranges every contact is reported once, in the minute of its first row |
| `MarkersComplete` | `Charts` | each start, end and new destination is in exactly one marker or day, and the process of a marker has a bar |
| `DrawnWhole`, `ProcessPanels` | `Drawings` | everything in an answer is drawn once, where its axis reaches |
| `HuesTellApart` | `HistoryPage` | hues tell names apart and agree between charts |
| `RequestsFollow` | `HistoryPage` | no click turns requests the server accepts into ones it refuses, and the lifecycle track asks for names of the answer to the current URL |
| `LanesFit` | `Gantt` | instances in one row never overlap, and a lane has as many rows as instances overlap at one moment |
| `DropsCounted` | `HealthStrip` | the drop counter across restarts |
| `TalkersShown` | `Talkers` | who is in the table |
| `NamesFresh` | `Rdns` | each address is answered once, from a bounded cache, within its TTL |
| `PanelSettles` | `Panels` | once the effects have run, chart, legend and selection are of the answer held |
| `HolesMarked` | `LiveStore` | the buffer goes forward and, while loads succeed, marks its holes and catches up |

### Bounds

- `FlowMaps`: three calls of two processes. Two calls share a flow (the lost
  insert race), the third belongs to another (a full map with one slot, a reused
  slot with two). Every step of `account()` interleaves with flips, two maps and
  repeated drains; the number of cycles is not bounded. `FlowMaps_grace` has no
  exiting processes (`Mortal = {}`): exits do not touch flow maps and are
  explored in `FlowMaps_late`.
- `Aggregator`: three sends over two flows of one process with the same peer,
  one of them sniffable, so that relabelling, a cache hit, an early exit and
  counters after the exit all occur. Ticks are 1 or 2 time units apart and the
  three intervals are 3, 2 and 4, so the sweep, the prune and the cache expiry
  happen in every order. Any sweep may fail to read the process's stat file.
- `RedisSink`: two processes, one of which (`Returning`) may come back after it
  was forgotten, a total of at most 2, a channel of one tick: the changed and the
  unchanged process, and every sequence of failures. How often it comes back is
  not bounded but by `MaxTotal`.
- `ClickHouseSink`: four ticks with rows, a buffer of two, so trim discards
  twice with inserts failing in between; ticks without rows are not bounded.
- `LiveHub`: four entries, a stream of two, a ring of three, pages of one, reads
  of two, with clock steps of 1, 3 (a gap) and -1.
- `LiveStore`: five ticks, a server ring of two, a buffer of three, two mounted
  callers: a hole wider than the server's ring is possible.
- `Storage`: two processes whose ends fall on two days in one timezone and on one
  in another; one is alive at first. `MaxUpsets = 1`: once a process comes back
  after its end or passes its time to live, and (`Calm`) it does so while a delete
  is asked for and little else goes on; the collector's other writes are not
  bounded, and the theorem holds without these bounds. Two partitions, one failing Redis or ClickHouse call at any await, two
  requests, a cache that lasts one time unit.
- `Destinations`: three versions of the ASN file (unsorted with IPv6, overlapping
  with a malformed line, empty), replaced twice, fractional mtimes, four URLs.
- `History` and what draws it: five rows of two processes, one of which changes
  its name, and four destinations (local, without a peer, in the table, unknown)
  over 16 time units, with raw rows that expire after half of them; requests cut
  on both sides, aligned, and longer than the raw tables reach. An exit time
  (`Exits`) lies between two ticks of its process, before its first, after its
  last or just before it. The local clock (`ZoneAt`) repeats half an hour.
- `HistoryPage`: a bare URL, one with a filter and a reversed range, and one with
  a filter that is too long and a uid that is too large (`TooLong`, `TooLarge`);
  two clicks, three time steps, so that a slot is released by age
  (`RELEASE_MS = 2`), with the debounced zoom under way or not.
- `LiveView`: up to two bands (`TOP_N`) and two slots for more names than that, so
  that two bands with a colour of their own, and one without, occur.
- `HealthStrip`, `Talkers`, `Gantt`, `Rdns`, `Panels`: one lane, row or cache
  entry less than there are names, bars or addresses, so each limit is met; the
  bounds are the constants of `Web.cfg`.

The web machines may stop (`CHECK_DEADLOCK FALSE`): their bounds on clicks, rows
and time end them.

### Fairness

- `FlowMaps`: a program that has started runs to its end (eBPF programs
  terminate), and the interval timer keeps waking the collector.
- `Aggregator`: the timer keeps flipping, draining and ingesting. Nothing is
  assumed of processes.
- `ClickHouseSink`: ticks keep coming until the channel closes, and again and
  again one is received after `flush_every`; ClickHouse may be down for ever,
  and `EventuallyFlushed` is about outages that end.
- `LiveHub`: the reader goes on while its connection works. Nothing is assumed
  of Redis; `CatchesUp` allows commands to fail again and again.
- The other specifications have no fairness: their properties are safety.
- Deadlock is also checked in `Aggregator`, `RedisSink`, `ClickHouseSink` and
  `LiveHub`. In `FlowMaps` the collector may stop (a signal or a failed bpf()
  call) with all calls done.

## Proofs

All sets and bounds are arbitrary in the theorems, subject to the `ASSUME` of
each module. A theorem `Spec => []P` rests on three facts: `Init => Inv`,
`Inv /\ [Next]_vars => Inv'` (one step per action) and `Inv => P`; an action
property uses `Inv` in the state the step leaves.

`FlowMapsProofs`, with no assumption on the sleep:

- `TypeCorrect`: `Spec => []TypeOK`.
- `OnceOnly`: `NoDoubleCount`. It says for each program counter where the bytes
  of a call may be, and is inductive together with the type invariant and
  `Owned` (a used element records the process that inserted it). A write through
  a stale pointer goes to one slot, so it never duplicates.
- `ExitsAreReal`: `ExitNamesExited`. The strengthening `ExitInv` says that a PID
  has at most one present owner, that programs run only while their process is
  present, and that `PROCS` and an exit hook between its two steps hold
  instances of their PID that have existed.

Its second part assumes `Grace`: a program that read the old `ACTIVE` ends
within the 2 ms.

- `FlipIsClean`, `Conservation`, `CountersAgree`, `DropsAreFull` follow from
  `GraceInv`. Its part `MapInv` says that a program works on the idle map only
  during the sleep, so the pointer it holds is to an element with its key, the
  drain meets no program, and an insert that failed finds its key or a full map.
  Its part `CountInv` says that the call counter of an element lags its byte
  counter only by the programs between the two instructions of `add()`, and that
  what the drain has read agrees.
- `Attribution` and `Refinement` further assume that distinct instances have
  distinct PIDs (`OwnerInv`: an element holds calls of its key only):
  `FlowMaps` implements `Accounting`, with everything between a program and its
  tick as `pending`.

`AggregatorProofs`: `Deltas`, `Totals`, `ExitsApplied` and `PublishedStands`
prove `DeltasSuffice`, `TotalsExact`, `ExitApplied` and `StaysEnded`.
`KernelInv` keeps the three maps and what was ingested apart. `ProcsInv` says
that each record is a disjoint split of sends that were ingested, and that a
consumer's copy equals it. `ExactInv` is what holds without strays: whatever is
still to be drained for an ended process is in the map drained next, and a
forgotten process never returns, unless the sweep misread it (`misread`, a
history variable); this is why one retry of a pending exit is enough. `CacheInv` ties the label cache to the label a flow was last given.

`RedisSinkProofs`: `Agreement` and `Expiry` prove `SnapshotAgrees` and
`EndedExpires`. A delta is right only on top of the tick before it, so
`QueueInv` says that the channel is a chain of deltas that ends in the
aggregator's state, and `SyncInv` that while the sink trusts its connection
(`Synced`) what is in Redis is where that chain begins. `EndedInv` says that an
end seen once, in a tick or in Redis, is in every later tick, of a process that
did not come back (`back`, a history variable); `Rewritten` covers those that
did: a delta lists them only if it writes them, so their hash is the tick's.

`ClickHouseSinkProofs`: `Conserved` (if ticks have increasing times),
`OldestFirst` and `Flushed` prove `RowsConserved`, `OldestWhileDown` and
`FlushedAtClose`. `OrderInv` says that ticks are received in the order of their
numbers, `RowsInv` that every received row is stored, buffered or counted as
discarded, that the buffer is in order, and that no row of a process is newer
than its latest. The insert is only known to store some prefix of the buffer.

`LiveHubProofs`: `Followed`, `Honest` and `Fed` prove `NoneMissed`, `GapHonest`
and `FeedComplete`, for any stream, ring, page and read length. `PositionInv`
relates the reader's position to what it took and to what was trimmed;
`PendingInv` says that a trimmed entry above the ring is still to be marked, by
`#pendingGap` or by the check that comes before the next read; `RingInv` says
what the ring is, in terms of the accepted ids. The loop over a page is a
recursive function; that it exists and keeps these facts is shown with a least
counterexample (`NatLessThanWellFounded`), not with an induction theorem.

`LiveStoreProofs`: `HolesAreMarked` proves `HolesMarked`, for any number of
ticks and callers and any capacities. The loop of `#append` and the filter of
`#merge` are recursive functions; for a buffer that goes forward in time they
are shown to join a part of the incoming ticks to the buffer, and to keep a
prefix of it. `WireInv` says what the events and the series under way may hold,
`BufferInv` that the buffer goes forward and marks its holes. `FedInv` is the
heart: every tick that the tab lacks is on the wire, or among the pending ticks
and the series they will be merged with. `TimerInv` gives `Lifecycle`.

`PanelsStorageProofs`:

- `Exact` proves `DeleteExact`. `StoresInv` says that a process in the index of
  ended ones is alive only if it began again (`began`), and that the keys of every
  process are within reach of the index or of `netwatch:alive`, unless they were
  written during a delete (`rewritten`) or are past their time to live (`aged`);
  `DeleteInv` adds for each step of a delete what its keys, victims and answer may
  be. `CollectorStep` is the collector's side, in any of those steps.
- `Settles` proves `PanelSettles`, which speaks of moments when no effect is
  owed. `PanelInv` says of every moment what an owed effect will put right: the
  drawing (`push`), the legend (`bind`), the selection (`reset`).

`RdnsStripProofs`:

- `NamesAreFresh` proves `NamesFresh`, for any addresses, cache size, TTL and
  limits of a request. `RdnsInv` adds that an entry expires exactly `TTL_MS`
  after it was resolved (so a hit does not renew it), and that the lookups that
  run under the number of the waiting request are those it still waits for;
  numbers are not used twice, so a late answer never fills another request.
- `DropsAreCounted` proves `DropsCounted`, for any drops, ticks and restarts.
  `StripInv` links the count the strip saw last to the collector that runs
  (`Linked`): the collector has added to it since, or began again and its whole
  count came since. So a smaller count is always a restart, and what
  `trackDrops` adds is never more than was dropped. `CountInv` says that it is
  exactly that unless a restart was masked.

The assumptions on constants (`LiveStoreAssumption`, `RdnsAssumption`,
`StripAssumption` and the others) say that sizes and bounds are numbers, that
buffers, pages and the TTL are not zero, that the hub's ring holds the flows it
keeps (`RecentFlows <= Capacity`), that the maps between calls, flows, processes
and days are functions, and that null is not a value.

The invariants of `Rdns` and `HealthStrip` were checked by TLC before they were
proved. In every proof module Zenon is tried first; the leaves that need
arithmetic, intervals, sequences or records name the SMT solver.

### Only model-checked

- Liveness (`EventuallySettled`, `EventuallyForgotten`, `EventuallyFlushed`,
  `CatchesUp`): fairness and ENABLED are outside what TLAPS proves here.
- `BandsAddUp`, `AnswersAddUp`, `SeriesAgree`, `FirstContacts`,
  `MarkersComplete`, `DrawnWhole`, `ProcessPanels`: they are about sums and
  groups that folds compute from an answer, which needs induction over that data.
- `ColoursKept`, `HuesTellApart`, `LanesFit`, `TalkersShown`: they rest on
  sorting (`Ordered`), an operator with the comparison as a parameter, about
  which a lemma cannot be stated once and used.
- `RequestsFollow`: not proved. `HistoryPage` is built on the whole history API, and
  with those definitions in sight each leaf takes the provers' tools seconds
  before a prover starts.
- `ShownBelongs`: it includes that the lookup in a parsed table is the one its
  file denotes (again induction over data), and it holds for files whose
  truncated mtimes differ: two tables of equal size written within one
  millisecond would be taken for one.

## What the code does not promise

Limits of the code that the properties are written around.

Collector and sinks:

- Under late programs `DROPS` also counts a call whose map has room again by the
  time it is counted.
- The aggregator lists an ended process for up to two retain periods, as the
  prune runs once per period. A pending exit is retried once; the sweep finds
  the rest.
- Threads that outlive their leader by more than a retain period bring a
  forgotten process back, with totals from zero. `ExitApplied` and parts of
  `TotalsExact`, `StaysEnded` and `DeltasSuffice` therefore say "without strays".
- The sweep ends a running process that was silent for `LIVENESS_EVERY_MS` when it
  cannot read its `/proc/<pid>/stat` (`model.rs:289`, `:340`: any error of the
  read or of the parsing, such as a name that is not UTF-8). Its later counters
  are added to the ended entry, or, once that is forgotten, to a new one.
- An unacknowledged ClickHouse insert is repeated, so a flow row may be stored
  twice; and process versions are wall-clock times, so a clock that is set back
  makes FINAL return an older state.
- A hash of a process that was forgotten while Redis was unreachable keeps no
  expiry.
- A process that was forgotten and came back is in `netwatch:alive` and still in
  `netwatch:ended`, and its hash keeps the expiry of its earlier end, so that it
  may go missing while the process runs.

Live data:

- The trimmed check of the hub may mark a gap where nothing was missed.
- Live bands that got no slot share the grey.
- A pause or a silence longer than `RELEASE_MS` may change the colour of a band
  that is shown; a switch of the grouping releases names the Sankey still shows.
- A live stack may exceed the tick's total by the rounding of its parts.
- A collector restart that drops as much again before its next tick shown is
  taken for no restart (`HealthStrip.tsx:56`).
- A reverse lookup that failed for a passing reason is shown as "no name".

Storage and tables:

- A process that came back is still in the index, so a delete of the day of its
  earlier end unlinks it while it runs, against what the comment in
  `storage/redis.ts:125-126` has in mind. A process that the collector writes as
  ended between UNLINK and ZREM stays in Redis, out of the index, until its time
  to live has passed. (In the model a process ends again on the same day.)
- The Storage page keeps selected keys that are no longer listed; a scan that
  began before a delete may be cached after it; the current partition may be
  back by the time its deletion is answered.
- The first health poll publishes the table's status without a refetch. A file
  with a fractional mtime is read again at every timer.

History:

- Queries of one answer, and the panels of one page, are not a snapshot: rows
  arrive between them. Totals of the header, the Sankey and the chart also
  differ where the range is not aligned to the step.
- Name filters of the lifecycle and the lifetimes apply before the latest state
  is chosen. A process name with a comma is split in a list of names.
- A contact at a `from` cut within a second is in neither of two adjacent tracks.
- The mean of a burst may exceed its maximum in a bucket that the range cuts.
- A double-click on the legend of an answer to another grouping filters the new
  dimension by a key of the old one (`ThroughputChart.tsx:279-284`); a debounced
  zoom may apply to a range that changed meanwhile (`ThroughputChart.tsx:261-267`).
- Colours of the page's charts agree only for answers within `RELEASE_MS`.
- `subRows` alone would give an instance that ends as it starts a row more than
  the overlap asks for, in one order of ids (`packLanes.ts:19-28`). The collector
  never reports one: it sees a process a tick after it started, and `first_seen`
  and the start are taken from one reading of the clock (`model.rs:146-147`,
  `:305-309`), so `LanesFit` is about bars with a length.
- Rows of a tick later than a second after the exit are outside the window of the
  instance (`beacons.ts:29-33`), which happens with an interval above one second or
  a late drain. `ProcessPanels` is about the rows up to that second.
- An end in the range of a process whose first I/O is counted after it has no
  marker (`lifecycle.ts:38`), and a start marker of a process that exited before
  the range has no bar (`lifetimes.ts:47`).
- After a failed throughput request the lifecycle track asks for the names of the
  older answer.

## Not modelled

Classification by port and payload, flow key construction and BTF offsets (pure
tables and reads of kernel memory; the models take their results as inputs),
user names, configuration, deployment, SQL text, drawing and formatting. The
limit of 10 s per sink at shutdown, the one-second cache of the live snapshot
and the meta route are left out of parts that are otherwise modelled.
`PROJECT.json` gives the reason for each.
