------------------------------ MODULE Queries -------------------------------
(***************************************************************************)
(* The history API: the requests' ranges and filters (ch/range.ts,         *)
(* ch/sql.ts), the queries over ClickHouse and the answers built from      *)
(* their rows (ch/*.ts, routes/history.ts, routes/process.ts).  A SQL      *)
(* query is the operator that its text denotes over the tables.  Times are *)
(* numbers of ms, with SECOND and MINUTE scaled down; every dimension of a *)
(* flow (name, app, proto, uid, dest) is a number, so that keys have an    *)
(* order.                                                                  *)
(***************************************************************************)
EXTENDS Route, Lists

CONSTANTS
  Rows,            \* Rows[i]: a row of flows: [ts, id, name, app, proto, dest, tx, rx, txc, rxc]
  ProcOf,          \* by instance id: [uid, start]
  Exits,           \* times of exit the instances may have, by id
  SECOND, MINUTE, QUARTER, HOUR, DAY,
  RAW_TTL,         \* how long flows keeps a row
  RAW_SPAN, MINUTE_SPAN, QUARTER_SPAN,   \* 2 h, 3 days and 30 days, of parseRange
  MAX_SPAN, DEFAULT_SPAN, MAX_POINTS, FINE_STEP, NICE_STEPS, WARMUP,
  IpOf,            \* the address of a destination
  NO_PEER, LOOPBACK,  \* sets of addresses
  Missing,         \* no value
  UNKNOWN_APP, UNKNOWN_UID, THROUGHPUT_OTHER

VARIABLES
  next,        \* the rows before this one were written
  raw,         \* rows in flows
  rolled,      \* rows summed in flows_1m
  processes    \* rows of processes: [id, version, name, first, last, ended, tx, rx]

tableVars == <<next, raw, rolled, processes>>

Floor(t, w) == (t \div w) * w
Ceil(t, w) == Floor(t + w - 1, w)
Nearest(a, b) == (2 * a + b) \div (2 * b)

\* Sums over the rows of S; tables, since every answer needs them.
SumTable(tx(_), rx(_)) ==
  Memo([dir \in {"tx", "rx", "both"} |-> Memo([S \in SUBSET DOMAIN Rows |->
     Sum(LAMBDA i : (IF dir # "rx" THEN tx(Rows[i]) ELSE 0) + (IF dir # "tx" THEN rx(Rows[i]) ELSE 0), S)])])
BytesTable == SumTable(LAMBDA row : row.tx, LAMBDA row : row.rx)
CallsTable == SumTable(LAMBDA row : row.txc, LAMBDA row : row.rxc)
Bytes(dir, S) == BytesTable[dir][S]
Calls(dir, S) == CallsTable[dir][S]

-----------------------------------------------------------------------------
(* The tables.  A row reaches flows_1m with its insert into flows; flows    *)
(* expires first.                                                           *)

TablesInit == next = 1 /\ raw = {} /\ rolled = {} /\ processes = {}

\* A flush writes the rows of flows, then those of processes: the latter lag
\* by one flush at most.
InsertRow ==
  /\ next <= Len(Rows)
  /\ \A i \in rolled : \/ Rows[i].ts = Rows[next].ts
                       \/ \E p \in processes : p.id = Rows[i].id /\ p.last >= Rows[i].ts
  /\ next' = next + 1
  /\ raw' = raw \cup {next}
  /\ rolled' = rolled \cup {next}
  /\ UNCHANGED processes

\* A version of an instance: first_seen and last_seen are times of ticks, ended
\* is the exit's own time.  That lies before the tick that reports it: before
\* the last I/O as a rule, before the first of an instance that lived within
\* a tick.  Flows drained after the exit still count, and the end stays.
Version(id, mine, earlier, ended) ==
  [id |-> id, version |-> Cardinality(earlier), name |-> Rows[Max(mine)].name,
   first |-> Rows[Min(mine)].ts, last |-> Rows[Max(mine)].ts,
   ended |-> IF ended # Missing THEN ended
             ELSE IF \E p \in earlier : p.ended # Missing THEN (CHOOSE p \in earlier : p.ended # Missing).ended ELSE Missing,
   tx |-> Bytes("tx", mine), rx |-> Bytes("rx", mine)]

\* The versions of a flush: every instance with rows since its last version,
\* and those that exited before the next tick.
WriteProcesses(over, at) ==
  LET mine(id) == {i \in rolled : Rows[i].id = id}
      of(id) == {p \in processes : p.id = id}
      seen == {id \in DOMAIN ProcOf : mine(id) # {}}
      due == {id \in seen : id \in over \/ \A p \in of(id) : p.last # Rows[Max(mine(id))].ts}
  IN  /\ due # {}
      /\ over \subseteq {id \in seen : \A p \in of(id) : p.ended = Missing}
      /\ \A id \in over : next <= Len(Rows) => at[id] < Rows[next].ts
      /\ processes' = processes \cup {Version(id, mine(id), of(id), IF id \in over THEN at[id] ELSE Missing) : id \in due}
      /\ UNCHANGED <<next, raw, rolled>>

ExpireRaw ==
  /\ raw # {} /\ Rows[Min(raw)].ts + RAW_TTL <= Rows[next - 1].ts
  /\ raw' = raw \ {Min(raw)}
  /\ UNCHANGED <<next, rolled, processes>>

TablesNext ==
  \/ InsertRow
  \/ \E over \in SUBSET DOMAIN ProcOf, at \in Exits : WriteProcesses(over, at)
  \/ ExpireRaw

-----------------------------------------------------------------------------
(* Ranges.                                                                  *)

defaultStep(span) ==
  CASE span <= RAW_SPAN -> FINE_STEP [] span <= MINUTE_SPAN -> MINUTE [] span <= QUARTER_SPAN -> QUARTER [] OTHER -> HOUR

\* The step of a bucket: no finer than the table or the number of points
\* allows, a nice one if there is one, or else whole days.
niceStep(wanted) ==
  LET nice == {s \in NICE_STEPS : s >= wanted} IN IF nice = {} THEN Ceil(wanted, DAY) ELSE Min(nice)
stepOf(step, span, least) == niceStep(Max({IF step = Missing THEN defaultStep(span) ELSE step, least, Ceil((span + MAX_POINTS - 1) \div MAX_POINTS, SECOND)}))
rangeOf(from, to, step) ==
  IF to - from <= RAW_SPAN THEN [from |-> from, to |-> to, table |-> "flows", step |-> stepOf(step, to - from, SECOND)]
  ELSE [from |-> from, to |-> to, table |-> "flows_1m", step |-> Ceil(stepOf(step, to - from, MINUTE), MINUTE)]

\* parseRange of a request [from, to, step] whose fields may be Missing.
parseRange(q, now) ==
  LET to == IF q.to = Missing THEN now ELSE q.to
  IN  rangeOf(Larger(IF q.from = Missing THEN to - DEFAULT_SPAN ELSE q.from, to - MAX_SPAN), to, q.step)

\* Mutant: the first bucket begins where the range does.
alignRange_Not(r) == r

alignRange(r) == [r EXCEPT !.from = Floor(@, r.step)]
rawRange(r) == alignRange([r EXCEPT !.table = "flows"])

bucketCount(r) == Larger(1, Ceil(r.to - r.from, r.step) \div r.step)
Start(r, i) == r.from + (i - 1) * r.step

\* The time of a bucket that the range covers.
coveredSeconds(r, i) ==
  LET dataEnd == IF r.table = "flows" THEN r.to ELSE Ceil(r.to, MINUTE)
  IN  Smaller(Start(r, i) + r.step, Larger(dataEnd, Start(r, i))) - Start(r, i)

kbps(bytes, ms) == IF ms > 0 THEN Nearest(8 * SECOND * bytes, ms) ELSE 0
perSecond(calls, ms) == IF ms > 0 THEN Nearest(1000 * SECOND * calls, ms) ELSE 0

-----------------------------------------------------------------------------
(* What a query reads.                                                      *)

Table(r) == IF r.table = "flows" THEN raw ELSE rolled
Time(r, i) == IF r.table = "flows" THEN Rows[i].ts ELSE Floor(Rows[i].ts, MINUTE)

timeFilter(r, i) ==
  IF r.table = "flows" THEN Rows[i].ts >= r.from /\ Rows[i].ts < r.to
  ELSE Time(r, i) >= Floor(r.from, SECOND) /\ Time(r, i) < Floor(r.to, SECOND)

\* Mutant: without the minute that from falls in.
flowTime_Exact(r, i) == Time(r, i) >= r.from /\ Time(r, i) < r.to

\* The condition of /flows and /scatter: with the minute that from falls in.
flowTime(r, i) ==
  IF r.table = "flows" THEN Rows[i].ts >= r.from /\ Rows[i].ts < r.to
  ELSE Time(r, i) >= Floor(r.from, MINUTE) /\ Time(r, i) < r.to

\* flowSource: the rollup takes the uid from processes.
Uid(r, i) ==
  IF r.table = "flows" \/ \E p \in processes : p.id = Rows[i].id THEN ProcOf[Rows[i].id].uid ELSE UNKNOWN_UID

Dim(r, i, by) ==
  CASE by = "name" -> Rows[i].name [] by = "app" -> Rows[i].app [] by = "dest" -> Rows[i].dest
    [] by = "uid" -> Uid(r, i) [] by = "proto" -> Rows[i].proto [] by = "id" -> Rows[i].id

\* filterSql: a filter is a function from some dimensions to values.
Passes(r, i, filters) == \A d \in DOMAIN filters : Dim(r, i, d) = filters[d]

From(r, filters) == {i \in Table(r) : timeFilter(r, i) /\ Passes(r, i, filters)}
Near(r, filters) == {i \in Table(r) : flowTime(r, i) /\ Passes(r, i, filters)}

-----------------------------------------------------------------------------
(* /summary, /flows, /throughput.                                           *)

\* ORDER BY bytes DESC, of groups with bytes.
LargestFirst(of, dir) == Ranked([k \in DOMAIN of |-> Bytes(dir, of[k])], {k \in DOMAIN of : Bytes(dir, of[k]) > 0})
LargestTuples(of, dir) == RankedTuples([k \in DOMAIN of |-> Bytes(dir, of[k])], {k \in DOMAIN of : Bytes(dir, of[k]) > 0})

summaryOf(S) == [tx |-> Bytes("tx", S), rx |-> Bytes("rx", S), processes |-> Cardinality({Rows[i].id : i \in S})]
summary(r, filters) == summaryOf(From(r, filters))

\* The instance with most bytes in S.
busiest(S) ==
  LET bytes(id) == Bytes("both", {i \in S : Rows[i].id = id})
  IN  Min({id \in {Rows[i].id : i \in S} : \A j \in S : bytes(id) >= bytes(Rows[j].id)})

\* Bytes per (name, app, dest, proto), the largest first, with the busiest instance.
flowRow(k, S) == [name |-> k[1], app |-> k[2], dest |-> k[3], proto |-> k[4], tx |-> Bytes("tx", S), rx |-> Bytes("rx", S), id |-> busiest(S)]
flowRows(of, all, limit) ==
  [flows |-> Memo([n \in DOMAIN Take(all, limit) |-> flowRow(all[n], of[all[n]])]), truncated |-> Len(all) > limit]
flowsOf(of, limit) == flowRows(of, LargestTuples(of, "both"), limit)
flows(r, filters, limit) ==
  flowsOf(Group(Near(r, filters), LAMBDA i : <<Rows[i].name, Rows[i].app, Rows[i].dest, Rows[i].proto>>), limit)

\* The rows of a query by the start of their bucket.
bucketSeconds(r, S) == Group(S, LAMBDA i : Floor(Time(r, i), r.step))
\* Those of the n-th bucket of r; none when the query has no row for it.
Cell(rows, r, n) == IF Start(r, n) \in DOMAIN rows THEN rows[Start(r, n)] ELSE {}

\* The rows of each of the top keys, the others' under THROUGHPUT_OTHER.
TopAndRest(of, tops) ==
  LET rest == UNION {of[k] : k \in DOMAIN of \ tops}
  IN  [k \in tops \cup (IF rest = {} THEN {} ELSE {THROUGHPUT_OTHER}) |-> IF k = THROUGHPUT_OTHER THEN rest ELSE of[k]]
Topped(of, dir, top) == TopAndRest(of, Range(Take(LargestFirst(of, dir), top)))
throughputQuery(r, by, dir, top, filters) == Topped(Group(From(r, filters), LAMBDA i : Dim(r, i, by)), dir, top)

\* Keys by their total, the rest last; a rate for every key and bucket.
buildThroughput(rows, r, dir) ==
  LET keys == Ranked([k \in DOMAIN rows |-> IF k = THROUGHPUT_OTHER THEN -1 ELSE Bytes(dir, rows[k])], DOMAIN rows)
      cells == Memo([k \in DOMAIN rows |-> bucketSeconds(r, rows[k])])
      rate(d) == Memo([k \in DOMAIN rows |->
                   Memo([n \in 1 .. bucketCount(r) |-> kbps(Bytes(d, Cell(cells[k], r, n)), coveredSeconds(r, n))])])
  IN  [r |-> r, keys |-> keys, tx |-> rate("tx"), rx |-> rate("rx")]

throughputOf(r, by, dir, top, filters) == buildThroughput(throughputQuery(r, by, dir, top, filters), r, dir)
throughput(r0, by, dir, top, filters) == throughputOf(alignRange(r0), by, dir, top, filters)

\* The rows of each bucket; the unknown share of their bytes.
unknownQuery(r, filters) == bucketSeconds(r, From(r, filters))
shareOf(unk, total) ==
  [bytes |-> unk, total |-> total, share |-> IF total > 0 THEN Nearest(10000 * unk, total) ELSE Missing]
buildUnknown(rows, r) ==
  Memo([n \in 1 .. bucketCount(r) |->
     shareOf(Bytes("both", {i \in Cell(rows, r, n) : Rows[i].app = UNKNOWN_APP}), Bytes("both", Cell(rows, r, n)))])
unknownOf(r, filters) == buildUnknown(unknownQuery(r, filters), r)
unknown(r0, filters) == unknownOf(alignRange(r0), filters)

callsQuery(r, filters) == bucketSeconds(r, From(r, filters))
buildCalls(rows, r) ==
  [dir \in {"tx", "rx"} |->
     Memo([n \in 1 .. bucketCount(r) |-> perSecond(Calls(dir, Cell(rows, r, n)), coveredSeconds(r, n))])]
callsOf(r, filters) == buildCalls(callsQuery(r, filters), r)
calls(r0, filters) == callsOf(alignRange(r0), filters)

\* The ghost: the window an offset earlier, shifted onto buckets of whole
\* minutes, from the rollup whatever the range reads.
compareStep(r) == Larger(MINUTE, Ceil(r.step, MINUTE))
Ghost(r) == [r EXCEPT !.from = Floor(@, compareStep(r)), !.step = compareStep(r), !.table = "flows_1m"]
compareQuery(g, offset, filters) ==
  Group({i \in rolled : /\ Time(g, i) >= Floor(g.from - offset, SECOND) /\ Time(g, i) < Floor(g.to - offset, SECOND)
                        /\ Passes(g, i, filters)},
        LAMBDA i : Floor(Time(g, i) + offset, g.step))
\* The buckets before the rollup's first minute are Missing, one that it cuts
\* is divided by the time it covers.
compareCell(S, dir, g, start, since) ==
  IF start + g.step <= since THEN Missing
  ELSE kbps(Bytes(dir, S), Larger(0, Smaller(start + g.step, Larger(Ceil(g.to, MINUTE), start)) - Larger(start, since)))
buildCompare(rows, g, since) ==
  [r |-> g, since |-> since,
   rates |-> [dir \in {"tx", "rx"} |->
                Memo([n \in 1 .. bucketCount(g) |-> compareCell(Cell(rows, g, n), dir, g, Start(g, n), since)])]]
compareOf(g, offset, filters, first) ==
  IF first = Missing \/ first >= g.to - offset THEN Missing
  ELSE buildCompare(compareQuery(g, offset, filters), g, Larger(g.from, first + offset))
compare(r0, offset, filters) ==
  compareOf(Ghost(alignRange(r0)), offset, filters, IF rolled = {} THEN Missing ELSE Floor(Rows[Min(rolled)].ts, MINUTE))
=============================================================================
