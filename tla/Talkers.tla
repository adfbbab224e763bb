------------------------------ MODULE Talkers -------------------------------
(***************************************************************************)
(* The Live page's process table: the rows that TopTalkers.tsx shows of    *)
(* the polled snapshot, by the live ticks and the user's filters.  A       *)
(* process stands for its own name.                                        *)
(***************************************************************************)
EXTENDS HealthStrip, Lists

CONSTANTS
  Talking,        \* processes
  SPARK_MS, IDLE_MS, MAX_ROWS,
  MaxTicks,       \* bound: ticks of the collector
  MaxToggles      \* bound: clicks

VARIABLES
  table,     \* TopTalkers: [rows, names, off, q, idle, ended, sort]; rows: id -> [rate,
             \* ended]; off: hiddenNames; q: the processes that the filter matches
  toggles

talkVars == <<table, toggles>>

-----------------------------------------------------------------------------
(* TopTalkers.                                                              *)

\* The ticks of the sparkline; of each process, their sum and the last with traffic.
buildSparks(ticks, ids) ==
  LET held == SelectSeq(ticks, LAMBDA t : t.ts > Last(ticks).ts - SPARK_MS)
      at(id) == {t \in Range(held) : id \in t.active}
  IN  [id \in ids |-> [sum |-> Cardinality(at(id)),
                       lastActiveTs |-> IF at(id) = {} THEN NoTick ELSE Max({t.ts : t \in at(id)})]]

isIdle(row, spark, ticks) ==
  /\ ~row.ended /\ row.rate = 0
  /\ spark.lastActiveTs = NoTick \/ Last(ticks).ts - spark.lastActiveTs >= IDLE_MS

\* Mutant: the list of names is that of the snapshot.
appendNames_Snapshot(known, rows) == Ordered(DOMAIN rows, <)

\* appendNames: names seen for the first time, sorted, after the known ones.
appendNames(known, rows) == known \o Ordered(DOMAIN rows \ Range(known), <)

nextSort(cur, key) == IF cur.key = key THEN [cur EXCEPT !.desc = ~@] ELSE [key |-> key, desc |-> TRUE]

sortRows(rows, ids, sort, sparks) ==
  LET value(id) == IF sort.key = "rate" THEN rows[id].rate ELSE sparks[id].sum
      ahead(a, b) == IF sort.desc THEN value(a) > value(b) ELSE value(a) < value(b)
  IN  Ordered(ids, LAMBDA a, b : ahead(a, b) \/ (value(a) = value(b) /\ a < b))

\* The rows shown, and how many each filter leaves out.
visibleRows(tb, ticks) ==
  LET all == DOMAIN tb.rows
      sparks == buildSparks(ticks, all)
      named == all \ tb.off
      matched == named \cap tb.q
      current == IF tb.ended THEN {id \in matched : ~tb.rows[id].ended} ELSE matched
      shown == IF tb.idle THEN {id \in current : ~isIdle(tb.rows[id], sparks[id], ticks)} ELSE current
      sorted == sortRows(tb.rows, shown, tb.sort, sparks)
  IN  [visible |-> Take(sorted, MAX_ROWS), overflow |-> Len(Rest(sorted, MAX_ROWS)),
       byName |-> Cardinality(all \ named), filtered |-> Cardinality(named \ matched),
       ended |-> Cardinality(matched \ current), idle |-> Cardinality(current \ shown)]

-----------------------------------------------------------------------------

TalkInit ==
  /\ StripInit
  /\ table = [rows |-> [id \in {} |-> [rate |-> 0, ended |-> FALSE]], names |-> << >>, off |-> {},
              q |-> Talking, idle |-> TRUE, ended |-> FALSE, sort |-> [key |-> "rate", desc |-> TRUE]]
  /\ toggles = 0

ProcessEnds(id) ==
  /\ id \notin host.ended
  /\ host' = [host EXCEPT !.ended = @ \cup {id}]
  /\ UNCHANGED <<ring, strip, opening, talkVars>>

\* The rows of the latest snapshot: the processes that are live, and some of
\* those that ended lately.
snapshotRows(gone) ==
  [id \in (Talking \ host.ended) \cup gone |->
     [rate |-> IF id \in host.active \ host.ended THEN 1 ELSE 0, ended |-> id \in host.ended]]

\* useSnapshot's poll answers.
Snapshot(gone) ==
  /\ opening.open /\ host.ts > 0 /\ gone \subseteq host.ended
  /\ table' = [table EXCEPT !.rows = snapshotRows(gone), !.names = appendNames(@, snapshotRows(gone))]
  /\ UNCHANGED <<stripVars, toggles>>

\* A name's box, the filter, the switches for idle and ended rows, a column's header.
TableClick(tb) ==
  /\ toggles < MaxToggles /\ toggles' = toggles + 1
  /\ table' = tb
  /\ UNCHANGED stripVars

toggleName(id) == TableClick([table EXCEPT !.off = IF id \in @ THEN @ \ {id} ELSE @ \cup {id}])
setFilter(q) == TableClick([table EXCEPT !.q = q])
setIdle == TableClick([table EXCEPT !.idle = ~@])
setEnded == TableClick([table EXCEPT !.ended = ~@])
onSort(key) == TableClick([table EXCEPT !.sort = nextSort(@, key)])

\* The table reads no drops.
TableNext ==
  \/ \E active \in SUBSET Talking : host.ts < MaxTicks /\ HostTick(active, 0, TRUE) /\ UNCHANGED talkVars
  \/ PageOpens /\ UNCHANGED talkVars
  \/ \E id \in Talking : ProcessEnds(id)
  \/ \E gone \in SUBSET Talking : Snapshot(gone)
  \/ \E i \in DOMAIN table.names : toggleName(table.names[i])
  \/ \E q \in SUBSET Talking : setFilter(q)
  \/ setIdle \/ setEnded
  \/ \E key \in {"rate", "spark"} : onSort(key)

-----------------------------------------------------------------------------
(* Properties.                                                              *)

\* A live process that had traffic in a tick shown within IDLE_MS is in the table,
\* unless its name is unchecked, the filter does not match it or MAX_ROWS others are shown; and a name that is
\* unchecked stays in the list, where it can be checked again, whatever becomes
\* of its process (topTalkers.ts:60-94, TopTalkers.tsx:134-175).
TalkersShown ==
  On("talkers") =>
  LET v == visibleRows(table, ring) IN
  /\ ring # << >> => \A id \in (DOMAIN table.rows \cap table.q) \ table.off :
       ~table.rows[id].ended /\ (\E t \in Range(ring) : id \in t.active /\ Last(ring).ts - t.ts < IDLE_MS) =>
         id \in Range(v.visible) \/ Len(v.visible) = MAX_ROWS
  /\ table.off \subseteq Range(table.names)

=============================================================================
