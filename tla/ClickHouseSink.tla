--------------------------- MODULE ClickHouseSink ---------------------------
(***************************************************************************)
(* sink_clickhouse.rs: the task that buffers flow and process rows and     *)
(* inserts them in batches, and the two tables it fills.                   *)
(*                                                                         *)
(* Tick n carries at most one flow row, n, and a row for each changed      *)
(* process, whose state after tick n is n.  The version of a process row   *)
(* is the tick's wall-clock time TsOf[n].  An insert that fails may have   *)
(* stored a prefix of its rows: the connection can break after ClickHouse  *)
(* wrote a block and before the client saw the answer.                     *)
(***************************************************************************)
EXTENDS Naturals, FiniteSets, Sequences, SequencesExt

CONSTANTS
  Procs,      \* process instances
  MaxTicks,   \* bound: ticks that carry rows
  MaxRows,    \* max_buffered_rows
  ChanCap,    \* bound: ticks waiting in the channel
  TsOf        \* TsOf[n]: ts_ms of tick n

Ticks == 1..MaxTicks

ASSUME ClickHouseSinkAssumption ==
  /\ IsFiniteSet(Procs)
  /\ MaxTicks \in Nat /\ MaxRows \in Nat /\ ChanCap \in Nat
  /\ TsOf \in [Ticks -> Nat]

VARIABLES
  published,  \* number of ticks with rows so far
  chan,       \* the channel
  closed,     \* the collector dropped its sender
  done,       \* run() has returned
  flows,      \* buffered flow rows
  procs,      \* buffered process rows <<p, n>>
  schema_ok,
  up,         \* ClickHouse answers everything
  flowsTable, \* flowsTable[n]: copies of row n in netwatch.flows (2: or more)
  procsTable, \* rows of netwatch.processes
  received,   \* flow rows received
  latest,     \* latest[p]: the last state of p received, or 0
  discarded,  \* flow rows discarded by trim
  outdated    \* processes a row of which was discarded

sinkVars == <<done, flows, procs, schema_ok, flowsTable, procsTable, received, latest, discarded, outdated>>
vars == <<published, chan, closed, up, sinkVars>>

Beat == [id |-> 0, flow |-> FALSE, procs |-> {}]
IsTick(t) == t.id \in 0..MaxTicks /\ t.flow \in BOOLEAN /\ t.procs \subseteq Procs
Rows(s) == {s[k] : k \in DOMAIN s}

TypeOK ==
  /\ published \in 0..MaxTicks
  /\ \A k \in DOMAIN chan : IsTick(chan[k])
  /\ closed \in BOOLEAN /\ done \in BOOLEAN /\ schema_ok \in BOOLEAN /\ up \in BOOLEAN
  /\ Rows(flows) \subseteq Ticks
  /\ Rows(procs) \subseteq Procs \X Ticks
  /\ flowsTable \in [Ticks -> 0..2]
  /\ procsTable \subseteq Procs \X Ticks
  /\ received \subseteq Ticks
  /\ latest \in [Procs -> 0..MaxTicks]
  /\ discarded \subseteq Ticks
  /\ outdated \subseteq Procs

Init ==
  /\ published = 0
  /\ chan = << >>
  /\ closed = FALSE
  /\ done = FALSE
  /\ flows = << >>
  /\ procs = << >>
  /\ schema_ok = FALSE
  /\ up \in BOOLEAN
  /\ flowsTable = [n \in Ticks |-> 0]
  /\ procsTable = {}
  /\ received = {}
  /\ latest = [p \in Procs |-> 0]
  /\ discarded = {}
  /\ outdated = {}

-----------------------------------------------------------------------------
(* The collector and ClickHouse.                                            *)

Publish(flow, changed) ==
  /\ ~closed /\ published < MaxTicks /\ Len(chan) < ChanCap
  /\ published' = published + 1
  /\ chan' = Append(chan, [id |-> published', flow |-> flow, procs |-> changed])
  /\ UNCHANGED <<closed, up, sinkVars>>

\* A tick without traffic.
Quiet ==
  /\ ~closed /\ Len(chan) < ChanCap
  /\ chan' = Append(chan, Beat)
  /\ UNCHANGED <<published, closed, up, sinkVars>>

Close ==
  /\ ~closed
  /\ closed' = TRUE
  /\ UNCHANGED <<published, chan, up, sinkVars>>

Toggle ==
  /\ up' = ~up
  /\ UNCHANGED <<published, chan, closed, sinkVars>>

-----------------------------------------------------------------------------
(* The sink.                                                                *)

append_flows(t) == IF t.flow THEN Append(flows, t.id) ELSE flows
append_procs(t) == procs \o SetToSeq({<<p, t.id>> : p \in t.procs})

Received(t) ==
  /\ received' = IF t.flow THEN received \cup {t.id} ELSE received
  /\ latest' = [p \in Procs |-> IF p \in t.procs THEN t.id ELSE latest[p]]

\* Mutant: the newest rows are discarded.
trim_Newest(buf) == IF Len(buf) > MaxRows THEN SubSeq(buf, 1, MaxRows) ELSE buf
trim(buf) == IF Len(buf) > MaxRows THEN SubSeq(buf, Len(buf) - MaxRows + 1, Len(buf)) ELSE buf

Trimmed(fs, ps) ==
  /\ flows' = trim(fs)
  /\ procs' = trim(ps)
  /\ discarded' = discarded \cup (Rows(fs) \ Rows(flows'))
  /\ outdated' = outdated \cup {r[1] : r \in Rows(ps) \ Rows(procs')}

\* The first k rows of the buffer reach the table.
StoreFlows(fs, k) == flowsTable' = [n \in Ticks |->
  IF n \in Rows(SubSeq(fs, 1, k)) /\ flowsTable[n] < 2 THEN flowsTable[n] + 1 ELSE flowsTable[n]]
StoreProcs(ps, k) == procsTable' = procsTable \cup Rows(SubSeq(ps, 1, k))

\* apply_schema fails, so nothing is inserted.
NoSchema(fs, ps) ==
  /\ ~schema_ok /\ ~up
  /\ Trimmed(fs, ps)
  /\ UNCHANGED <<schema_ok, flowsTable, procsTable>>

\* Mutant: the schema is applied once, at startup, and not after an error.
FlushAll_SchemaOnce(fs, ps) ==
  /\ schema_ok
  /\ StoreFlows(fs, Len(fs)) /\ StoreProcs(ps, Len(ps))
  /\ Trimmed(<< >>, << >>)
  /\ UNCHANGED schema_ok

\* flush(): both inserts succeed.
FlushAll(fs, ps) ==
  /\ StoreFlows(fs, Len(fs))
  /\ StoreProcs(ps, Len(ps))
  /\ schema_ok' = TRUE
  /\ Trimmed(<< >>, << >>)

\* Mutant: flows.clear() before the insert is acknowledged.
FlowsFail_Clear(fs, ps) ==
  /\ ~up /\ fs # << >>
  /\ \E k \in 0..Len(fs) : StoreFlows(fs, k)
  /\ schema_ok' = FALSE
  /\ Trimmed(<< >>, ps)
  /\ UNCHANGED procsTable

\* flush(): the first insert fails and both buffers are kept.
FlowsFail(fs, ps) ==
  /\ ~up /\ fs # << >>
  /\ \E k \in 0..Len(fs) : StoreFlows(fs, k)
  /\ schema_ok' = FALSE
  /\ Trimmed(fs, ps)
  /\ UNCHANGED procsTable

\* flush(): the flow rows are stored, the second insert fails.
ProcsFail(fs, ps) ==
  /\ ~up /\ ps # << >>
  /\ StoreFlows(fs, Len(fs))
  /\ \E k \in 0..Len(ps) : StoreProcs(ps, k)
  /\ schema_ok' = FALSE
  /\ Trimmed(<< >>, ps)

Attempt(fs, ps) ==
  NoSchema(fs, ps) \/ FlushAll(fs, ps) \/ FlowsFail(fs, ps) \/ ProcsFail(fs, ps)

\* A tick before flush_every has passed.
Receive ==
  /\ chan # << >>
  /\ flows' = append_flows(Head(chan))
  /\ procs' = append_procs(Head(chan))
  /\ Received(Head(chan))
  /\ chan' = Tail(chan)
  /\ UNCHANGED <<published, closed, up, done, schema_ok, flowsTable, procsTable, discarded, outdated>>

\* A tick after flush_every has passed.
ReceiveAndFlush ==
  /\ chan # << >>
  /\ Received(Head(chan))
  /\ Attempt(append_flows(Head(chan)), append_procs(Head(chan)))
  /\ chan' = Tail(chan)
  /\ UNCHANGED <<published, closed, up, done>>

\* Mutant: run() returns when the channel closes, without a last flush.
Finish_NoFlush ==
  /\ closed /\ chan = << >> /\ ~done
  /\ done' = TRUE
  /\ UNCHANGED <<published, chan, closed, up, flows, procs, schema_ok, flowsTable, procsTable,
                 received, latest, discarded, outdated>>

\* The channel is closed and empty: one last attempt.
Finish ==
  /\ closed /\ chan = << >> /\ ~done
  /\ Attempt(flows, procs)
  /\ done' = TRUE
  /\ UNCHANGED <<published, chan, closed, up, received, latest>>

Next ==
  \/ \E flow \in BOOLEAN, changed \in SUBSET Procs : Publish(flow, changed)
  \/ Quiet \/ Close \/ Toggle
  \/ Receive \/ ReceiveAndFlush \/ Finish

Spec == Init /\ [][Next]_vars

\* Ticks keep coming until the channel is closed, and flush_every keeps
\* passing: of the ticks received, again and again one is due for a flush.
FairSpec == Spec /\ WF_vars(Quiet) /\ SF_vars(ReceiveAndFlush) /\ WF_vars(Finish)

-----------------------------------------------------------------------------
(* Properties.                                                              *)

\* netwatch.processes with FINAL: the row of p with the highest version.
Final(p) == {r \in procsTable : r[1] = p /\ \A q \in procsTable : q[1] = p => TsOf[q[2]] <= TsOf[r[2]]}

\* A flow row that was received is in the table, in the buffer, or was
\* discarded by trim; it is never dropped by a failing schema statement, a
\* failing insert or the order of the two inserts.  Once everything is flushed,
\* FINAL gives the last state received of every process whose rows were not
\* discarded ("Latest state of every process instance ever seen"): rows stored
\* twice or in a later batch change nothing.
RowsConserved ==
  /\ TypeOK
  /\ \A n \in received : flowsTable[n] > 0 \/ n \in Rows(flows) \/ n \in discarded
  /\ procs = << >> => \A p \in Procs \ outdated : latest[p] # 0 => Final(p) = {<<p, latest[p]>>}

\* "Oldest buffered rows are discarded beyond this while ClickHouse is down":
\* what is kept is newer than what is discarded, also when failed inserts and
\* later ticks alternate, and a burst larger than the limit is stored, not
\* trimmed, when ClickHouse answers.
OldestWhileDown ==
  [][/\ up => discarded' = discarded /\ outdated' = outdated
     /\ \A n \in discarded' \ discarded, k \in DOMAIN flows' : n < flows'[k]]_vars

\* At shutdown every tick still in the channel and every buffered row is
\* stored, if ClickHouse answers.
FlushedAtClose ==
  [][done' /\ ~done /\ up => /\ chan = << >>
                             /\ \A n \in received : flowsTable'[n] > 0 \/ n \in discarded
                             /\ procs' = << >>]_vars

\* "Rows are buffered in memory while ClickHouse is unavailable and flushed
\* once it is back."  Not so for what is left when run() has returned.
EventuallyFlushed ==
  <>[]up => []<>(done \/ (flows = << >> /\ procs = << >>))
=============================================================================
