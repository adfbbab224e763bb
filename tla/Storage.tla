------------------------------ MODULE Storage -------------------------------
(***************************************************************************)
(* The Storage page and the server code behind it: routes/storage.ts,      *)
(* storage/redis.ts, storage/clickhouse.ts, StoragePage.tsx,               *)
(* StorageTable.tsx and DeleteDialog.tsx.  The page lists what Redis and   *)
(* ClickHouse keep, per day or partition, and deletes days or partitions   *)
(* after a password.  Every await of a handler ends an action, so the      *)
(* collector, ClickHouse's own expiry and other dashboards interleave.     *)
(*                                                                         *)
(* A size is left out: a row is its key.  A day of Redis is the day a      *)
(* process ended on in a timezone; DayOf gives it.                         *)
(***************************************************************************)
EXTENDS Route, Naturals, FiniteSets, Sequences, Functions

CONSTANTS
  Procs,        \* process instances (pid:start_ns)
  Living,       \* those that have not ended when the page opens
  Tzs,          \* timezones of the dashboards
  BrowserTz,    \* this page's timezone
  DayOf,        \* DayOf[tz][p]: the day p ended on
  Parts,        \* partitions of the table flows
  CacheMs,      \* how long a scan is served from the cache
  MaxFails, FailWindow,
  MaxTime,      \* bound: the clock
  MaxAsks,      \* bound: requests of this page
  MaxUpsets,    \* bound: processes that begin again, and that reach their time to live
  Calm,         \* bound: they do so only while little else happens
  Null

ASSUME StorageAssumption ==
  /\ DayOf \in [Tzs -> [Procs -> UNION {Range(DayOf[tz]) : tz \in Tzs}]]
  /\ BrowserTz \in Tzs /\ Living \subseteq Procs
  /\ {CacheMs, MaxFails, FailWindow, MaxTime, MaxAsks, MaxUpsets} \subseteq Nat

VARIABLES
  clock,        \* Date.now()
  index,        \* netwatch:ended
  hash,         \* processes whose keys netwatch:proc:ID exist
  alive,        \* netwatch:alive
  parts,        \* partitions of flows in system.parts
  cache,        \* the last scan: [tz, at, days], or Null
  scans,        \* scans of Redis in flight: [nonce, tz, parts, ended]
  fails,        \* times of wrong passwords
  del,          \* the delete the server is working on, or Null
  pageData,     \* useQuery: [nonce, loading, data]
  selected,     \* selected[s]: keys checked in the table of store s
  dialog,       \* the open dialog: [store, keys, busy], or Null
  rewritten,    \* what was written since the last delete of it read the store
  began,        \* processes that were alive again after they had ended
  aged          \* processes whose time to live has passed

server == <<cache, scans, fails, del, rewritten, began, aged>>
stores == <<index, hash, alive, parts>>
page == <<pageData, selected, dialog>>
storageVars == <<clock, stores, server, page>>

Stores == {"clickhouse", "redis"}
Days(tz, procs) == {DayOf[tz][p] : p \in procs}
RowsOf(s) == IF pageData.data = Null THEN {} ELSE pageData.data[s]

\* The two stores meet only in the page: at first one of them is empty.
StorageInit ==
  /\ clock = 0
  /\ hash \in {Procs, {}} /\ alive = hash \cap Living /\ index = hash \ Living
  /\ parts = IF hash = {} THEN Parts ELSE {}
  /\ cache = Null /\ scans = {} /\ fails = << >> /\ del = Null
  /\ pageData = [nonce |-> 0, loading |-> FALSE, data |-> Null]
  /\ selected = [s \in Stores |-> {}]
  /\ dialog = Null
  /\ rewritten = {} /\ began = {} /\ aged = {}

-----------------------------------------------------------------------------
(* The stores change under the page.                                        *)

\* Bound: when Calm, a process begins again or reaches its time to live only
\* while a delete is asked for, before the clock moved or a call failed, and
\* while the list is not being read; from then on neither the clock nor another
\* dashboard moves.
Upset == began \cup aged
MayUpset(p) ==
  /\ Calm => dialog # Null /\ scans = {} /\ clock = 0 /\ fails = << >>
  /\ Cardinality(Upset \cup {p}) <= MaxUpsets

StorageClock ==
  /\ clock < MaxTime
  /\ Calm => Upset = {}
  /\ clock' = clock + 1
  /\ UNCHANGED <<stores, server, page>>

\* The Redis sink writes a process in one MULTI: its hash, and its index entry
\* if it is over, its place among the living if not.  A process that ended is
\* written again by a later tick that still lists it; one the aggregator has
\* forgotten may be alive again, and its index entry stays.
CollectorWrites(p, over) ==
  /\ p \in alive \cup index \/ (del # Null /\ p \in del.asked)
  /\ over \/ p \in alive \/ MayUpset(p)
  /\ alive' = IF over THEN alive \ {p} ELSE alive \cup {p}
  /\ index' = IF over THEN index \cup {p} ELSE index
  /\ hash' = hash \cup {p}
  /\ rewritten' = rewritten \cup IF del = Null THEN {} ELSE del.asked \cap {p}
  /\ began' = IF over \/ p \in alive THEN began ELSE began \cup {p}
  /\ UNCHANGED <<clock, parts, cache, scans, fails, del, aged, page>>

\* --ended-ttl-secs after a process ended the sink prunes its index entry, and
\* its keys expire: those of one that is alive again too.
Ages(p, pruned) ==
  /\ p \in IF pruned THEN index ELSE hash \cap (index \cup began \cup aged)
  /\ MayUpset(p)
  /\ index' = IF pruned THEN index \ {p} ELSE index
  /\ hash' = IF pruned THEN hash ELSE hash \ {p}
  /\ aged' = aged \cup {p}
  /\ UNCHANGED <<clock, alive, parts, cache, scans, fails, del, rewritten, began, page>>

\* ClickHouse drops a partition past its TTL.
PartitionExpires(k) ==
  /\ k \in parts
  /\ parts' = parts \ {k}
  /\ UNCHANGED <<clock, index, hash, alive, server, page>>

\* The ClickHouse sink inserts rows, here of a partition that is being deleted:
\* the current one comes back.
InsertRows(k) ==
  /\ del # Null /\ del.store = "clickhouse" /\ k \in del.keys
  /\ parts' = parts \cup {k}
  /\ rewritten' = rewritten \cup {k}
  /\ UNCHANGED <<clock, index, hash, alive, cache, scans, fails, del, began, aged, page>>

-----------------------------------------------------------------------------
(* GET /api/storage.                                                        *)

Cached(tz) == cache # Null /\ cache.tz = tz /\ clock - cache.at < CacheMs

\* The page's fetch starts: useQuery's effect, and the handler up to the
\* first await of redisStorage.  ClickHouse was read before.  A scan served
\* from the cache answers at once; a store that is down is listed as empty.
Fetch(n, v) ==
  \E ch \in {parts, {}} :
    IF Cached(BrowserTz)
    THEN /\ pageData' = [v EXCEPT !.nonce = n, !.loading = FALSE,
                              !.data = [clickhouse |-> ch, redis |-> cache.days]]
         /\ scans' = scans
    ELSE /\ pageData' = [v EXCEPT !.nonce = n, !.loading = TRUE]
         /\ scans' = scans \cup {[nonce |-> n, tz |-> BrowserTz, parts |-> ch, ended |-> Null]}

\* The page opens, or its Refresh button, disabled while it loads.
Refresh ==
  /\ ~pageData.loading
  /\ pageData.nonce < MaxAsks
  /\ Fetch(pageData.nonce + 1, pageData)
  /\ UNCHANGED <<clock, stores, cache, fails, del, selected, dialog, rewritten, began, aged>>

\* Another dashboard asks, in another timezone; one in ours fills the cache as
\* our own fetch does.
OtherFetch(tz) ==
  /\ pageData.nonce < MaxAsks
  /\ ~Cached(tz)
  /\ Calm => Upset = {}
  /\ \A s \in scans : s.nonce # 0
  /\ scans' = scans \cup {[nonce |-> 0, tz |-> tz, parts |-> {}, ended |-> Null]}
  /\ UNCHANGED <<clock, stores, cache, fails, del, rewritten, began, aged, page>>

\* zRangeWithScores and sMembers have answered.
ScanIndex(s) ==
  /\ s.ended = Null
  /\ scans' = (scans \ {s}) \cup {[s EXCEPT !.ended = Days(s.tz, index)]}
  /\ UNCHANGED <<clock, stores, cache, fails, del, rewritten, began, aged, page>>

\* The last MEMORY USAGE has answered, or a command failed.  The scan is
\* cached and, unless the page has asked again since, shown.
ScanDone(s, ok) ==
  /\ s.ended # Null
  /\ scans' = scans \ {s}
  /\ cache' = IF ok THEN [tz |-> s.tz, at |-> clock, days |-> s.ended] ELSE cache
  /\ pageData' = IF s.nonce = 0 \/ s.nonce # pageData.nonce THEN pageData
             ELSE [pageData EXCEPT !.loading = FALSE,
                               !.data = [clickhouse |-> s.parts, redis |-> IF ok THEN s.ended ELSE {}]]
  /\ UNCHANGED <<clock, stores, fails, del, selected, dialog, rewritten, began, aged>>

-----------------------------------------------------------------------------
(* The page's table and dialog.                                             *)

Toggle(s, key) ==
  /\ pageData.nonce < MaxAsks
  /\ key \in RowsOf(s)
  /\ dialog = Null
  /\ selected' = [selected EXCEPT ![s] = IF key \in @ THEN @ \ {key} ELSE @ \cup {key}]
  /\ UNCHANGED <<clock, stores, server, pageData, dialog>>

\* The checkbox in the header: on selects the rows shown, off nothing.
ToggleAll(s) ==
  /\ pageData.nonce < MaxAsks
  /\ RowsOf(s) # {}
  /\ dialog = Null
  /\ selected' = [selected EXCEPT ![s] = IF RowsOf(s) \subseteq @ THEN {} ELSE RowsOf(s)]
  /\ UNCHANGED <<clock, stores, server, pageData, dialog>>

\* ask: the request names all keys, though the dialog lists only those still in
\* the table.
Ask(s, keys) ==
  /\ pageData.nonce < MaxAsks
  /\ dialog = Null
  /\ RowsOf(s) # {}
  /\ keys # {} /\ (keys = selected[s] \/ \E k \in RowsOf(s) : keys = {k})
  /\ dialog' = [store |-> s, keys |-> keys, busy |-> FALSE]
  /\ UNCHANGED <<clock, stores, server, pageData, selected>>

Cancel ==
  /\ dialog # Null /\ ~dialog.busy
  /\ dialog' = Null
  /\ UNCHANGED <<clock, stores, server, pageData, selected>>

-----------------------------------------------------------------------------
(* POST /api/storage/delete.                                                *)

Recent(ts) == SelectSeq(ts, LAMBDA t : clock - t < FailWindow)

Refuse == dialog' = [dialog EXCEPT !.busy = FALSE]

\* The dialog posts; the handler up to its first await.
Submit(right) ==
  LET recent == Recent(fails) IN
  /\ dialog # Null /\ ~dialog.busy
  /\ del = Null /\ pageData.nonce < MaxAsks
  /\ \/ /\ Len(recent) >= MaxFails                      \* 429
        /\ fails' = recent
        /\ Refuse
        /\ UNCHANGED del
     \/ /\ Len(recent) < MaxFails
        /\ ~right                                       \* 403
        /\ fails' = Append(recent, clock)
        /\ Refuse
        /\ UNCHANGED del
     \/ /\ Len(recent) < MaxFails
        /\ right
        /\ fails' = recent
        /\ dialog' = [dialog EXCEPT !.busy = TRUE]
        /\ del' = [store |-> dialog.store, keys |-> dialog.keys, pc |-> "read",
                   todo |-> {}, chunk |-> {}, asked |-> {}]
  /\ UNCHANGED <<clock, stores, cache, scans, rewritten, began, aged, pageData, selected>>

\* A rejected request: the dialog stays open with the message.
Fail ==
  /\ del' = Null
  /\ Refuse
  /\ UNCHANGED <<cache, pageData, selected>>

\* dropPartitions: every key must be a partition now.
DropRead ==
  /\ del # Null /\ del.store = "clickhouse" /\ del.pc = "read"
  /\ IF del.keys \subseteq parts
     THEN /\ del' = [del EXCEPT !.pc = "drop", !.todo = del.keys]
          /\ rewritten' = rewritten \cap Procs
          /\ UNCHANGED <<cache, page>>
     ELSE Fail /\ UNCHANGED rewritten
  /\ UNCHANGED <<clock, stores, scans, fails, began, aged>>

\* One ALTER TABLE DROP PARTITION; a failure ends the request with those
\* before it dropped.
DropPartition(k, ok) ==
  /\ del # Null /\ del.pc = "drop" /\ k \in del.todo
  /\ IF ok
     THEN /\ parts' = parts \ {k}
          /\ del' = [del EXCEPT !.todo = @ \ {k},
                                !.pc = IF del.todo = {k} THEN "reply" ELSE "drop"]
          /\ UNCHANGED <<cache, page>>
     ELSE /\ Fail
          /\ parts' = parts
  /\ UNCHANGED <<clock, index, hash, alive, scans, fails, rewritten, began, aged>>

\* Mutant: the days of another timezone.
Doomed_OtherTz == {p \in index : \E tz \in Tzs : DayOf[tz][p] \in del.keys}

\* deleteEndedDays reads the index, or Redis is not connected.
Doomed == {p \in index : DayOf[BrowserTz][p] \in del.keys}

IndexRead(ok) ==
  /\ del # Null /\ del.store = "redis" /\ del.pc = "read"
  /\ IF ok
     THEN /\ del' = [del EXCEPT !.pc = IF Doomed = {} THEN "forget" ELSE "unlink",
                                !.todo = Doomed, !.asked = Doomed]
          /\ rewritten' = rewritten \ Doomed
          /\ UNCHANGED <<cache, page>>
     ELSE Fail /\ UNCHANGED rewritten
  /\ UNCHANGED <<clock, stores, scans, fails, began, aged>>

\* UNLINK of a chunk of one process.  A command that is rejected ends the
\* request; it may have run and lost its reply.
Unlink(p, ran, ok) ==
  /\ del # Null /\ del.pc = "unlink" /\ p \in del.todo
  /\ ok => ran
  /\ hash' = IF ran THEN hash \ {p} ELSE hash
  /\ IF ok THEN /\ del' = [del EXCEPT !.pc = "zrem", !.chunk = {p}]
                /\ UNCHANGED <<cache, page>>
     ELSE Fail
  /\ UNCHANGED <<clock, index, alive, parts, scans, fails, rewritten, began, aged>>

\* Mutant: the index entries stay.
ZRem_Skipped(ran, ok) ==
  /\ del # Null /\ del.pc = "zrem"
  /\ ok => ran
  /\ index' = index
  /\ IF ok THEN /\ del' = [del EXCEPT !.todo = @ \ del.chunk,
                                      !.pc = IF del.todo = del.chunk THEN "forget" ELSE "unlink"]
                /\ UNCHANGED <<cache, page>>
     ELSE Fail
  /\ UNCHANGED <<clock, hash, alive, parts, scans, fails, rewritten, began, aged>>

\* ZREM of the same chunk.
ZRem(ran, ok) ==
  /\ del # Null /\ del.pc = "zrem"
  /\ ok => ran
  /\ index' = IF ran THEN index \ del.chunk ELSE index
  /\ IF ok THEN /\ del' = [del EXCEPT !.todo = @ \ del.chunk,
                                      !.pc = IF del.todo = del.chunk THEN "forget" ELSE "unlink"]
                /\ UNCHANGED <<cache, page>>
     ELSE Fail
  /\ UNCHANGED <<clock, hash, alive, parts, scans, fails, rewritten, began, aged>>

\* forgetRedisScan, then the rewrite of the append-only file is asked for.
Forget ==
  /\ del # Null /\ del.pc = "forget"
  /\ cache' = Null
  /\ del' = [del EXCEPT !.pc = "reply"]
  /\ UNCHANGED <<clock, stores, scans, fails, rewritten, began, aged, page>>

\* The answer reaches confirm: the dialog closes, the selection is cleared
\* and the list is read again; the fetch before it is aborted.
Reply ==
  /\ del # Null /\ del.pc = "reply"
  /\ del' = Null
  /\ dialog' = Null
  /\ selected' = [s \in Stores |-> {}]
  /\ Fetch(pageData.nonce + 1, pageData)
  /\ UNCHANGED <<clock, stores, cache, fails, rewritten, began, aged>>

StorageNext ==
  \/ StorageClock \/ Refresh \/ Cancel
  \/ \E p \in Procs, over \in BOOLEAN : CollectorWrites(p, over) \/ Ages(p, over)
  \/ \E p \in Procs, ran \in BOOLEAN, ok \in BOOLEAN : Unlink(p, ran, ok)
  \/ \E k \in Parts : PartitionExpires(k) \/ InsertRows(k) \/ \E ok \in BOOLEAN : DropPartition(k, ok)
  \/ \E tz \in Tzs \ {BrowserTz} : OtherFetch(tz)
  \/ \E s \in scans : ScanIndex(s) \/ \E ok \in BOOLEAN : ScanDone(s, ok)
  \/ \E s \in Stores : ToggleAll(s) \/ \E k \in RowsOf(s) : Toggle(s, k)
  \/ \E s \in Stores : \E keys \in {selected[s]} \cup {{k} : k \in RowsOf(s)} : Ask(s, keys)
  \/ \E right \in BOOLEAN : Submit(right)
  \/ DropRead \/ Forget \/ Reply
  \/ \E ran \in BOOLEAN, ok \in BOOLEAN : ZRem(ran, ok)
  \/ \E ok \in BOOLEAN : IndexRead(ok)

-----------------------------------------------------------------------------
(* Properties.                                                              *)

\* Deleting is exact, whatever is written meanwhile and wherever it fails.
\* While deleteEndedDays runs, the processes it unlinks ended on a day asked for
\* in this page's timezone, and only one that ended and began again can be
\* alive; when it answers, each of them is out of the keyspace and out of the
\* index, unless the collector wrote it again meanwhile.  A request that failed
\* part way left nothing out of reach: keys that are there are of a process
\* that is alive or in the index, where the next request finds it, unless it
\* was written during a delete or is past its time to live.  When
\* dropPartitions answers, no partition asked for is left, unless rows of it
\* were inserted meanwhile (storage/redis.ts:124-152,
\* storage/clickhouse.ts:78-106).
DeleteExact ==
  On("storage") =>
    /\ hash \ (index \cup alive) \subseteq rewritten \cup aged
    /\ del # Null =>
         IF del.store = "redis"
         THEN /\ Days(BrowserTz, del.asked) \subseteq del.keys
              /\ del.asked \cap alive \subseteq began
              /\ del.pc = "reply" => del.asked \cap (index \cup hash) \subseteq rewritten
         ELSE del.pc = "reply" => del.keys \cap parts \subseteq rewritten

=============================================================================
