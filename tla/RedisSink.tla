----------------------------- MODULE RedisSink ------------------------------
(***************************************************************************)
(* sink_redis.rs: the task that receives ticks over an unbounded channel   *)
(* and writes each of them to Redis in one MULTI/EXEC, and the keys it     *)
(* writes.  The ticks come from the aggregator: what it lists, what it     *)
(* flags as changed and what it forgets follows the Aggregator module.     *)
(*                                                                         *)
(* A process total is a small number.  Each process has one destination,   *)
(* whose total is the process total, so the hash at netwatch:proc:ID:dests *)
(* is that number, 0 when the key does not exist.                          *)
(***************************************************************************)
EXTENDS Naturals, Sequences

CONSTANTS
  Procs,      \* process instances (pid:start_ns)
  Returning,  \* those that may send after they were forgotten
  MaxTotal,   \* bound: traffic of a process
  QueueCap,   \* bound: ticks waiting in the channel
  NoHash

View == [ended : BOOLEAN, total : 0..MaxTotal]
Listings == UNION {[S -> View] : S \in SUBSET Procs}

ASSUME RedisSinkAssumption ==
  /\ MaxTotal \in Nat
  /\ QueueCap \in Nat
  /\ Returning \subseteq Procs
  /\ NoHash \notin View \cup Listings

VARIABLES
  known,      \* processes the aggregator lists
  view,       \* view[p]: the state of process p in the aggregator
  hot,        \* processes whose last published rate is not 0
  back,       \* processes that were forgotten and came back
  queue,      \* the channel
  con,        \* the sink holds a connection
  full_sync,
  dead,       \* Redis was restarted and the connection does not know yet
  snapshot,   \* netwatch:snapshot: the processes it lists, or NoHash
  hash,       \* hash[p]: netwatch:proc:p, or NoHash
  ttl,        \* keys of hash with an expiry
  dests,      \* dests[p]: netwatch:proc:p:dests
  destsTtl,   \* keys of dests with an expiry
  alive,      \* netwatch:alive
  ended,      \* netwatch:ended
  old         \* processes whose last end in Redis is --ended-ttl-secs ago

collector == <<known, view, hot, back>>
sink == <<queue, con, full_sync>>
redis == <<snapshot, hash, ttl, dests, destsTtl, alive, ended>>
vars == <<collector, sink, dead, redis, old>>

\* A tick: the listed processes with their views, the changed ones, and the
\* processes whose destination total changed.
IsTick(t) ==
  /\ DOMAIN t.procs \subseteq Procs
  /\ \A p \in DOMAIN t.procs : t.procs[p] \in View
  /\ t.changed \subseteq DOMAIN t.procs
  /\ t.dests \subseteq t.changed

TypeOK ==
  /\ known \subseteq Procs
  /\ view \in [Procs -> View]
  /\ hot \subseteq known
  /\ back \subseteq Procs
  /\ \A n \in DOMAIN queue : IsTick(queue[n])
  /\ con \in BOOLEAN
  /\ full_sync \in BOOLEAN
  /\ dead \in BOOLEAN
  /\ snapshot = NoHash \/ DOMAIN snapshot \subseteq Procs
  /\ hash \in [Procs -> View \cup {NoHash}]
  /\ ttl \subseteq {p \in Procs : hash[p] # NoHash}
  /\ dests \in [Procs -> 0..MaxTotal]
  /\ destsTtl \subseteq {p \in Procs : dests[p] # 0}
  /\ alive \subseteq Procs
  /\ ended \subseteq Procs
  /\ old \subseteq Procs

NewProc == [ended |-> FALSE, total |-> 0]

Init ==
  /\ known = {}
  /\ view = [p \in Procs |-> NewProc]
  /\ hot = {}
  /\ back = {}
  /\ queue = << >>
  /\ con = FALSE
  /\ full_sync = TRUE
  /\ dead = FALSE
  /\ snapshot = NoHash
  /\ hash = [p \in Procs |-> NoHash]
  /\ ttl = {}
  /\ dests = [p \in Procs |-> 0]
  /\ destsTtl = {}
  /\ alive = {}
  /\ ended = {}
  /\ old = {}

-----------------------------------------------------------------------------
(* The aggregator.  A tick has traffic of the processes in busy, marks those *)
(* in ends as ended and, after listing them, forgets those in forgets, which *)
(* ended a while ago.  Traffic of a forgotten process (a thread that outlives *)
(* its leader, a process the sweep misread) makes a new entry for it.        *)

Tick(busy, ends, forgets) ==
  LET now == known \cup busy
      was(p) == IF p \in known THEN view[p] ELSE NewProc
      is(p) == [ended |-> was(p).ended \/ p \in ends,
                total |-> IF p \in busy THEN was(p).total + 1 ELSE was(p).total] IN
  /\ Len(queue) < QueueCap
  /\ \A p \in busy : was(p).total < MaxTotal
  /\ {p \in busy \ known : view[p].total > 0} \subseteq Returning
  /\ ends \subseteq {p \in now : ~was(p).ended}
  /\ forgets \subseteq {p \in now : is(p).ended}
  /\ queue' = Append(queue, [procs |-> [p \in now |-> is(p)],
                             changed |-> hot \cup busy \cup ends, dests |-> busy])
  /\ known' = now \ forgets
  /\ view' = [p \in Procs |-> IF p \in now THEN is(p) ELSE view[p]]
  /\ hot' = busy \ forgets
  /\ back' = back \cup {p \in busy \ known : view[p].total > 0}
  /\ UNCHANGED <<con, full_sync, dead, redis, old>>

-----------------------------------------------------------------------------
(* The sink.                                                                *)

\* Mutant: no EXPIRE for the destinations.
Exec_NoDestsExpire(t, full, prune) ==
  LET rows == IF full THEN DOMAIN t.procs ELSE t.changed
      over == {p \in rows : t.procs[p].ended} IN
  /\ snapshot' = t.procs
  /\ hash' = [p \in Procs |-> IF p \in rows THEN t.procs[p] ELSE hash[p]]
  /\ alive' = ((IF full THEN {} ELSE alive) \cup rows) \ over
  /\ ttl' = ttl \cup over
  /\ dests' = [p \in Procs |-> IF p \in t.dests THEN t.procs[p].total ELSE dests[p]]
  /\ ended' = (ended \cup over) \ (IF prune THEN old \ over ELSE {})
  /\ old' = old \ over
  /\ UNCHANGED destsTtl

\* build(): the commands of one MULTI/EXEC, in order.  EXPIRE on a key that
\* does not exist does nothing, and the destination hashes are written last.
\* ZADD and EXPIRE renew the time to live of a process that ended again; for a
\* live one nothing takes back an earlier ZADD or EXPIRE.
Exec(t, full, prune) ==
  LET rows == IF full THEN DOMAIN t.procs ELSE t.changed
      over == {p \in rows : t.procs[p].ended} IN
  /\ snapshot' = t.procs
  /\ hash' = [p \in Procs |-> IF p \in rows THEN t.procs[p] ELSE hash[p]]
  /\ alive' = ((IF full THEN {} ELSE alive) \cup rows) \ over
  /\ ttl' = ttl \cup over
  /\ destsTtl' = destsTtl \cup {p \in over : dests[p] # 0}
  /\ dests' = [p \in Procs |-> IF p \in t.dests THEN t.procs[p].total ELSE dests[p]]
  /\ ended' = (ended \cup over) \ (IF prune THEN old \ over ELSE {})
  /\ old' = old \ over

\* ConnectionManager::new fails and the tick is skipped.
ConnectFails ==
  /\ queue # << >>
  /\ ~con
  /\ queue' = Tail(queue)
  /\ UNCHANGED <<collector, con, full_sync, dead, redis, old>>

\* A connection (a new one means a full sync) and a write that succeeds.
Write(prune) ==
  /\ queue # << >>
  /\ con => ~dead
  /\ Exec(Head(queue), full_sync \/ ~con, prune)
  /\ queue' = Tail(queue)
  /\ con' = TRUE
  /\ full_sync' = FALSE
  /\ dead' = FALSE
  /\ UNCHANGED collector

\* Mutant: a failed write does not ask for a full sync.
WriteFails_KeepDelta(ran, dropped) ==
  /\ queue # << >>
  /\ dead => dropped \/ ~con
  /\ IF ran THEN /\ ~(dead /\ con) /\ dropped
                 /\ \E prune \in BOOLEAN : Exec(Head(queue), full_sync \/ ~con, prune)
     ELSE UNCHANGED <<redis, old>>
  /\ queue' = Tail(queue)
  /\ con' = ~dropped
  /\ dead' = FALSE
  /\ UNCHANGED <<collector, full_sync>>

\* A write that fails: refused by the server (the connection stays), cut off
\* before it ran, or run with its reply lost.
WriteFails(ran, dropped) ==
  /\ queue # << >>
  /\ dead => dropped \/ ~con
  /\ IF ran THEN /\ ~(dead /\ con) /\ dropped
                 /\ \E prune \in BOOLEAN : Exec(Head(queue), full_sync \/ ~con, prune)
     ELSE UNCHANGED <<redis, old>>
  /\ queue' = Tail(queue)
  /\ con' = ~dropped
  /\ full_sync' = TRUE
  /\ dead' = FALSE
  /\ UNCHANGED collector

-----------------------------------------------------------------------------
(* Redis.                                                                   *)

\* Redis restarts without its data.
Lose ==
  /\ ~dead
  /\ dead' = con
  /\ snapshot' = NoHash
  /\ hash' = [p \in Procs |-> NoHash]
  /\ dests' = [p \in Procs |-> 0]
  /\ ttl' = {} /\ destsTtl' = {} /\ alive' = {} /\ ended' = {}
  /\ UNCHANGED <<collector, sink, old>>

\* --ended-ttl-secs after p ended: it is long forgotten, or alive again.
Age(p) ==
  /\ p \notin old
  /\ IF p \in known THEN p \in back /\ ~view[p].ended ELSE view[p].ended
  /\ \A n \in DOMAIN queue : p \in DOMAIN queue[n].procs => ~queue[n].procs[p].ended
  /\ old' = old \cup {p}
  /\ UNCHANGED <<collector, sink, dead, redis>>

Expire(p) ==
  /\ p \in old /\ p \in ttl \cup destsTtl
  /\ hash' = [hash EXCEPT ![p] = IF p \in ttl THEN NoHash ELSE @]
  /\ dests' = [dests EXCEPT ![p] = IF p \in destsTtl THEN 0 ELSE @]
  /\ ttl' = ttl \ {p}
  /\ destsTtl' = destsTtl \ {p}
  /\ UNCHANGED <<collector, sink, dead, snapshot, alive, ended, old>>

Next ==
  \/ \E busy, ends, forgets \in SUBSET Procs : Tick(busy, ends, forgets)
  \/ ConnectFails
  \/ \E prune \in BOOLEAN : Write(prune)
  \/ \E ran, dropped \in BOOLEAN : WriteFails(ran, dropped)
  \/ Lose
  \/ \E p \in Procs : Age(p) \/ Expire(p)

Spec == Init /\ [][Next]_vars

-----------------------------------------------------------------------------
(* Properties.                                                              *)

\* A successful write: only Write clears full_sync.
Written == ~full_sync' /\ queue' # queue /\ queue # << >> /\ queue' = Tail(queue) /\ con'

\* "Readers never observe a half-written tick", and what they observe is one
\* tick: the process hashes and netwatch:alive are those of the snapshot,
\* whatever was skipped, refused, cut off or lost before.  The deltas and the
\* full syncs never leave a listed process with an older state; its hash is
\* missing only when its time to live has passed.  Unless it was forgotten and
\* came back, a live process has its hash, is not in netwatch:ended and has no
\* expiry.  Every ended process whose hash is there is in netwatch:ended until
\* its time to live has passed.
SnapshotAgrees ==
  /\ TypeOK
  /\ snapshot # NoHash =>
       /\ \A p \in DOMAIN snapshot : hash[p] = snapshot[p] \/ (hash[p] = NoHash /\ p \in old)
       /\ alive = {p \in DOMAIN snapshot : ~snapshot[p].ended}
  /\ \A p \in alive \ back : hash[p] # NoHash /\ p \notin ended
  /\ \A p \in Procs : hash[p] # NoHash =>
       /\ hash[p].ended /\ p \notin old => p \in ended
       /\ p \in ttl => hash[p].ended \/ p \in back

\* An ended process expires: once it is listed without a change, its hash and
\* its destinations have an expiry, although EXPIRE runs before the HSET that
\* may create the destinations.
EndedExpires ==
  [][Written => LET t == Head(queue) IN
       \A p \in DOMAIN t.procs \ t.changed : t.procs[p].ended =>
         p \in ttl' /\ (dests'[p] # 0 => p \in destsTtl')]_vars

\* The module comment: "Every write is an absolute value (never an increment),
\* so a reconnect or a skipped tick can never make the data drift."  For the
\* destination totals of the listed processes.
DestsNeverDrift ==
  [][Written => LET t == Head(queue) IN
       \A p \in DOMAIN t.procs : dests'[p] = t.procs[p].total]_vars
=============================================================================
