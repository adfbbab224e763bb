-------------------------- MODULE RedisSinkProofs ---------------------------
(* Proofs about RedisSink, for every set of processes, every bound on their *)
(* totals and every length of the channel.                                  *)
EXTENDS RedisSink, SequenceTheorems, TLAPS

\* The provers of a leaf that names none, in the order they are tried.
USE ZenonT(90), SMTT(30)

-----------------------------------------------------------------------------
(* The inductive invariant.                                                 *)

TickSet ==
  [procs : Listings, changed : SUBSET Procs, dests : SUBSET Procs]

TypeInv ==
  /\ TypeOK
  /\ queue \in Seq(TickSet)
  /\ \A n \in DOMAIN queue : \A p \in queue[n].dests : queue[n].procs[p].total > 0
  /\ snapshot = NoHash \/ snapshot \in Listings
  /\ \A p \in Procs : view[p].ended \/ p \in known => view[p].total > 0

\* Tick t says what changed since the processes were listed as in a.
Follows(a, t) ==
  /\ \A p \in DOMAIN t.procs \ t.changed : p \in DOMAIN a /\ a[p] = t.procs[p]
  /\ \A p \in DOMAIN a : ~a[p].ended => p \in DOMAIN t.procs

\* The processes listed as in a are the aggregator's: ks, with the views vs.
Current(a, ks, vs) ==
  /\ ks \subseteq DOMAIN a
  /\ \A p \in DOMAIN a : a[p] = vs[p] /\ (vs[p].ended \/ p \in ks)

\* The channel is a chain of deltas that ends in the aggregator's state.
QueueInv ==
  /\ \A n \in DOMAIN queue : n # 1 =>
       /\ Follows(queue[n - 1].procs, queue[n])
       /\ DOMAIN queue[n].procs \cap queue[n - 1].dests \subseteq queue[n].changed
  /\ queue # << >> => /\ Current(queue[Len(queue)].procs, known, view)
                      /\ known \cap queue[Len(queue)].dests \subseteq hot

\* Whoever has ended in tick m has ended in every later one, unless it came back.
EndedFrom(p, m) ==
  /\ view[p].ended
  /\ \A n \in DOMAIN queue : n >= m /\ p \in DOMAIN queue[n].procs => queue[n].procs[p].ended

EndedInv ==
  /\ \A m \in DOMAIN queue : \A p \in DOMAIN queue[m].procs \ back :
       queue[m].procs[p].ended => EndedFrom(p, m)
  /\ \A p \in Procs \ back : p \in ended \/ (hash[p] # NoHash /\ hash[p].ended) => EndedFrom(p, 1)

\* The next write is a delta on top of what is in Redis.
Synced == con /\ ~full_sync /\ ~dead

\* The expiry of p's destinations is missing, and the next tick supplies it.
Supplied(p) ==
  IF queue = << >> THEN p \in known => p \in hot
  ELSE p \in DOMAIN queue[1].procs => p \in queue[1].changed

\* A delta has p only if it wrote p.
Rewritten(p) ==
  IF queue = << >> THEN p \notin known
  ELSE p \in DOMAIN queue[1].procs => p \in queue[1].changed

SyncInv ==
  Synced =>
    /\ snapshot # NoHash
    /\ queue = << >> => Current(snapshot, known, view)
    /\ queue # << >> => Follows(snapshot, queue[1])
    /\ \A p \in DOMAIN snapshot \ old : snapshot[p].ended =>
         p \in ttl /\ (dests[p] = 0 \/ p \in destsTtl \/ Supplied(p))
    /\ \A p \in DOMAIN snapshot \cap old : snapshot[p].ended => Rewritten(p)

\* SnapshotAgrees without the types.
AgreeInv ==
  /\ snapshot # NoHash =>
       /\ \A p \in DOMAIN snapshot : hash[p] = snapshot[p] \/ (hash[p] = NoHash /\ p \in old)
       /\ alive = {p \in DOMAIN snapshot : ~snapshot[p].ended}
  /\ \A p \in alive \ back : hash[p] # NoHash /\ p \notin ended
  /\ \A p \in Procs : hash[p] # NoHash =>
       /\ hash[p].ended /\ p \notin old => p \in ended
       /\ p \in ttl => hash[p].ended \/ p \in back
  /\ snapshot = NoHash => alive = {}

Inv == TypeInv /\ AgreeInv /\ QueueInv /\ EndedInv /\ SyncInv

-----------------------------------------------------------------------------
(* Sequences and ticks.                                                     *)

\* The queue after a tick is pushed.
LEMMA AppendFacts ==
  ASSUME NEW S, NEW q \in Seq(S), NEW t \in S
  PROVE /\ Append(q, t) \in Seq(S) /\ Len(Append(q, t)) = Len(q) + 1
        /\ Append(q, t) # << >>
        /\ Append(q, t)[Len(q) + 1] = t
        /\ DOMAIN Append(q, t) = 1..Len(q) + 1
        /\ DOMAIN q = 1..Len(q) /\ Len(q) \in Nat
        /\ \A n \in DOMAIN q : Append(q, t)[n] = q[n] /\ n # Len(q) + 1
BY SMTT(30)

\* The queue after its first tick is taken.
LEMMA TailFacts ==
  ASSUME NEW S, NEW q \in Seq(S), q # << >>
  PROVE /\ Tail(q) \in Seq(S) /\ Len(Tail(q)) = Len(q) - 1 /\ Head(q) = q[1] /\ q[1] \in S
        /\ Len(q) \in Nat \ {0} /\ DOMAIN q = 1..Len(q) /\ DOMAIN Tail(q) = 1..Len(q) - 1
        /\ \A n \in DOMAIN Tail(q) : Tail(q)[n] = q[n + 1] /\ n + 1 \in DOMAIN q
        /\ (Tail(q) = << >>) <=> (Len(q) = 1)
<1>1. /\ Tail(q) \in Seq(S) /\ Len(Tail(q)) = Len(q) - 1 /\ Head(q) = q[1] /\ q[1] \in S
      /\ Len(q) \in Nat \ {0}
  BY SMTT(30)
<1>2. \A n \in 1..Len(q) - 1 : Tail(q)[n] = q[n + 1] BY SMTT(30)
<1>3. DOMAIN q = 1..Len(q) /\ DOMAIN Tail(q) = 1..Len(q) - 1 BY <1>1, SMTT(30)
<1>4. (Tail(q) = << >>) <=> (Len(Tail(q)) = 0) BY <1>1, EmptySeq
<1> QED BY <1>1, <1>2, <1>3, <1>4, SMTT(30)

\* What a queued tick lists.
LEMMA TickFacts ==
  ASSUME NEW t \in TickSet
  PROVE /\ DOMAIN t.procs \subseteq Procs
        /\ \A p \in DOMAIN t.procs : /\ t.procs[p] \in View /\ t.procs[p] # NoHash
                                     /\ t.procs[p].ended \in BOOLEAN /\ t.procs[p].total \in 0..MaxTotal
        /\ t.procs \in Listings /\ t.procs # NoHash
BY RedisSinkAssumption, SMTT(30) DEF TickSet, View, Listings

-----------------------------------------------------------------------------
(* The steps of the sink, seen from the keys and the channel.               *)

\* One MULTI/EXEC runs.
Ran(full) ==
  /\ queue # << >> /\ queue' = Tail(queue)
  /\ ~full => Synced
  /\ \E prune \in BOOLEAN : Exec(queue[1], full, prune)
  /\ con' \in BOOLEAN /\ full_sync' \in BOOLEAN /\ dead' \in BOOLEAN
  /\ UNCHANGED collector

\* A tick is not written, and the next write is a full sync.
Skipped ==
  /\ queue # << >> /\ queue' = Tail(queue)
  /\ con' \in BOOLEAN /\ full_sync' \in BOOLEAN /\ dead' \in BOOLEAN
  /\ ~Synced'
  /\ UNCHANGED <<collector, redis, old>>

\* The kinds of step.
LEMMA StepKinds ==
  ASSUME TypeInv, Next
  PROVE \/ \E busy, ends, forgets \in SUBSET Procs : Tick(busy, ends, forgets)
        \/ \E full \in BOOLEAN : Ran(full)
        \/ Skipped
        \/ Lose
        \/ \E p \in Procs : Age(p) \/ Expire(p)
<1>1. CASE ConnectFails BY <1>1 DEF ConnectFails, Skipped, Synced, TypeInv, TypeOK
<1>2. ASSUME NEW prune \in BOOLEAN, Write(prune) PROVE \E full \in BOOLEAN : Ran(full)
  <2>1. (full_sync \/ ~con) \in BOOLEAN BY DEF TypeInv, TypeOK
  <2>2. Head(queue) = queue[1] BY <1>2, TailFacts DEF Write, TypeInv
  <2>3. ~(full_sync \/ ~con) => Synced BY <1>2 DEF Write, Synced
  <2>4. Ran(full_sync \/ ~con) BY <1>2, <2>2, <2>3 DEF Write, Ran
  <2> QED BY <2>1, <2>4
<1>3. ASSUME NEW ran \in BOOLEAN, NEW dropped \in BOOLEAN, WriteFails(ran, dropped)
      PROVE Skipped \/ \E full \in BOOLEAN : Ran(full)
  <2>1. (full_sync \/ ~con) \in BOOLEAN BY DEF TypeInv, TypeOK
  <2>2. Head(queue) = queue[1] BY <1>3, TailFacts DEF WriteFails, TypeInv
  <2>3. CASE ran
    <3>1. ~(full_sync \/ ~con) => Synced BY <1>3, <2>3 DEF WriteFails, Synced
    <3>2. Ran(full_sync \/ ~con) BY <1>3, <2>2, <2>3, <3>1 DEF WriteFails, Ran
    <3> QED BY <2>1, <3>2
  <2>4. CASE ~ran BY <1>3, <2>4 DEF WriteFails, Skipped, Synced
  <2> QED BY <2>3, <2>4
<1> QED BY <1>1, <1>2, <1>3 DEF Next

-----------------------------------------------------------------------------
(* Type correctness.                                                        *)

RedisType ==
  /\ snapshot = NoHash \/ snapshot \in Listings
  /\ hash \in [Procs -> View \cup {NoHash}]
  /\ ttl \subseteq {p \in Procs : hash[p] # NoHash}
  /\ dests \in [Procs -> 0..MaxTotal]
  /\ destsTtl \subseteq {p \in Procs : dests[p] # 0}
  /\ alive \subseteq Procs
  /\ ended \subseteq Procs

QueueType ==
  /\ queue \in Seq(TickSet)
  /\ \A n \in DOMAIN queue :
       /\ IsTick(queue[n])
       /\ \A p \in queue[n].dests : queue[n].procs[p].total > 0

CollectorType ==
  /\ known \subseteq Procs
  /\ view \in [Procs -> View]
  /\ hot \subseteq known
  /\ back \subseteq Procs
  /\ \A p \in Procs : view[p].ended \/ p \in known => view[p].total > 0
  /\ old \subseteq Procs
  /\ con \in BOOLEAN /\ full_sync \in BOOLEAN /\ dead \in BOOLEAN

\* Type correctness in parts.
LEMMA TypeParts == TypeInv <=> RedisType /\ QueueType /\ CollectorType
BY DEF TypeInv, TypeOK, RedisType, QueueType, CollectorType, Listings

\* What the aggregator had of p before a tick, and what it has in it.
Was(p) == IF p \in known THEN view[p] ELSE NewProc
Is(p, busy, ends) ==
  [ended |-> Was(p).ended \/ p \in ends, total |-> IF p \in busy THEN Was(p).total + 1 ELSE Was(p).total]

\* The tick that Tick appends.
TickOf(busy, ends) ==
  [procs |-> [p \in known \cup busy |-> Is(p, busy, ends)],
   changed |-> hot \cup busy \cup ends, dests |-> busy]

\* What Tick does, in terms of the tick it appends.
Ticked(busy, ends) ==
  /\ TickOf(busy, ends) \in TickSet /\ IsTick(TickOf(busy, ends))
  /\ DOMAIN TickOf(busy, ends).procs = known \cup busy
  /\ TickOf(busy, ends).changed = hot \cup busy \cup ends
  /\ TickOf(busy, ends).dests = busy
  /\ \A p \in busy : TickOf(busy, ends).procs[p].total > 0
  /\ queue' = Append(queue, TickOf(busy, ends))
  /\ \A p \in known \cup busy : TickOf(busy, ends).procs[p] = view'[p]
  /\ \A p \in (known \cup busy) \ known' : view'[p].ended
  /\ \A p \in Procs \ back' : view[p].ended => view'[p].ended
  /\ \A p \in Procs \ (busy \cup ends) : view'[p] = view[p]
  /\ view' \in [Procs -> View]
  /\ back \subseteq back' /\ back' \subseteq Procs
  /\ \A p \in Procs : view'[p].ended \/ p \in known' => view'[p].total > 0

\* The fields of an entry in a tick.
LEMMA IsFacts ==
  ASSUME CollectorType, NEW busy \in SUBSET Procs, NEW ends \in SUBSET (known \cup busy),
         NEW p \in known \cup busy, p \in busy => Was(p).total < MaxTotal
  PROVE /\ Is(p, busy, ends) \in View
        /\ Is(p, busy, ends).total > 0
        /\ Is(p, busy, ends).ended = (Was(p).ended \/ p \in ends)
        /\ p \notin busy \cup ends => Is(p, busy, ends) = view[p]
<1> DEFINE e == Was(p).ended \/ p \in ends
           n == IF p \in busy THEN Was(p).total + 1 ELSE Was(p).total
<1>1. Was(p) \in View
  BY RedisSinkAssumption, SMTT(30) DEF CollectorType, View, Was, NewProc
<1>2. Was(p).ended \in BOOLEAN /\ Was(p).total \in 0..MaxTotal
      /\ Was(p) = [ended |-> Was(p).ended, total |-> Was(p).total]
  BY <1>1 DEF View
<1>3. p \notin busy => Was(p).total > 0 /\ Was(p) = view[p] BY DEF Was, CollectorType
<1>4. n \in 0..MaxTotal /\ n > 0
  <2> DEFINE w == Was(p).total
  <2>1. w \in 0..MaxTotal /\ (p \in busy => w < MaxTotal) /\ (p \notin busy => w > 0) BY <1>2, <1>3
  <2>2. n = IF p \in busy THEN w + 1 ELSE w OBVIOUS
  <2> HIDE DEF w, n
  <2> QED BY <2>1, <2>2, RedisSinkAssumption, SMTT(30)
<1>5. Is(p, busy, ends) = [ended |-> e, total |-> n] BY DEF Is
<1>6. e \in BOOLEAN OBVIOUS
<1>7. ASSUME p \notin busy \cup ends PROVE e = Was(p).ended /\ n = Was(p).total BY <1>2, <1>7
<1> HIDE DEF e, n
<1>8. [ended |-> e, total |-> n] \in View BY <1>4, <1>6 DEF View
<1> QED BY <1>2, <1>3, <1>4, <1>5, <1>7, <1>8 DEF e

\* What a tick of the collector does to its view and its queue.
LEMMA TickEffect ==
  ASSUME CollectorType, NEW busy \in SUBSET Procs, NEW ends \in SUBSET Procs,
         NEW forgets \in SUBSET Procs, Tick(busy, ends, forgets)
  PROVE Ticked(busy, ends)
<1> DEFINE now == known \cup busy
           t == TickOf(busy, ends)
           v(p) == Is(p, busy, ends)
<1>1. /\ view' = [p \in Procs |-> IF p \in now THEN v(p) ELSE view[p]]
      /\ \A p \in busy : Was(p).total < MaxTotal
      /\ ends \subseteq now
      /\ forgets \subseteq {p \in now : v(p).ended}
      /\ known' = now \ forgets
      /\ back' = back \cup {p \in busy \ known : view[p].total > 0}
      /\ queue' = Append(queue, t)
  BY DEF Tick, Was, Is, TickOf
<1>2. now \subseteq Procs /\ hot \subseteq known /\ view \in [Procs -> View] /\ back \subseteq Procs
  BY DEF CollectorType
<1>3. \A p \in now : /\ v(p) \in View /\ v(p).total > 0
                     /\ v(p).ended = (Was(p).ended \/ p \in ends)
                     /\ p \notin busy \cup ends => v(p) = view[p]
  BY <1>1, IsFacts
<1>4. /\ t.procs = [p \in now |-> v(p)] /\ t.changed = hot \cup busy \cup ends /\ t.dests = busy
      /\ t = [procs |-> t.procs, changed |-> t.changed, dests |-> t.dests]
  BY DEF TickOf
<1> HIDE DEF t, v
<1>5. t.procs \in [now -> View] /\ DOMAIN t.procs = now /\ \A p \in now : t.procs[p] = v(p) BY <1>3, <1>4
<1>6. t \in TickSet
  <2>1. t.procs \in Listings BY <1>2, <1>5 DEF Listings
  <2> QED BY <1>1, <1>2, <1>4, <2>1 DEF TickSet
<1>7. IsTick(t) BY <1>1, <1>2, <1>3, <1>4, <1>5 DEF IsTick
<1>8. /\ \A p \in now : view'[p] = v(p)
      /\ \A p \in Procs \ now : view'[p] = view[p]
      /\ view' \in [Procs -> View]
  BY <1>1, <1>2, <1>3
<1>9. \A p \in Procs \ (busy \cup ends) : view'[p] = view[p] BY <1>3, <1>8
<1>10. \A p \in now \ known' : view'[p].ended BY <1>1, <1>8
<1>11. ASSUME NEW p \in Procs \ back', view[p].ended PROVE view'[p].ended
  <2>1. view[p].total > 0 BY <1>11 DEF CollectorType
  <2>2. CASE p \in known
    <3>1. Was(p).ended BY <1>11, <2>2 DEF Was
    <3> QED BY <1>3, <1>8, <2>2, <3>1
  <2>3. CASE p \notin known
    <3>1. p \notin busy BY <1>1, <1>11, <2>1, <2>3
    <3> QED BY <1>8, <1>11, <2>3, <3>1
  <2> QED BY <2>2, <2>3
<1>12. ASSUME NEW p \in Procs, view'[p].ended \/ p \in known' PROVE view'[p].total > 0
  <2>1. CASE p \in now BY <1>3, <1>8, <2>1
  <2>2. CASE p \notin now BY <1>1, <1>8, <1>12, <2>2 DEF CollectorType
  <2> QED BY <2>1, <2>2
<1>13. back \subseteq back' /\ back' \subseteq Procs BY <1>1, <1>2
<1> QED BY <1>1, <1>3, <1>4, <1>5, <1>6, <1>7, <1>8, <1>9, <1>10, <1>11, <1>12, <1>13 DEF t, Ticked

\* The rows that build() writes for the first tick of the channel.
Rows(full) == IF full THEN DOMAIN queue[1].procs ELSE queue[1].changed
Over(full) == {p \in Rows(full) : queue[1].procs[p].ended}

\* What a pipeline that ran leaves in Redis.
LEMMA RanEffect ==
  ASSUME TypeInv, NEW full \in BOOLEAN, Ran(full)
  PROVE /\ queue # << >> /\ queue[1] \in TickSet /\ 1 \in DOMAIN queue
        /\ Rows(full) \subseteq DOMAIN queue[1].procs
        /\ queue[1].dests \subseteq Rows(full)
        /\ snapshot' = queue[1].procs
        /\ hash' = [p \in Procs |-> IF p \in Rows(full) THEN queue[1].procs[p] ELSE hash[p]]
        /\ full => alive' = Rows(full) \ Over(full)
        /\ ~full => alive' = (alive \cup Rows(full)) \ Over(full)
        /\ ttl' = ttl \cup Over(full)
        /\ destsTtl' = destsTtl \cup {p \in Over(full) : dests[p] # 0}
        /\ dests' = [p \in Procs |-> IF p \in queue[1].dests THEN queue[1].procs[p].total ELSE dests[p]]
        /\ ended' \subseteq ended \cup Over(full)
        /\ (ended \ old) \cup Over(full) \subseteq ended'
        /\ old' = old \ Over(full)
<1> DEFINE t == queue[1]
<1>1. queue # << >> /\ t \in TickSet /\ 1 \in DOMAIN queue BY TailFacts, SMTT(30) DEF Ran, TypeInv
<1>2. IsTick(t) BY <1>1 DEF TypeInv, TypeOK
<1>3. Rows(full) \subseteq DOMAIN t.procs /\ t.dests \subseteq Rows(full) BY <1>2 DEF Rows, IsTick
<1>4. PICK prune \in BOOLEAN : Exec(t, full, prune) BY DEF Ran
<1>5. /\ snapshot' = t.procs
      /\ hash' = [p \in Procs |-> IF p \in Rows(full) THEN t.procs[p] ELSE hash[p]]
      /\ ttl' = ttl \cup Over(full)
      /\ destsTtl' = destsTtl \cup {p \in Over(full) : dests[p] # 0}
      /\ dests' = [p \in Procs |-> IF p \in t.dests THEN t.procs[p].total ELSE dests[p]]
  BY <1>4 DEF Exec, Rows, Over
<1>6. /\ full => alive' = Rows(full) \ Over(full)
      /\ ~full => alive' = (alive \cup Rows(full)) \ Over(full)
  BY <1>4 DEF Exec, Rows, Over
<1>7. ended' \subseteq ended \cup Over(full) /\ (ended \ old) \cup Over(full) \subseteq ended'
      /\ old' = old \ Over(full)
  BY <1>4 DEF Exec, Rows, Over
<1> QED BY <1>1, <1>3, <1>5, <1>6, <1>7

\* Taking a tick keeps the queue well typed.
LEMMA TailType ==
  ASSUME QueueType, queue # << >>, queue' = Tail(queue)
  PROVE QueueType'
BY TailFacts, SMTT(30) DEF QueueType

\* Every step keeps the types.
LEMMA TypeStep == TypeInv /\ [Next]_vars => TypeInv'
<1> SUFFICES ASSUME TypeInv, [Next]_vars PROVE TypeInv' OBVIOUS
<1>0. RedisType /\ QueueType /\ CollectorType BY TypeParts
<1> SUFFICES RedisType' /\ QueueType' /\ CollectorType' BY TypeParts, PTL
<1>1. ASSUME NEW busy \in SUBSET Procs, NEW ends \in SUBSET Procs, NEW forgets \in SUBSET Procs,
             Tick(busy, ends, forgets)
      PROVE RedisType' /\ QueueType' /\ CollectorType'
  <2> DEFINE t == TickOf(busy, ends)
  <2>1. RedisType' BY <1>0, <1>1 DEF RedisType, Tick, redis
  <2>2. QueueType'
    <3>1. t \in TickSet /\ IsTick(t) /\ queue' = Append(queue, t) /\ t.dests = busy
          /\ \A p \in busy : t.procs[p].total > 0
      <4>1. Ticked(busy, ends) BY <1>0, <1>1, TickEffect
      <4> QED BY <4>1 DEF Ticked
    <3> HIDE DEF t
    <3>2. queue' \in Seq(TickSet) BY <1>0, <3>1, AppendFacts DEF QueueType
    <3>3. ASSUME NEW n \in DOMAIN queue'
          PROVE IsTick(queue'[n]) /\ \A p \in queue'[n].dests : queue'[n].procs[p].total > 0
      <4>1. n \in DOMAIN queue \/ n = Len(queue) + 1 BY <1>0, <3>1, AppendFacts, SMTT(30) DEF QueueType
      <4>2. CASE n \in DOMAIN queue
        <5>1. queue'[n] = queue[n] BY <1>0, <3>1, <4>2, AppendFacts, SMTT(30) DEF QueueType
        <5> QED BY <1>0, <4>2, <5>1 DEF QueueType
      <4>3. CASE n = Len(queue) + 1
        <5>1. queue'[n] = t BY <1>0, <3>1, <4>3, AppendFacts, SMTT(30) DEF QueueType
        <5> QED BY <3>1, <5>1
      <4> QED BY <4>1, <4>2, <4>3
    <3> QED BY <3>2, <3>3 DEF QueueType
  <2>3. CollectorType'
    <3>1. /\ view' \in [Procs -> View] /\ back' \subseteq Procs
          /\ \A p \in Procs : view'[p].ended \/ p \in known' => view'[p].total > 0
      <4>1. Ticked(busy, ends) BY <1>0, <1>1, TickEffect
      <4> QED BY <4>1 DEF Ticked
    <3>2. known' \subseteq Procs /\ hot' \subseteq known' /\ UNCHANGED <<old, con, full_sync, dead>>
      BY <1>0, <1>1 DEF Tick, CollectorType
    <3> QED BY <1>0, <3>1, <3>2 DEF CollectorType
  <2> QED BY <2>1, <2>2, <2>3
<1>2. ASSUME NEW full \in BOOLEAN, Ran(full) PROVE RedisType' /\ QueueType' /\ CollectorType'
  <2> DEFINE t == queue[1]
  <2>1. t \in TickSet /\ t.procs \in Listings /\ 1 \in DOMAIN queue
        /\ \A p \in DOMAIN t.procs : t.procs[p] \in View /\ t.procs[p] # NoHash /\ t.procs[p].total \in 0..MaxTotal
    BY <1>2, RanEffect, TickFacts
  <2>2. Rows(full) \subseteq DOMAIN t.procs /\ DOMAIN t.procs \subseteq Procs
        /\ t.dests \subseteq Rows(full) /\ Over(full) \subseteq Rows(full)
    BY <1>2, RanEffect, TickFacts DEF Over
  <2>3. \A p \in t.dests : t.procs[p].total # 0 BY <1>0, <2>1, SMTT(30) DEF QueueType
  <2>4. RedisType'
    <3>1. snapshot' \in Listings BY <1>2, <2>1, RanEffect
    <3>2. hash' \in [Procs -> View \cup {NoHash}] BY <1>0, <1>2, <2>1, <2>2, RanEffect DEF RedisType
    <3>3. ttl' \subseteq {p \in Procs : hash'[p] # NoHash} BY <1>0, <1>2, <2>1, <2>2, RanEffect DEF RedisType
    <3>4. dests' \in [Procs -> 0..MaxTotal] BY <1>0, <1>2, <2>1, <2>2, RanEffect DEF RedisType
    <3>5. destsTtl' \subseteq {p \in Procs : dests'[p] # 0} BY <1>0, <1>2, <2>2, <2>3, RanEffect, SMTT(30) DEF RedisType
    <3>6. alive' \subseteq Procs /\ ended' \subseteq Procs BY <1>0, <1>2, <2>2, RanEffect DEF RedisType
    <3> QED BY <3>1, <3>2, <3>3, <3>4, <3>5, <3>6 DEF RedisType
  <2>5. QueueType' BY <1>0, <1>2, TailType DEF Ran
  <2>6. CollectorType'
    <3>1. old' \subseteq old BY <1>2, RanEffect
    <3> QED BY <1>0, <1>2, <3>1 DEF Ran, collector, CollectorType
  <2> QED BY <2>4, <2>5, <2>6
<1>3. CASE Skipped
  <2>1. RedisType' BY <1>0, <1>3 DEF Skipped, redis, RedisType
  <2>2. QueueType' BY <1>0, <1>3, TailType DEF Skipped
  <2>3. CollectorType' BY <1>0, <1>3 DEF Skipped, collector, CollectorType
  <2> QED BY <2>1, <2>2, <2>3
<1>4. CASE Lose
  <2>1. RedisType' BY <1>0, <1>4, RedisSinkAssumption, SMTT(30) DEF Lose, RedisType
  <2>2. QueueType' BY <1>0, <1>4 DEF Lose, sink, QueueType
  <2>3. CollectorType' BY <1>0, <1>4 DEF Lose, sink, collector, CollectorType
  <2> QED BY <2>1, <2>2, <2>3
<1>5. ASSUME NEW p \in Procs, Age(p) PROVE RedisType' /\ QueueType' /\ CollectorType'
  <2>1. RedisType' BY <1>0, <1>5 DEF Age, redis, RedisType
  <2>2. QueueType' BY <1>0, <1>5 DEF Age, sink, QueueType
  <2>3. CollectorType' BY <1>0, <1>5 DEF Age, sink, collector, CollectorType
  <2> QED BY <2>1, <2>2, <2>3
<1>6. ASSUME NEW p \in Procs, Expire(p) PROVE RedisType' /\ QueueType' /\ CollectorType'
  <2>1. RedisType' BY <1>0, <1>6, RedisSinkAssumption, SMTT(30) DEF Expire, RedisType
  <2>2. QueueType' BY <1>0, <1>6 DEF Expire, sink, QueueType
  <2>3. CollectorType' BY <1>0, <1>6 DEF Expire, sink, collector, CollectorType
  <2> QED BY <2>1, <2>2, <2>3
<1>7. CASE UNCHANGED vars
  <2>1. RedisType' BY <1>0, <1>7 DEF vars, redis, RedisType
  <2>2. QueueType' BY <1>0, <1>7 DEF vars, sink, QueueType
  <2>3. CollectorType' BY <1>0, <1>7 DEF vars, sink, collector, CollectorType
  <2> QED BY <2>1, <2>2, <2>3
<1> QED BY <1>1, <1>2, <1>3, <1>4, <1>5, <1>6, <1>7, StepKinds

-----------------------------------------------------------------------------
(* The keys agree.                                                          *)

\* After a pipeline ran, Redis agrees with the tick it wrote.
LEMMA RanAgrees ==
  ASSUME Inv, NEW full \in BOOLEAN, Ran(full)
  PROVE AgreeInv'
<1> DEFINE t == queue[1]
<1>0. TypeInv /\ AgreeInv /\ QueueInv /\ EndedInv /\ SyncInv BY DEF Inv
<1>1. /\ 1 \in DOMAIN queue /\ queue # << >>
      /\ t \in TickSet /\ DOMAIN t.procs \subseteq Procs
      /\ \A p \in DOMAIN t.procs : t.procs[p] # NoHash
  BY <1>0, RanEffect, TickFacts
<1>2. Rows(full) \subseteq DOMAIN t.procs /\ (full => Rows(full) = DOMAIN t.procs)
      /\ (~full => Rows(full) = t.changed)
      /\ \A p \in Rows(full) : p \in Over(full) <=> t.procs[p].ended
  BY <1>0, RanEffect DEF Rows, Over
<1>3. Over(full) \subseteq Rows(full) BY DEF Over
<1>4. ASSUME ~full
      PROVE /\ \A p \in DOMAIN t.procs \ Rows(full) : p \in DOMAIN snapshot /\ snapshot[p] = t.procs[p]
            /\ \A p \in DOMAIN snapshot : ~snapshot[p].ended => p \in DOMAIN t.procs
            /\ \A p \in DOMAIN snapshot : hash[p] = snapshot[p] \/ (hash[p] = NoHash /\ p \in old)
            /\ alive = {p \in DOMAIN snapshot : ~snapshot[p].ended}
  <2>1. Synced BY <1>4 DEF Ran
  <2>2. snapshot # NoHash /\ Follows(snapshot, t) BY <1>0, <1>1, <2>1 DEF SyncInv
  <2> QED BY <1>0, <1>2, <1>4, <2>2 DEF Follows, AgreeInv
<1>5. \A p \in DOMAIN t.procs \ back :
        p \in ended \/ (hash[p] # NoHash /\ hash[p].ended) => t.procs[p].ended
  BY <1>0, <1>1, SMTT(30) DEF EndedInv, EndedFrom
<1>6. /\ snapshot' = t.procs /\ old' = old \ Over(full) /\ back' = back
      /\ \A p \in Procs : /\ p \in Rows(full) => hash'[p] = t.procs[p]
                          /\ p \notin Rows(full) => hash'[p] = hash[p]
      /\ full => alive' = Rows(full) \ Over(full)
      /\ ~full => alive' = (alive \cup Rows(full)) \ Over(full)
      /\ ttl' = ttl \cup Over(full)
      /\ ended' \subseteq ended \cup Over(full)
      /\ (ended \ old) \cup Over(full) \subseteq ended'
  BY <1>0, RanEffect, SMTT(30) DEF Ran, collector
<1> HIDE DEF t
<1>7. \A p \in DOMAIN t.procs : hash'[p] = t.procs[p] \/ (hash'[p] = NoHash /\ p \in old')
  <2> SUFFICES ASSUME NEW p \in DOMAIN t.procs
               PROVE hash'[p] = t.procs[p] \/ (hash'[p] = NoHash /\ p \in old')
    OBVIOUS
  <2>1. CASE p \in Rows(full) BY <1>1, <1>6, <2>1
  <2>2. CASE p \notin Rows(full)
    <3>1. p \in Procs /\ hash'[p] = hash[p] /\ (p \in old => p \in old') BY <1>1, <1>3, <1>6, <2>2
    <3> QED BY <1>2, <1>4, <2>2, <3>1
  <2> QED BY <2>1, <2>2
<1>8. alive' = {p \in DOMAIN t.procs : ~t.procs[p].ended}
  <2>1. CASE full BY <1>2, <1>6, <2>1
  <2>2. CASE ~full
    <3>1. ASSUME NEW p \in alive' PROVE p \in DOMAIN t.procs /\ ~t.procs[p].ended
      <4>1. CASE p \in Rows(full) BY <1>2, <1>6, <2>2, <3>1, <4>1
      <4>2. CASE p \notin Rows(full)
        <5>1. p \in alive BY <1>6, <2>2, <3>1, <4>2
        <5>2. p \in DOMAIN snapshot /\ ~snapshot[p].ended BY <1>4, <2>2, <5>1
        <5>3. p \in DOMAIN t.procs BY <1>4, <2>2, <5>2
        <5> QED BY <1>4, <2>2, <4>2, <5>2, <5>3
      <4> QED BY <4>1, <4>2
    <3>2. ASSUME NEW p \in DOMAIN t.procs, ~t.procs[p].ended PROVE p \in alive'
      <4>1. p \notin Over(full) BY <1>2, <1>3, <3>2
      <4>2. CASE p \in Rows(full) BY <1>6, <2>2, <4>1, <4>2
      <4>3. CASE p \notin Rows(full)
        <5>1. p \in DOMAIN snapshot /\ snapshot[p] = t.procs[p] BY <1>4, <2>2, <4>3
        <5>2. p \in alive BY <1>4, <2>2, <3>2, <5>1
        <5> QED BY <1>6, <2>2, <4>1, <5>2
      <4> QED BY <4>2, <4>3
    <3> QED BY <3>1, <3>2
  <2> QED BY <2>1, <2>2
<1>9. ASSUME NEW p \in alive' \ back PROVE hash'[p] # NoHash /\ p \notin ended'
  <2>1. p \in DOMAIN t.procs /\ ~t.procs[p].ended /\ p \in Procs BY <1>1, <1>8
  <2>2. p \notin ended' BY <1>2, <1>3, <1>5, <1>6, <2>1
  <2>3. CASE p \in Rows(full) BY <1>1, <1>6, <2>1, <2>2, <2>3
  <2>4. CASE p \notin Rows(full)
    <3>1. ~full /\ p \in alive BY <1>2, <1>6, <1>9, <2>1, <2>4
    <3>2. hash[p] # NoHash BY <1>0, <1>9, <3>1 DEF AgreeInv
    <3> QED BY <1>6, <2>1, <2>2, <2>4, <3>2
  <2> QED BY <2>3, <2>4
<1>10. ASSUME NEW p \in Procs, hash'[p] # NoHash
       PROVE /\ hash'[p].ended /\ p \notin old' => p \in ended'
             /\ p \in ttl' => hash'[p].ended \/ p \in back
  <2>1. CASE p \in Rows(full)
    <3>1. hash'[p] = t.procs[p] /\ p \in DOMAIN t.procs BY <1>2, <1>6, <2>1
    <3>2. p \in ttl \ back => hash[p] # NoHash /\ hash[p].ended BY <1>0 DEF AgreeInv, TypeInv, TypeOK
    <3>3. p \in ttl' \ back => t.procs[p].ended BY <1>2, <1>5, <1>6, <2>1, <3>1, <3>2
    <3> QED BY <1>2, <1>6, <2>1, <3>1, <3>3
  <2>2. CASE p \notin Rows(full)
    <3>1. hash'[p] = hash[p] /\ hash[p] # NoHash BY <1>6, <1>10, <2>2
    <3>2. (hash[p].ended /\ p \notin old => p \in ended) /\ (p \in ttl => hash[p].ended \/ p \in back)
      BY <1>0, <3>1 DEF AgreeInv
    <3>3. (p \in ttl' => p \in ttl) /\ (p \notin old' => p \notin old) BY <1>3, <1>6, <2>2
    <3> QED BY <1>6, <3>1, <3>2, <3>3
  <2> QED BY <2>1, <2>2
<1>11. snapshot' # NoHash BY <1>0, <1>6, RanEffect, TickFacts DEF t
<1> QED BY <1>6, <1>7, <1>8, <1>9, <1>10, <1>11 DEF AgreeInv

\* Every step keeps Redis in agreement with the last tick written.
LEMMA AgreeStep == Inv /\ [Next]_vars => AgreeInv'
<1> SUFFICES ASSUME Inv, [Next]_vars PROVE AgreeInv' OBVIOUS
<1>0. TypeInv /\ AgreeInv BY DEF Inv
<1>1. ASSUME NEW busy \in SUBSET Procs, NEW ends \in SUBSET Procs, NEW forgets \in SUBSET Procs,
             Tick(busy, ends, forgets)
      PROVE AgreeInv'
  <2>1. Ticked(busy, ends) BY <1>0, <1>1, TypeParts, TickEffect
  <2>2. back \subseteq back' BY <2>1 DEF Ticked
  <2> QED BY <1>0, <1>1, <2>2 DEF Tick, redis, AgreeInv
<1>2. ASSUME NEW full \in BOOLEAN, Ran(full) PROVE AgreeInv' BY <1>2, RanAgrees
<1>3. CASE Skipped BY <1>0, <1>3 DEF Skipped, redis, collector, AgreeInv
<1>4. CASE Lose BY <1>4 DEF Lose, collector, AgreeInv
<1>5. ASSUME NEW p \in Procs, Age(p) PROVE AgreeInv'
  BY <1>0, <1>5 DEF Age, redis, collector, AgreeInv
<1>6. ASSUME NEW p \in Procs, Expire(p) PROVE AgreeInv'
  <2>1. /\ p \in old /\ UNCHANGED <<old, snapshot, alive, ended, back>>
        /\ \A q \in Procs : q # p => hash'[q] = hash[q]
        /\ p \notin ttl => hash'[p] = hash[p]
        /\ p \in ttl => hash'[p] = NoHash
        /\ ttl' = ttl \ {p}
    BY <1>0, <1>6 DEF Expire, collector, TypeInv, TypeOK
  <2>2. \A q \in Procs : hash'[q] = hash[q] \/ (hash'[q] = NoHash /\ q \in old) BY <2>1
  <2>3. ASSUME NEW q \in alive \ back PROVE hash'[q] # NoHash /\ q \notin ended
    <3>1. q \in Procs /\ hash[q] # NoHash /\ q \notin ended BY <1>0 DEF TypeInv, TypeOK, AgreeInv
    <3>2. q \in DOMAIN snapshot /\ ~snapshot[q].ended /\ hash[q] = snapshot[q] BY <1>0, <3>1 DEF AgreeInv
    <3>3. q \notin ttl BY <1>0, <3>1, <3>2 DEF AgreeInv
    <3> QED BY <2>1, <3>1, <3>3
  <2>4. snapshot # NoHash => DOMAIN snapshot \subseteq Procs BY <1>0 DEF TypeInv, TypeOK
  <2>5. snapshot # NoHash => \A q \in DOMAIN snapshot : hash'[q] = snapshot[q] \/ (hash'[q] = NoHash /\ q \in old)
    BY <1>0, <2>2, <2>4 DEF AgreeInv
  <2>6. ASSUME NEW q \in Procs, hash'[q] # NoHash
        PROVE /\ hash'[q].ended /\ q \notin old => q \in ended
              /\ q \in ttl' => hash'[q].ended \/ q \in back
    <3>1. hash'[q] = hash[q] BY <2>2, <2>6
    <3> QED BY <1>0, <2>1, <2>6, <3>1 DEF AgreeInv
  <2> QED BY <1>0, <2>1, <2>3, <2>5, <2>6 DEF AgreeInv
<1>7. CASE UNCHANGED vars BY <1>0, <1>7 DEF vars, redis, collector, AgreeInv
<1> QED BY <1>0, <1>1, <1>2, <1>3, <1>4, <1>5, <1>6, <1>7, StepKinds

-----------------------------------------------------------------------------
(* The channel.                                                             *)

\* Taking a tick keeps each queued tick related to the next.
LEMMA TailQueue ==
  ASSUME Inv, queue # << >>, queue' = Tail(queue), UNCHANGED collector
  PROVE QueueInv'
<1>1. /\ Len(queue) \in Nat \ {0} /\ Len(queue') = Len(queue) - 1 /\ DOMAIN queue' = 1..Len(queue) - 1
      /\ DOMAIN queue = 1..Len(queue)
      /\ \A n \in DOMAIN queue' : queue'[n] = queue[n + 1] /\ n + 1 \in DOMAIN queue
      /\ queue' # << >> => Len(queue) > 1
  BY TailFacts, SMTT(30) DEF Inv, TypeInv
<1>2. known' = known /\ view' = view /\ hot' = hot BY DEF collector
<1>3. ASSUME NEW n \in DOMAIN queue', n # 1
      PROVE /\ Follows(queue'[n - 1].procs, queue'[n])
            /\ DOMAIN queue'[n].procs \cap queue'[n - 1].dests \subseteq queue'[n].changed
  <2>1. n + 1 \in DOMAIN queue /\ n + 1 # 1 /\ (n + 1) - 1 = n /\ n - 1 \in DOMAIN queue' /\ (n - 1) + 1 = n
    BY <1>1, <1>3, SMTT(30)
  <2>2. queue'[n] = queue[n + 1] /\ queue'[n - 1] = queue[n] BY <1>1, <1>3, <2>1
  <2>3. /\ Follows(queue[n].procs, queue[n + 1])
        /\ DOMAIN queue[n + 1].procs \cap queue[n].dests \subseteq queue[n + 1].changed
    BY <2>1 DEF Inv, QueueInv
  <2> QED BY <2>2, <2>3
<1>4. queue' # << >> => queue'[Len(queue')] = queue[Len(queue)] BY <1>1, SMTT(30)
<1>5. \A a : Current(a, known, view) => Current(a, known', view') BY <1>2 DEF Current
<1> QED
  <2>1. queue' # << >> => /\ Current(queue'[Len(queue')].procs, known', view')
                          /\ known' \cap queue'[Len(queue')].dests \subseteq hot'
    BY <1>2, <1>4, <1>5 DEF Inv, QueueInv
  <2> QED BY <1>3, <2>1 DEF QueueInv, Follows, Current

\* The state before a tick, as the tick after it relates to it.
LEMMA TickFollows ==
  ASSUME Inv, NEW busy \in SUBSET Procs, NEW ends \in SUBSET Procs,
         NEW forgets \in SUBSET Procs, Tick(busy, ends, forgets), NEW a, Current(a, known, view)
  PROVE Follows(a, TickOf(busy, ends))
<1> DEFINE t == TickOf(busy, ends)
<1>0. CollectorType BY TypeParts DEF Inv
<1>1. /\ DOMAIN t.procs = known \cup busy
      /\ t.changed = hot \cup busy \cup ends
      /\ \A p \in known \cup busy : t.procs[p] = view'[p]
      /\ \A p \in Procs \ (busy \cup ends) : view'[p] = view[p]
  <2>1. Ticked(busy, ends) BY <1>0, TickEffect
  <2> QED BY <2>1 DEF Ticked
<1>2. known \subseteq Procs BY DEF Inv, TypeInv, TypeOK
<1> HIDE DEF t
<1>3. ASSUME NEW p \in DOMAIN t.procs \ t.changed PROVE p \in DOMAIN a /\ a[p] = t.procs[p]
  <2>1. p \in known /\ p \notin busy \cup ends BY <1>1, <1>3
  <2>2. t.procs[p] = view[p] BY <1>1, <1>2, <2>1
  <2> QED BY <2>1, <2>2 DEF Current
<1>4. ASSUME NEW p \in DOMAIN a, ~a[p].ended PROVE p \in DOMAIN t.procs
  BY <1>1, <1>4 DEF Current
<1> QED BY <1>3, <1>4 DEF Follows, t

\* A new tick shows the collector's present view.
LEMMA TickCurrent ==
  ASSUME Inv, NEW busy \in SUBSET Procs, NEW ends \in SUBSET Procs,
         NEW forgets \in SUBSET Procs, Tick(busy, ends, forgets)
  PROVE /\ Current(TickOf(busy, ends).procs, known', view')
        /\ known' \cap TickOf(busy, ends).dests \subseteq hot'
<1> DEFINE t == TickOf(busy, ends)
<1>0. CollectorType BY TypeParts DEF Inv
<1>1. /\ DOMAIN t.procs = known \cup busy /\ t.dests = busy
      /\ \A p \in known \cup busy : t.procs[p] = view'[p]
      /\ \A p \in (known \cup busy) \ known' : view'[p].ended
  <2>1. Ticked(busy, ends) BY <1>0, TickEffect
  <2> QED BY <2>1 DEF Ticked
<1>2. known' = (known \cup busy) \ forgets /\ hot' = busy \ forgets BY DEF Tick
<1> HIDE DEF t
<1>4. Current(t.procs, known', view') BY <1>1, <1>2 DEF Current
<1> QED BY <1>1, <1>2, <1>4 DEF t

\* Every step keeps each queued tick related to the next.
LEMMA QueueStep == Inv /\ [Next]_vars => QueueInv'
<1> SUFFICES ASSUME Inv, [Next]_vars PROVE QueueInv' OBVIOUS
<1>0. TypeInv /\ QueueInv BY DEF Inv
<1>1. ASSUME NEW busy \in SUBSET Procs, NEW ends \in SUBSET Procs, NEW forgets \in SUBSET Procs,
             Tick(busy, ends, forgets)
      PROVE QueueInv'
  <2> DEFINE t == TickOf(busy, ends)
  <2>1. t \in TickSet /\ queue' = Append(queue, t) /\ t.changed = hot \cup busy \cup ends
        /\ DOMAIN t.procs = known \cup busy
    <3>1. Ticked(busy, ends) BY <1>0, <1>1, TypeParts, TickEffect
    <3> QED BY <3>1 DEF Ticked
  <2>2. /\ Current(t.procs, known', view') /\ known' \cap t.dests \subseteq hot' BY <1>1, TickCurrent
  <2>3. \A a : Current(a, known, view) => Follows(a, t) BY <1>1, TickFollows
  <2> HIDE DEF t
  <2>4. /\ queue \in Seq(TickSet) /\ DOMAIN queue = 1..Len(queue) /\ Len(queue) \in Nat
        /\ DOMAIN queue' = 1..Len(queue) + 1 /\ Len(queue') = Len(queue) + 1
        /\ queue'[Len(queue) + 1] = t
        /\ \A n \in DOMAIN queue : queue'[n] = queue[n]
    BY <1>0, <2>1, AppendFacts, SMTT(30) DEF TypeInv
  <2>5. ASSUME NEW n \in DOMAIN queue', n # 1
        PROVE /\ Follows(queue'[n - 1].procs, queue'[n])
              /\ DOMAIN queue'[n].procs \cap queue'[n - 1].dests \subseteq queue'[n].changed
    <3>1. CASE n \in DOMAIN queue
      <4>1. n - 1 \in DOMAIN queue BY <2>4, <2>5, <3>1, SMTT(30)
      <4>2. queue'[n] = queue[n] /\ queue'[n - 1] = queue[n - 1] BY <2>4, <3>1, <4>1
      <4> QED BY <1>0, <2>5, <3>1, <4>2 DEF QueueInv
    <3>2. CASE n = Len(queue) + 1
      <4>1. n - 1 = Len(queue) /\ Len(queue) \in DOMAIN queue /\ queue # << >> BY <2>4, <2>5, <3>2, SMTT(30)
      <4>2. queue'[n] = t /\ queue'[n - 1] = queue[Len(queue)] BY <2>4, <3>2, <4>1
      <4>3. Current(queue[Len(queue)].procs, known, view) /\ known \cap queue[Len(queue)].dests \subseteq hot
        BY <1>0, <4>1 DEF QueueInv
      <4>4. (known \cup busy) \cap queue[Len(queue)].dests \subseteq t.changed BY <2>1, <4>3
      <4> QED BY <2>1, <2>3, <4>2, <4>3, <4>4
    <3> QED BY <2>4, <2>5, <3>1, <3>2, SMTT(30)
  <2>6. queue'[Len(queue')] = t BY <2>4
  <2>7. /\ Current(queue'[Len(queue')].procs, known', view') /\ known' \cap queue'[Len(queue')].dests \subseteq hot'
    BY <2>2, <2>6
  <2> QED BY <2>5, <2>7 DEF QueueInv, Follows, Current
<1>2. ASSUME NEW full \in BOOLEAN, Ran(full) PROVE QueueInv' BY <1>2, TailQueue DEF Ran
<1>3. CASE Skipped BY <1>3, TailQueue DEF Skipped
<1>4. CASE UNCHANGED <<collector, queue>>
  BY <1>0, <1>4 DEF collector, QueueInv, Follows, Current
<1>5. CASE Lose BY <1>4, <1>5 DEF Lose, sink
<1>6. ASSUME NEW p \in Procs, Age(p) \/ Expire(p) PROVE QueueInv' BY <1>4, <1>6 DEF Age, Expire, sink
<1>7. CASE UNCHANGED vars BY <1>4, <1>7 DEF vars, sink
<1> QED BY <1>0, <1>1, <1>2, <1>3, <1>5, <1>6, <1>7, StepKinds

-----------------------------------------------------------------------------
(* Once ended, always ended.                                                *)

\* The processes that Redis has as ended.
Gone(p) == p \in ended \/ (hash[p] # NoHash /\ hash[p].ended)

\* Taking a tick keeps ended processes ended in the ticks behind it.
LEMMA TailEnded ==
  ASSUME Inv, queue # << >>, queue' = Tail(queue), UNCHANGED collector,
         \A p \in Procs : Gone(p)' => Gone(p) \/ (p \in DOMAIN queue[1].procs /\ queue[1].procs[p].ended)
  PROVE EndedInv'
<1>0. queue \in Seq(TickSet) BY DEF Inv, TypeInv
<1>1. /\ 1 \in DOMAIN queue
      /\ DOMAIN queue' \subseteq Int /\ DOMAIN queue \subseteq Int
      /\ \A n \in DOMAIN queue' : queue'[n] = queue[n + 1] /\ n + 1 \in DOMAIN queue /\ n >= 1
  <2>1. /\ Len(queue) \in Nat \ {0} /\ DOMAIN queue = 1..Len(queue) /\ DOMAIN queue' = 1..Len(queue) - 1
        /\ \A n \in DOMAIN queue' : queue'[n] = queue[n + 1] /\ n + 1 \in DOMAIN queue
    BY <1>0, TailFacts
  <2> QED BY <2>1, SMTT(30)
<1>2. EndedInv BY DEF Inv
<1>3. view' = view /\ back' = back BY DEF collector
<1>4. ASSUME NEW m \in Int, NEW k \in Int, k <= m + 1, NEW p, EndedFrom(p, k) PROVE EndedFrom(p, m)'
  <2>1. ASSUME NEW n \in DOMAIN queue', n >= m, p \in DOMAIN queue'[n].procs PROVE queue'[n].procs[p].ended
    <3>1. n + 1 \in DOMAIN queue /\ n + 1 >= k /\ queue'[n] = queue[n + 1] BY <1>1, <1>4, <2>1, SMTT(30)
    <3> QED BY <1>4, <2>1, <3>1 DEF EndedFrom
  <2> QED BY <1>3, <1>4, <2>1 DEF EndedFrom
<1>5. ASSUME NEW m \in DOMAIN queue', NEW p \in DOMAIN queue'[m].procs \ back, queue'[m].procs[p].ended
      PROVE EndedFrom(p, m)'
  <2>1. m + 1 \in DOMAIN queue /\ queue'[m] = queue[m + 1] /\ m \in Int /\ m + 1 \in Int BY <1>1
  <2>2. EndedFrom(p, m + 1) BY <1>2, <1>5, <2>1 DEF EndedInv
  <2> QED BY <1>4, <2>1, <2>2, SMTT(30)
<1>6. ASSUME NEW p \in Procs \ back, Gone(p)' PROVE EndedFrom(p, 1)'
  <2>1. EndedFrom(p, 1) BY <1>1, <1>2, <1>6 DEF EndedInv, Gone
  <2> QED BY <1>4, <2>1, SMTT(30)
<1> QED BY <1>3, <1>5, <1>6 DEF EndedInv, EndedFrom, Gone

\* Every step keeps ended processes ended.
LEMMA EndedStep == Inv /\ [Next]_vars => EndedInv'
<1> SUFFICES ASSUME Inv, [Next]_vars PROVE EndedInv' OBVIOUS
<1>0. TypeInv /\ EndedInv BY DEF Inv
<1>1. ASSUME NEW busy \in SUBSET Procs, NEW ends \in SUBSET Procs, NEW forgets \in SUBSET Procs,
             Tick(busy, ends, forgets)
      PROVE EndedInv'
  <2> DEFINE t == TickOf(busy, ends)
  <2>1. /\ t \in TickSet /\ queue' = Append(queue, t) /\ DOMAIN t.procs = known \cup busy
        /\ \A p \in known \cup busy : t.procs[p] = view'[p]
        /\ \A p \in Procs \ back' : view[p].ended => view'[p].ended
        /\ back \subseteq back'
    <3>1. Ticked(busy, ends) BY <1>0, <1>1, TypeParts, TickEffect
    <3> QED BY <3>1 DEF Ticked
  <2> HIDE DEF t
  <2>2. /\ queue \in Seq(TickSet) /\ DOMAIN queue = 1..Len(queue) /\ Len(queue) \in Nat
        /\ DOMAIN queue' = 1..Len(queue) + 1
        /\ queue'[Len(queue) + 1] = t
        /\ \A n \in DOMAIN queue : queue'[n] = queue[n]
    BY <1>0, <2>1, AppendFacts, SMTT(30) DEF TypeInv
  <2>3. \A n \in DOMAIN queue' : n \in DOMAIN queue \/ n = Len(queue) + 1 BY <2>2, SMTT(30)
  <2>4. \A n \in DOMAIN queue : DOMAIN queue[n].procs \subseteq Procs BY <1>0 DEF TypeInv, TypeOK, IsTick
  <2>5. known \cup busy \subseteq Procs BY <1>0 DEF TypeInv, TypeOK
  <2>6. ASSUME NEW m, NEW p \in Procs \ back', EndedFrom(p, m) PROVE EndedFrom(p, m)'
    <3>1. view'[p].ended BY <2>1, <2>6 DEF EndedFrom
    <3>2. p \in DOMAIN t.procs => t.procs[p].ended BY <2>1, <3>1
    <3> QED BY <2>2, <2>3, <2>6, <3>1, <3>2 DEF EndedFrom
  <2>7. ASSUME NEW m \in DOMAIN queue', NEW p \in DOMAIN queue'[m].procs \ back', queue'[m].procs[p].ended
        PROVE EndedFrom(p, m)'
    <3>1. CASE m \in DOMAIN queue
      <4>1. queue'[m] = queue[m] /\ p \in Procs BY <2>2, <2>4, <2>7, <3>1
      <4>2. EndedFrom(p, m) BY <1>0, <2>1, <2>7, <3>1, <4>1 DEF EndedInv
      <4> QED BY <2>6, <4>1, <4>2
    <3>2. CASE m = Len(queue) + 1
      <4>1. queue'[m] = t /\ p \in known \cup busy BY <2>1, <2>2, <2>7, <3>2
      <4>2. view'[p].ended BY <2>1, <2>7, <4>1
      <4>3. ASSUME NEW n \in DOMAIN queue', n >= m PROVE n = m BY <2>2, <3>2, <4>3, SMTT(30)
      <4> QED BY <2>7, <4>2, <4>3 DEF EndedFrom
    <3> QED BY <2>3, <3>1, <3>2
  <2>8. hash' = hash /\ ended' = ended BY <1>1 DEF Tick, redis
  <2>9. ASSUME NEW p \in Procs \ back', Gone(p)' PROVE EndedFrom(p, 1)'
    <3>1. EndedFrom(p, 1) BY <1>0, <2>1, <2>8, <2>9 DEF EndedInv, Gone
    <3> QED BY <2>6, <3>1
  <2> QED BY <2>7, <2>9 DEF EndedInv, Gone
<1>2. ASSUME NEW full \in BOOLEAN, Ran(full) PROVE EndedInv'
  <2>1. /\ Rows(full) \subseteq DOMAIN queue[1].procs
        /\ hash' = [p \in Procs |-> IF p \in Rows(full) THEN queue[1].procs[p] ELSE hash[p]]
        /\ ended' \subseteq ended \cup Over(full)
    BY <1>0, <1>2, RanEffect
  <2>2. \A p \in Procs : Gone(p)' => Gone(p) \/ (p \in DOMAIN queue[1].procs /\ queue[1].procs[p].ended)
    BY <2>1 DEF Gone, Over
  <2> QED BY <1>2, <2>2, TailEnded DEF Ran
<1>3. CASE Skipped
  <2>1. \A p \in Procs : Gone(p)' => Gone(p) BY <1>3 DEF Skipped, redis, Gone
  <2> QED BY <1>3, <2>1, TailEnded DEF Skipped
<1>4. ASSUME UNCHANGED <<collector, queue>>, \A p \in Procs : Gone(p)' => Gone(p) PROVE EndedInv'
  <2>1. view' = view /\ back' = back /\ queue' = queue BY <1>4 DEF collector
  <2> QED BY <1>0, <1>4, <2>1 DEF EndedInv, EndedFrom, Gone
<1>5. CASE Lose
  <2>1. \A p \in Procs : Gone(p)' => Gone(p) BY <1>5 DEF Lose, Gone
  <2> QED BY <1>4, <1>5, <2>1 DEF Lose, sink
<1>6. ASSUME NEW p \in Procs, Age(p) PROVE EndedInv'
  <2>1. \A q \in Procs : Gone(q)' => Gone(q) BY <1>6 DEF Age, redis, Gone
  <2> QED BY <1>4, <1>6, <2>1 DEF Age, sink
<1>7. ASSUME NEW p \in Procs, Expire(p) PROVE EndedInv'
  <2>1. \A q \in Procs : Gone(q)' => Gone(q) BY <1>0, <1>7 DEF Expire, Gone, TypeInv, TypeOK
  <2> QED BY <1>4, <1>7, <2>1 DEF Expire, sink
<1>8. CASE UNCHANGED vars
  <2>1. \A p \in Procs : Gone(p)' => Gone(p) BY <1>8 DEF vars, redis, Gone
  <2> QED BY <1>4, <1>8, <2>1 DEF vars, sink
<1> QED BY <1>0, <1>1, <1>2, <1>3, <1>5, <1>6, <1>7, <1>8, StepKinds

-----------------------------------------------------------------------------
(* A delta is written only on top of the tick before it.                    *)

\* The last conjuncts of SyncInv.
ExpiryInv ==
  /\ \A p \in DOMAIN snapshot \ old : snapshot[p].ended =>
       p \in ttl /\ (dests[p] = 0 \/ p \in destsTtl \/ Supplied(p))
  /\ \A p \in DOMAIN snapshot \cap old : snapshot[p].ended => Rewritten(p)

\* A pipeline that reports an end sets the expiry of the process's keys.
LEMMA RanExpiry ==
  ASSUME Inv, NEW full \in BOOLEAN, Ran(full), NEW p \in DOMAIN queue[1].procs,
         queue[1].procs[p].ended
  PROVE /\ p \in ttl' /\ p \notin old'
        /\ dests'[p] = 0 \/ p \in destsTtl' \/ p \in queue[1].dests
<1> DEFINE t == queue[1]
<1>0. TypeInv /\ QueueInv /\ SyncInv BY DEF Inv
<1>1. /\ queue # << >> /\ t \in TickSet /\ DOMAIN t.procs \subseteq Procs
      /\ Rows(full) \subseteq DOMAIN t.procs
      /\ full => Rows(full) = DOMAIN t.procs
      /\ ~full => Rows(full) = t.changed
  BY <1>0, RanEffect, TickFacts DEF Rows
<1>2. /\ ttl' = ttl \cup Over(full)
      /\ destsTtl' = destsTtl \cup {q \in Over(full) : dests[q] # 0}
      /\ p \notin t.dests => dests'[p] = dests[p]
      /\ old' = old \ Over(full)
  BY <1>0, <1>1, RanEffect
<1>3. CASE p \in Rows(full)
  <2>1. p \in Over(full) BY <1>3 DEF Over
  <2> QED BY <1>2, <2>1
<1>4. CASE p \notin Rows(full)
  <2>1. Synced /\ p \notin t.changed BY <1>1, <1>4 DEF Ran
  <2>2. Follows(snapshot, t) /\ ExpiryInv BY <1>0, <1>1, <2>1 DEF SyncInv, ExpiryInv
  <2>3. p \in DOMAIN snapshot /\ snapshot[p].ended BY <2>1, <2>2 DEF Follows
  <2>4. ~Supplied(p) /\ ~Rewritten(p) BY <1>1, <2>1 DEF Supplied, Rewritten
  <2>5. p \in ttl /\ p \notin old /\ (dests[p] = 0 \/ p \in destsTtl) BY <2>2, <2>3, <2>4 DEF ExpiryInv
  <2> QED BY <1>2, <2>5
<1> QED BY <1>3, <1>4

\* Every step keeps what a delta may rely on: Redis holds the tick before it.
LEMMA SyncStep == Inv /\ [Next]_vars => SyncInv'
<1> SUFFICES ASSUME Inv, [Next]_vars PROVE SyncInv' OBVIOUS
<1>0. TypeInv /\ QueueInv /\ SyncInv BY DEF Inv
<1>1. ASSUME NEW busy \in SUBSET Procs, NEW ends \in SUBSET Procs, NEW forgets \in SUBSET Procs,
             Tick(busy, ends, forgets), Synced'
      PROVE /\ snapshot' # NoHash /\ queue' # << >> /\ Follows(snapshot', queue'[1]) /\ ExpiryInv'
  <2> DEFINE t == TickOf(busy, ends)
  <2>1. /\ t \in TickSet /\ queue' = Append(queue, t) /\ DOMAIN t.procs = known \cup busy
        /\ t.changed = hot \cup busy \cup ends
    <3>1. Ticked(busy, ends) BY <1>0, <1>1, TypeParts, TickEffect
    <3> QED BY <3>1 DEF Ticked
  <2>2. \A a : Current(a, known, view) => Follows(a, t) BY <1>1, TickFollows
  <2> HIDE DEF t
  <2>3. UNCHANGED <<con, full_sync, dead, snapshot, ttl, dests, destsTtl, old>> BY <1>1 DEF Tick, redis
  <2>4. Synced BY <1>1, <2>3 DEF Synced
  <2>5. snapshot # NoHash /\ ExpiryInv BY <1>0, <2>4 DEF SyncInv, ExpiryInv
  <2>6. CASE queue = << >>
    <3>1. queue' # << >> /\ queue'[1] = t BY <1>0, <2>1, <2>6, AppendFacts, SMTT(30) DEF TypeInv
    <3>2. Follows(snapshot, t) BY <1>0, <2>2, <2>4, <2>6 DEF SyncInv
    <3>3. \A p : Supplied(p) => Supplied(p)' BY <2>1, <2>6, <3>1 DEF Supplied
    <3>4. \A p : Rewritten(p) => Rewritten(p)' BY <2>1, <2>6, <3>1 DEF Rewritten
    <3> QED BY <2>3, <2>5, <3>1, <3>2, <3>3, <3>4 DEF ExpiryInv
  <2>7. CASE queue # << >>
    <3>1. queue' # << >> /\ queue'[1] = queue[1]
      <4>1. 1 \in DOMAIN queue BY <1>0, <2>7, TailFacts, SMTT(30) DEF TypeInv
      <4> QED BY <1>0, <2>1, <4>1, AppendFacts, SMTT(30) DEF TypeInv
    <3>2. Follows(snapshot, queue[1]) BY <1>0, <2>4, <2>7 DEF SyncInv
    <3>3. \A p : Supplied(p) => Supplied(p)' BY <2>7, <3>1 DEF Supplied
    <3>4. \A p : Rewritten(p) => Rewritten(p)' BY <2>7, <3>1 DEF Rewritten
    <3> QED BY <2>3, <2>5, <3>1, <3>2, <3>3, <3>4 DEF ExpiryInv
  <2> QED BY <2>6, <2>7
<1>2. ASSUME NEW full \in BOOLEAN, Ran(full)
      PROVE /\ snapshot' # NoHash
            /\ queue' = << >> => Current(snapshot', known', view')
            /\ queue' # << >> => Follows(snapshot', queue'[1])
            /\ ExpiryInv'
  <2>1. snapshot' = queue[1].procs /\ snapshot' # NoHash /\ queue # << >> BY <1>0, <1>2, RanEffect, TickFacts
  <2>2. UNCHANGED <<known, view, hot>> BY <1>2 DEF Ran, collector
  <2>3. queue' = << >> => Len(queue) = 1 BY <1>0, <1>2, TailFacts DEF Ran, TypeInv
  <2>4. queue' # << >> => queue'[1] = queue[2] /\ 2 \in DOMAIN queue /\ 2 # 1 /\ 2 - 1 = 1
    <3>1. queue' # << >> => 1 \in DOMAIN queue'
      <4>1. queue' \in Seq(TickSet) BY <1>0, <1>2, TailFacts DEF Ran, TypeInv
      <4> QED BY <4>1, TailFacts, SMTT(30)
    <3> QED BY <1>0, <1>2, <3>1, TailFacts, SMTT(30) DEF Ran, TypeInv
  <2>5. queue' = << >> => Current(queue[1].procs, known, view) /\ known \cap queue[1].dests \subseteq hot
    BY <1>0, <2>1, <2>3 DEF QueueInv
  <2>6. queue' # << >> => /\ Follows(queue[1].procs, queue[2])
                          /\ DOMAIN queue[2].procs \cap queue[1].dests \subseteq queue[2].changed
    BY <1>0, <2>4 DEF QueueInv
  <2>7. \A p \in queue[1].dests : Supplied(p)' BY <2>2, <2>4, <2>5, <2>6 DEF Supplied
  <2>8. \A p \in DOMAIN queue[1].procs : queue[1].procs[p].ended =>
          /\ p \in ttl' /\ p \notin old'
          /\ dests'[p] = 0 \/ p \in destsTtl' \/ p \in queue[1].dests
    BY <1>2, RanExpiry
  <2>9. ExpiryInv' BY <2>1, <2>7, <2>8 DEF ExpiryInv
  <2> QED BY <2>1, <2>2, <2>4, <2>5, <2>6, <2>9
<1>3. CASE Skipped BY <1>3 DEF Skipped, SyncInv
<1>4. CASE Lose BY <1>4 DEF Lose, sink, Synced, SyncInv
<1>5. ASSUME UNCHANGED <<con, full_sync, dead, queue, known, view, hot, snapshot>>,
             Synced => (ExpiryInv => ExpiryInv')
      PROVE SyncInv'
  <2>1. Synced' => Synced BY <1>5 DEF Synced
  <2> QED BY <1>0, <1>5, <2>1 DEF SyncInv, ExpiryInv
<1>6. ASSUME NEW p \in Procs, Age(p) PROVE SyncInv'
  <2>1. /\ UNCHANGED <<con, full_sync, dead, queue, known, view, hot, snapshot, ttl, dests, destsTtl>>
        /\ old' = old \cup {p}
    BY <1>6 DEF Age, redis, collector, sink
  <2>2. ASSUME Synced, p \in DOMAIN snapshot, snapshot[p].ended PROVE Rewritten(p)
    <3>1. CASE queue = << >>
      <4>1. view[p].ended BY <1>0, <2>2, <3>1 DEF SyncInv, Current
      <4> QED BY <1>6, <3>1, <4>1 DEF Age, Rewritten
    <3>2. CASE queue # << >>
      <4>1. 1 \in DOMAIN queue BY <1>0, <3>2, TailFacts, SMTT(30) DEF TypeInv
      <4>2. p \in DOMAIN queue[1].procs => ~queue[1].procs[p].ended BY <1>6, <4>1 DEF Age
      <4>3. Follows(snapshot, queue[1]) BY <1>0, <2>2, <3>2 DEF SyncInv
      <4> QED BY <2>2, <3>2, <4>2, <4>3 DEF Follows, Rewritten
    <3> QED BY <3>1, <3>2
  <2>3. Synced => (ExpiryInv => ExpiryInv')
    <3>1. \A q : (Supplied(q) => Supplied(q)') /\ (Rewritten(q) => Rewritten(q)')
      BY <2>1 DEF Supplied, Rewritten
    <3> QED BY <2>1, <2>2, <3>1 DEF ExpiryInv
  <2> QED BY <1>5, <2>1, <2>3
<1>7. ASSUME NEW p \in Procs, Expire(p) PROVE SyncInv'
  <2>1. /\ UNCHANGED <<con, full_sync, dead, queue, known, view, hot, snapshot, old>> /\ p \in old
        /\ ttl' = ttl \ {p} /\ destsTtl' = destsTtl \ {p}
        /\ \A q \in Procs : q # p => dests'[q] = dests[q]
    BY <1>0, <1>7 DEF Expire, collector, sink, TypeInv, TypeOK
  <2>2. Synced => DOMAIN snapshot \subseteq Procs BY <1>0 DEF SyncInv, TypeInv, TypeOK
  <2>3. Synced => (ExpiryInv => ExpiryInv')
    <3>1. \A q : (Supplied(q) => Supplied(q)') /\ (Rewritten(q) => Rewritten(q)')
      BY <2>1 DEF Supplied, Rewritten
    <3> QED BY <2>1, <2>2, <3>1 DEF ExpiryInv
  <2> QED BY <1>5, <2>1, <2>3
<1>8. CASE UNCHANGED vars
  <2>1. UNCHANGED <<con, full_sync, dead, queue, known, view, hot, snapshot, ttl, dests, destsTtl, old>>
    BY <1>8 DEF vars, redis, collector, sink
  <2>2. ExpiryInv => ExpiryInv' BY <2>1 DEF ExpiryInv, Supplied, Rewritten
  <2> QED BY <1>5, <2>1, <2>2
<1>9. ASSUME NEW busy \in SUBSET Procs, NEW ends \in SUBSET Procs, NEW forgets \in SUBSET Procs,
             Tick(busy, ends, forgets)
      PROVE SyncInv'
  BY <1>1, <1>9 DEF SyncInv, ExpiryInv
<1>10. ASSUME NEW full \in BOOLEAN, Ran(full) PROVE SyncInv' BY <1>2, <1>10 DEF SyncInv, ExpiryInv
<1> QED BY <1>0, <1>3, <1>4, <1>6, <1>7, <1>8, <1>9, <1>10, StepKinds

-----------------------------------------------------------------------------
(* Theorems.                                                                *)

\* The initial state satisfies the invariant.
LEMMA InitInv == Init => Inv
<1> SUFFICES ASSUME Init PROVE Inv OBVIOUS
<1>1. DOMAIN queue = {} /\ queue \in Seq(TickSet) BY SMTT(30) DEF Init
<1>2. TypeInv
  <2>1. RedisType BY RedisSinkAssumption, SMTT(30) DEF Init, RedisType
  <2>2. QueueType BY <1>1 DEF QueueType
  <2>3. CollectorType
    <3>1. view \in [Procs -> View] /\ \A p \in Procs : ~view[p].ended
      BY RedisSinkAssumption, SMTT(30) DEF Init, View, NewProc
    <3> QED BY <3>1 DEF Init, CollectorType
  <2> QED BY <2>1, <2>2, <2>3, TypeParts
<1>3. AgreeInv /\ QueueInv /\ EndedInv /\ SyncInv
  BY <1>1 DEF Init, AgreeInv, QueueInv, EndedInv, SyncInv, Synced
<1> QED BY <1>2, <1>3 DEF Inv

\* Every step keeps the invariant.
LEMMA InvStep == Inv /\ [Next]_vars => Inv'
BY TypeStep, AgreeStep, QueueStep, EndedStep, SyncStep DEF Inv

\* After every write the process hashes and netwatch:alive are those of the
\* snapshot.  Live and ended processes are mixed up, and a live one expires, only
\* if the aggregator forgot it and it came back.  For every number of processes,
\* however often they come back, however long the channel, whatever was skipped,
\* refused, cut off or lost before (build() and the loop of run()).
THEOREM Agreement == Spec => []SnapshotAgrees
<1>1. Inv => SnapshotAgrees BY DEF Inv, AgreeInv, TypeInv, SnapshotAgrees
<1> QED BY <1>1, InitInv, InvStep, PTL DEF Spec

\* A successful write leaves an expiry on the hash and on the destinations of
\* every ended process it lists without a change, although EXPIRE comes before
\* the HSET that may create the destinations (build()).
THEOREM Expiry == Spec => EndedExpires
<1>1. ASSUME Inv, Next, Written, NEW p \in DOMAIN Head(queue).procs \ Head(queue).changed,
             Head(queue).procs[p].ended
      PROVE p \in ttl' /\ (dests'[p] # 0 => p \in destsTtl')
  <2>0. TypeInv /\ EndedInv BY <1>1 DEF Inv
  <2>1. queue # << >> /\ Head(queue) = queue[1] /\ 1 \in DOMAIN queue /\ queue' = Tail(queue)
    <3>1. queue # << >> /\ queue' = Tail(queue) BY <1>1 DEF Written
    <3>2. queue \in Seq(TickSet) BY <2>0 DEF TypeInv
    <3>3. Head(queue) = queue[1] /\ Len(queue) \in Nat \ {0} /\ DOMAIN queue = 1..Len(queue)
      BY <3>1, <3>2, TailFacts
    <3>4. 1 \in DOMAIN queue BY <3>3, SMTT(30)
    <3> QED BY <3>1, <3>3, <3>4
  <2>3. p \notin queue[1].dests BY <1>1, <2>0, <2>1 DEF TypeInv, TypeOK, IsTick
  <2>4. PICK prune \in BOOLEAN : Write(prune)
    <3>1. ~ConnectFails BY <1>1 DEF ConnectFails, Written
    <3>2. \A ran, dropped \in BOOLEAN : ~WriteFails(ran, dropped) BY <1>1 DEF WriteFails, Written
    <3>3. queue' # queue BY <1>1 DEF Written
    <3>4. ~Lose /\ \A q \in Procs : ~Age(q) /\ ~Expire(q) BY <3>3 DEF Lose, Age, Expire, sink
    <3>5. ASSUME NEW busy \in SUBSET Procs, NEW ends \in SUBSET Procs, NEW forgets \in SUBSET Procs,
                 Tick(busy, ends, forgets)
          PROVE FALSE
      <4>1. Ticked(busy, ends) BY <2>0, <3>5, TypeParts, TickEffect
      <4>2. TickOf(busy, ends) \in TickSet /\ queue' = Append(queue, TickOf(busy, ends)) BY <4>1 DEF Ticked
      <4>3. Len(queue') = Len(queue) + 1 BY <2>0, <4>2, AppendFacts, SMTT(30) DEF TypeInv
      <4>4. Len(queue') = Len(queue) - 1 /\ Len(queue) \in Nat BY <2>0, <2>1, TailFacts DEF TypeInv
      <4> QED BY <4>3, <4>4, SMTT(30)
    <3> QED BY <1>1, <3>1, <3>2, <3>4, <3>5 DEF Next
  <2>5. \E full \in BOOLEAN : Ran(full)
    <3>1. (full_sync \/ ~con) \in BOOLEAN BY <2>0 DEF TypeInv, TypeOK
    <3>2. ~(full_sync \/ ~con) => Synced BY <2>4 DEF Write, Synced
    <3>3. Ran(full_sync \/ ~con) BY <2>1, <2>4, <3>2 DEF Write, Ran
    <3> QED BY <3>1, <3>3
  <2> QED BY <1>1, <2>1, <2>3, <2>5, RanExpiry
<1>2. Inv /\ [Next]_vars => [Written => LET t == Head(queue) IN
       \A p \in DOMAIN t.procs \ t.changed : t.procs[p].ended =>
         p \in ttl' /\ (dests'[p] # 0 => p \in destsTtl')]_vars
  BY <1>1
<1> QED BY <1>2, InitInv, InvStep, PTL DEF Spec, EndedExpires
=============================================================================
