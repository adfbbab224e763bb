-------------------------- MODULE AggregatorProofs --------------------------
(* Proofs about Aggregator, for any sends, flows and processes, any times    *)
(* and any clock steps.                                                     *)
EXTENDS Aggregator, TLAPS

\* The provers of a leaf that names none, in the order they are tried.
USE ZenonT(90), SMTT(30)

-----------------------------------------------------------------------------
(* The inductive invariant.                                                 *)

\* The sends ingested so far that belong to process i.
DrainedOf(d, i) == {s \in d : ProcOf[FlowOf[s]] = i}

\* The map has no element of process i.
Silent(map, i) == \A f \in Flows : ProcOf[f] = i => map[f] = NoElem

\* An element holds sends of its own flow, and at least one.
MapOK(map, S) == \A f \in Flows :
  /\ map[f].bytes \subseteq {s \in S : FlowOf[s] = f}
  /\ map[f].bytes = {} => map[f] = NoElem

\* No send is in two of the maps, or in a map and ingested.
Apart(a, b, c, d) == \A f \in Flows :
  /\ a[f].bytes \cap b[f].bytes = {} /\ a[f].bytes \cap c[f].bytes = {}
  /\ b[f].bytes \cap c[f].bytes = {} 
  /\ (a[f].bytes \cup b[f].bytes \cup c[f].bytes) \cap d = {}

Ended == {"zombie", "gone"}

KernelInv ==
  /\ MapOK(active, sent) /\ MapOK(idle, sent) /\ MapOK(batch, sent)
  /\ Apart(active, idle, batch, drained)
  /\ drained \subseteq sent
  /\ phase # "drained" => batch = NoElems
  /\ ~stray /\ phase # "flipped" => idle = NoElems
  /\ \A i \in exits \cup pending \cup lastExits : life[i] \in Ended

\* A process record p of i, given what was ingested.
ProcOK(p, d, i) ==
  /\ p.total # {} /\ p.total \subseteq DrainedOf(d, i)
  /\ p.total = UNION {p.dests[dk] : dk \in DestKeys}
  /\ \A dk, dl \in DestKeys : dk # dl => p.dests[dk] \cap p.dests[dl] = {}

ProcsInv ==
  /\ \A i \in DOMAIN procs : /\ ProcOK(procs[i], drained, i)
                             /\ procs[i].ended => life[i] \in Ended \/ i \in misread
                             /\ mirror[i] = ViewOf(procs[i])
  /\ \A i \in Insts : /\ i \notin DOMAIN procs => mirror[i].ended
                      /\ mirror[i].total \subseteq DrainedOf(drained, i)
                      /\ \A dk \in DestKeys : mirrorDests[i][dk] \subseteq DrainedOf(drained, i)

\* Without strays an exit is the end: what is still to be drained for an ended
\* process is in the map drained next, and a forgotten process never returns,
\* unless the sweep misread it.
ExactInv == ~stray =>
  /\ \A i \in DOMAIN procs \ misread :
                             /\ DrainedOf(drained, i) \subseteq procs[i].total
                             /\ mirrorDests[i] = procs[i].dests
                             /\ procs[i].ended /\ phase # "wait" => Silent(active, i)
  /\ \A i \in pending : phase # "wait" => Silent(active, i)
  /\ \A i \in Insts \ (DOMAIN procs \cup misread) : DrainedOf(drained, i) # {} =>
       life[i] \in Ended /\ Silent(active, i) /\ Silent(idle, i) /\ Silent(batch, i)
  /\ \A i \in lastExits : \/ i \in pending
                          \/ i \in DOMAIN procs /\ procs[i].ended
                          \/ i \notin DOMAIN procs /\ DrainedOf(drained, i) # {}

CacheInv ==
  /\ \A f \in DOMAIN cache : cache[f] = labels[f]
  /\ \A f \in Flows : labels[f].app # NoHead => DrainedOf(drained, ProcOf[f]) # {}
  /\ ~stray => \A f \in Flows \ DOMAIN cache :
       ProcOf[f] \in DOMAIN procs \ misread /\ labels[f].age < CacheTtl => labels[f].app = NoHead

Inv == TypeOK /\ KernelInv /\ ProcsInv /\ ExactInv /\ CacheInv

-----------------------------------------------------------------------------
(* Ages.                                                                    *)

\* The cap on ages lies above both thresholds.
LEMMA MaxAgeFacts ==
  /\ MaxAge \in Nat /\ MaxAge >= Retain /\ MaxAge >= CacheTtl
  /\ 0 \in Ages /\ MaxAge \in Ages
<1>1. Retain \in Nat /\ Liveness \in Nat /\ CacheTtl \in Nat BY AggregatorAssumption
<1>2. \E m \in {Retain, Liveness, CacheTtl} : m >= Retain /\ m >= Liveness /\ m >= CacheTtl
  BY <1>1, SMTT(30)
<1>3. MaxAge \in {Retain, Liveness, CacheTtl} /\ MaxAge >= Retain /\ MaxAge >= CacheTtl
  BY <1>2 DEF MaxAge
<1> QED BY <1>1, <1>3, SMTT(30) DEF Ages

\* Growing older stays within the cap and never makes anything younger.
LEMMA OlderFacts ==
  ASSUME NEW a \in Ages, NEW dt \in Nat
  PROVE Older(a, dt) \in Ages /\ Older(a, dt) >= a
BY MaxAgeFacts, SMTT(30) DEF Ages, Older

-----------------------------------------------------------------------------
(* What a batch holds.                                                      *)

InBatch(s) == s \in Sends /\ s \in batch[FlowOf[s]].bytes

\* What a drained batch holds: bytes sent and not yet ingested, under their own flow.
LEMMA BatchFacts ==
  ASSUME TypeOK, KernelInv
  PROVE /\ \A f \in Flows : batch[f].bytes \subseteq Sends /\ \A s \in batch[f].bytes : FlowOf[s] = f
        /\ \A f \in Flows : f \in Flowing <=> batch[f].bytes # {}
        /\ \A s : InBatch(s) => s \in sent /\ s \notin drained /\ FlowOf[s] \in Flowing
<1>1. batch \in [Flows -> Elem] /\ sent \subseteq Sends BY DEF TypeOK
<1>2. MapOK(batch, sent) /\ Apart(active, idle, batch, drained) BY DEF KernelInv
<1>3. \A f \in Flows : batch[f].bytes \subseteq Sends /\ \A s \in batch[f].bytes : FlowOf[s] = f
  BY <1>1, <1>2 DEF MapOK
<1>4. NoElem.bytes = {} BY DEF NoElem
<1>5. \A f \in Flows : f \in Flowing <=> batch[f].bytes # {}
  BY <1>2, <1>4 DEF MapOK, Flowing
<1>6. ASSUME NEW s, InBatch(s) PROVE s \in sent /\ s \notin drained /\ FlowOf[s] \in Flowing
  <2>1. FlowOf[s] \in Flows /\ s \in batch[FlowOf[s]].bytes BY <1>6, AggregatorAssumption DEF InBatch
  <2> QED BY <1>2, <1>5, <2>1 DEF MapOK, Apart
<1> QED BY <1>3, <1>5, <1>6

\* The bytes of a batch, of one process in it, and of one destination of that process.
LEMMA MovedChar ==
  ASSUME TypeOK, KernelInv
  PROVE /\ \A s : s \in MovedIn(Flows) <=> InBatch(s)
        /\ \A i, s : s \in Moved(i) <=> InBatch(s) /\ ProcOf[FlowOf[s]] = i
        /\ \A i, dk, s : s \in MovedTo(i, dk) <=>
             InBatch(s) /\ ProcOf[FlowOf[s]] = i /\ <<DestOf[FlowOf[s]], sniffed(FlowOf[s])>> = dk
<1>1. /\ \A f \in Flows : batch[f].bytes \subseteq Sends /\ \A s \in batch[f].bytes : FlowOf[s] = f
      /\ \A f \in Flows : f \in Flowing <=> batch[f].bytes # {}
      /\ \A s : InBatch(s) => FlowOf[s] \in Flowing
  BY BatchFacts
<1>2. Flowing \subseteq Flows BY DEF Flowing
<1>3. ASSUME NEW F, F \subseteq Flows, NEW s
      PROVE s \in MovedIn(F) <=> InBatch(s) /\ FlowOf[s] \in F
  <2>1. s \in MovedIn(F) <=> \E f \in F : s \in batch[f].bytes BY DEF MovedIn
  <2> QED BY <1>1, <1>3, <2>1 DEF InBatch
<1>4. ASSUME NEW s PROVE s \in MovedIn(Flows) <=> InBatch(s)
  BY <1>1, <1>2, <1>3
<1>5. ASSUME NEW i, NEW s PROVE s \in Moved(i) <=> InBatch(s) /\ ProcOf[FlowOf[s]] = i
  <2> DEFINE F == {f \in Flowing : ProcOf[f] = i}
  <2>1. F \subseteq Flows /\ (FlowOf[s] \in F <=> FlowOf[s] \in Flowing /\ ProcOf[FlowOf[s]] = i) BY <1>2
  <2>2. Moved(i) = MovedIn(F) BY DEF Moved
  <2> HIDE DEF F
  <2>3. s \in MovedIn(F) <=> InBatch(s) /\ FlowOf[s] \in F BY <1>3, <2>1
  <2> QED BY <1>1, <2>1, <2>2, <2>3
<1>6. ASSUME NEW i, NEW dk, NEW s
      PROVE s \in MovedTo(i, dk) <=>
              InBatch(s) /\ ProcOf[FlowOf[s]] = i /\ <<DestOf[FlowOf[s]], sniffed(FlowOf[s])>> = dk
  <2> DEFINE F == {f \in Flowing : ProcOf[f] = i /\ <<DestOf[f], sniffed(f)>> = dk}
  <2>1. F \subseteq Flows /\ (FlowOf[s] \in F <=> /\ FlowOf[s] \in Flowing /\ ProcOf[FlowOf[s]] = i
                                                  /\ <<DestOf[FlowOf[s]], sniffed(FlowOf[s])>> = dk)
    BY <1>2
  <2>2. MovedTo(i, dk) = MovedIn(F) BY DEF MovedTo
  <2> HIDE DEF F
  <2>3. s \in MovedIn(F) <=> InBatch(s) /\ FlowOf[s] \in F BY <1>3, <2>1
  <2> QED BY <1>1, <2>1, <2>2, <2>3
<1> QED BY <1>4, <1>5, <1>6

\* The label a flow gets is an application, and names a destination entry.
LEMMA SniffedType ==
  ASSUME TypeOK, NEW f \in Flows
  PROVE sniffed(f) \in Apps /\ <<DestOf[f], sniffed(f)>> \in DestKeys
<1>1. batch[f] \in Elem /\ \A g \in DOMAIN cache : cache[g] \in [app : Apps \ {NoHead}, age : Ages]
  BY DEF TypeOK
<1>2. batch[f].head \in Apps /\ \A g \in DOMAIN cache : cache[g].app \in Apps BY <1>1 DEF Elem
<1>3. NoHead \in Apps BY DEF Apps
<1>4. sniffed(f) \in Apps BY <1>2, <1>3 DEF sniffed
<1> QED BY <1>4 DEF DestKeys, Dests

\* What the batch says of process i.
MovedOK(i) ==
  /\ Moved(i) \subseteq Sends /\ Moved(i) \cap drained = {}
  /\ DrainedOf(drained \cup MovedIn(Flows), i) = DrainedOf(drained, i) \cup Moved(i)
  /\ Moved(i) = UNION {MovedTo(i, dk) : dk \in DestKeys}
  /\ \A dk, dl \in DestKeys : dk # dl => MovedTo(i, dk) \cap MovedTo(i, dl) = {}
  /\ \A dk \in DestKeys : MovedTo(i, dk) \subseteq Moved(i)
  /\ i \in Known \ DOMAIN procs => Moved(i) # {}
  /\ Moved(i) # {} => i \in Known
  /\ Silent(batch, i) => Moved(i) = {} /\ i \notin Known \ DOMAIN procs

\* A batch adds to a process exactly what its flows moved, split by destination.
LEMMA MovedFacts ==
  ASSUME TypeOK, KernelInv, NEW i
  PROVE MovedOK(i)
<1>1. /\ \A s : s \in MovedIn(Flows) <=> InBatch(s)
      /\ \A s : s \in Moved(i) <=> InBatch(s) /\ ProcOf[FlowOf[s]] = i
      /\ \A dk, s : s \in MovedTo(i, dk) <=>
           InBatch(s) /\ ProcOf[FlowOf[s]] = i /\ <<DestOf[FlowOf[s]], sniffed(FlowOf[s])>> = dk
  BY MovedChar
<1>2. /\ \A f \in Flows : batch[f].bytes \subseteq Sends /\ \A s \in batch[f].bytes : FlowOf[s] = f
      /\ \A f \in Flows : f \in Flowing <=> batch[f].bytes # {}
      /\ \A s : InBatch(s) => s \in sent /\ s \notin drained /\ FlowOf[s] \in Flowing
  BY BatchFacts
<1>3. Moved(i) \subseteq Sends /\ Moved(i) \cap drained = {} BY <1>1, <1>2 DEF InBatch
<1>4. DrainedOf(drained \cup MovedIn(Flows), i) = DrainedOf(drained, i) \cup Moved(i)
  BY <1>1 DEF DrainedOf
<1>5. ASSUME NEW s \in Moved(i) PROVE \E dk \in DestKeys : s \in MovedTo(i, dk)
  <2>1. InBatch(s) /\ ProcOf[FlowOf[s]] = i /\ FlowOf[s] \in Flows
    BY <1>1, AggregatorAssumption DEF InBatch
  <2>2. <<DestOf[FlowOf[s]], sniffed(FlowOf[s])>> \in DestKeys BY <2>1, SniffedType
  <2> QED BY <1>1, <2>1, <2>2
<1>6. \A dk \in DestKeys : MovedTo(i, dk) \subseteq Moved(i) BY <1>1
<1>7. Moved(i) = UNION {MovedTo(i, dk) : dk \in DestKeys} BY <1>5, <1>6
<1>8. \A dk, dl \in DestKeys : dk # dl => MovedTo(i, dk) \cap MovedTo(i, dl) = {} BY <1>1
<1>9. ASSUME i \in Known \ DOMAIN procs PROVE Moved(i) # {} /\ ~Silent(batch, i)
  <2>1. PICK f \in Flowing : ProcOf[f] = i BY <1>9 DEF Known
  <2>2. f \in Flows /\ batch[f] # NoElem BY DEF Flowing
  <2>3. PICK s \in batch[f].bytes : TRUE BY <1>2, <2>2
  <2>4. InBatch(s) /\ FlowOf[s] = f BY <1>2, <2>2, <2>3 DEF InBatch
  <2> QED BY <1>1, <2>1, <2>2, <2>4 DEF Silent
<1>10. ASSUME Moved(i) # {} PROVE i \in Known /\ ~Silent(batch, i)
  <2>1. PICK s : s \in Moved(i) BY <1>10
  <2>2. FlowOf[s] \in Flowing /\ ProcOf[FlowOf[s]] = i BY <1>1, <1>2, <2>1
  <2> QED BY <2>2 DEF Known, Flowing, Silent
<1> QED BY <1>3, <1>4, <1>6, <1>7, <1>8, <1>9, <1>10 DEF MovedOK

-----------------------------------------------------------------------------
(* What ingest makes of a process.                                          *)

\* The record ingest starts from.
Base(i) == IF i \in DOMAIN procs THEN procs[i] ELSE new_proc

\* What the loops do to the record of i, which becomes u.
UpdateOK(u, i, unread) ==
  /\ u \in Proc
  /\ u.total = Base(i).total \cup Moved(i)
  /\ u.rate = Moved(i)
  /\ u.dests = [dk \in DestKeys |-> Base(i).dests[dk] \cup MovedTo(i, dk)]
  /\ Base(i).ended \/ i \in pending \cup exits => u.ended
  /\ u.ended => Base(i).ended \/ i \in pending \cup exits \/ life[i] = "gone" \/ i \in unread
  /\ ~u.changed => Base(i).rate = {} /\ Moved(i) = {} /\ u.ended = Base(i).ended
  /\ u.ended /\ ~Base(i).ended /\ i \notin pending => u.endedAge = 0

\* The entry a tick starts from is well formed.
LEMMA BaseType ==
  ASSUME TypeOK, NEW i PROVE Base(i) \in Proc
<1>1. NoDests \in DestMap BY DEF NoDests, DestMap
<1>2. new_proc \in Proc BY <1>1, MaxAgeFacts DEF new_proc, Proc
<1> QED BY <1>2 DEF TypeOK, Base

\* The fields of a process's entry after the batch is counted.
LEMMA CountedFacts ==
  ASSUME TypeOK, KernelInv, NEW i, NEW dt \in Nat
  PROVE LET c == Counted(i, dt) IN
        /\ c \in Proc
        /\ c.total = Base(i).total \cup Moved(i)
        /\ c.rate = Moved(i)
        /\ c.dests = [dk \in DestKeys |-> Base(i).dests[dk] \cup MovedTo(i, dk)]
        /\ c.ended = Base(i).ended
        /\ c.changed = (Base(i).rate # {} \/ Moved(i) # {})
<1> DEFINE p == Base(i)
           m == Moved(i)
           d == [dk \in DestKeys |-> p.dests[dk] \cup MovedTo(i, dk)]
           sa == IF m # {} THEN 0 ELSE Older(p.seenAge, dt)
           ea == IF p.ended THEN Older(p.endedAge, dt) ELSE p.endedAge
           ch == (p.rate # {} \/ m # {})
           r == [total |-> p.total \cup m, rate |-> m, ended |-> p.ended, changed |-> ch,
                 endedAge |-> ea, seenAge |-> sa, dests |-> d]
<1>1. p \in Proc BY BaseType
<1>2. m \subseteq Sends /\ \A dk \in DestKeys : MovedTo(i, dk) \subseteq Sends
  BY MovedFacts DEF MovedOK
<1>3. p.dests \in DestMap /\ p.endedAge \in Ages /\ p.seenAge \in Ages /\ p.ended \in BOOLEAN
      /\ p.total \subseteq Sends
  BY <1>1 DEF Proc
<1>4. d \in DestMap BY <1>2, <1>3 DEF DestMap
<1>5. sa \in Ages /\ ea \in Ages BY <1>3, MaxAgeFacts, OlderFacts
<1>6. Counted(i, dt) = [p EXCEPT !.total = p.total \cup m, !.rate = m, !.changed = ch,
                                 !.seenAge = sa, !.endedAge = ea, !.dests = d]
  BY DEF Counted, Base
<1> HIDE DEF d, m, sa, ea, ch, p
<1>7. ch \in BOOLEAN BY DEF ch
<1>8. Counted(i, dt) = r BY <1>1, <1>6 DEF Proc
<1>9. r \in Proc BY <1>2, <1>3, <1>4, <1>5, <1>7 DEF Proc
<1> QED BY <1>8, <1>9, SMTT(30) DEF d, m, ch, p

\* The fields of an entry at the end of the tick.
LEMMA UpdatedFacts ==
  ASSUME TypeOK, KernelInv, NEW dt \in Nat, NEW unread, NEW i \in Known
  PROVE UpdateOK(Updated(dt, unread)[i], i, unread)
<1> DEFINE c == Counted(i, dt)
           e == Exited(i, c, dt)
           u == sweep_dead(i, e, dt, unread)
<1>1. /\ c \in Proc
      /\ c.total = Base(i).total \cup Moved(i)
      /\ c.rate = Moved(i)
      /\ c.dests = [dk \in DestKeys |-> Base(i).dests[dk] \cup MovedTo(i, dk)]
      /\ c.ended = Base(i).ended
      /\ c.changed = (Base(i).rate # {} \/ Moved(i) # {})
  BY CountedFacts
<1> HIDE DEF c
<1>2. Older(0, dt) \in Ages /\ 0 \in Ages BY MaxAgeFacts, OlderFacts
<1>3. /\ e \in Proc /\ e.total = c.total /\ e.rate = c.rate /\ e.dests = c.dests
      /\ c.ended \/ i \in pending \cup exits => e.ended
      /\ e.ended => c.ended \/ i \in pending \cup exits
      /\ e = c \/ (e.changed /\ e.ended)
      /\ e.ended /\ ~c.ended /\ i \notin pending => e.endedAge = 0
  BY <1>1, <1>2 DEF Exited, Proc
<1> HIDE DEF e
<1>4. /\ u \in Proc /\ u.total = e.total /\ u.rate = e.rate /\ u.dests = e.dests
      /\ e.ended => u = e
      /\ u.ended => e.ended \/ life[i] = "gone" \/ i \in unread
      /\ u = e \/ (u.changed /\ u.ended /\ u.endedAge = 0)
  BY <1>2, <1>3 DEF sweep_dead, proc_starttime_ticks, Proc
<1>5. Updated(dt, unread)[i] = u BY DEF Updated, e, c
<1> HIDE DEF u
<1>6. u \in Proc /\ u.total = c.total /\ u.rate = c.rate /\ u.dests = c.dests BY <1>3, <1>4
<1>7. c.ended \/ i \in pending \cup exits => u.ended BY <1>3, <1>4
<1>8. u.ended => c.ended \/ i \in pending \cup exits \/ life[i] = "gone" \/ i \in unread BY <1>3, <1>4
<1>9. ~u.changed => u = c BY <1>3, <1>4
<1>10. u.ended /\ ~c.ended /\ i \notin pending => u.endedAge = 0 BY <1>3, <1>4
<1> QED BY <1>1, <1>5, <1>6, <1>7, <1>8, <1>9, <1>10 DEF UpdateOK

\* The table after ingest: the updated entries, less the ended ones past retention.
LEMMA IngestProcs ==
  ASSUME TypeOK, KernelInv, NEW dt \in Steps, NEW unread \in SUBSET Insts, Ingest(dt, unread)
  PROVE /\ DOMAIN procs' \subseteq Known
        /\ \A i \in Known : UpdateOK(Updated(dt, unread)[i], i, unread)
        /\ \A i \in DOMAIN procs' : procs'[i] = Updated(dt, unread)[i]
        /\ \A i \in Known \ DOMAIN procs' : Updated(dt, unread)[i].ended /\ Updated(dt, unread)[i].endedAge >= Retain
<1> DEFINE ps == Updated(dt, unread)
<1>1. procs' = Pruned(ps) \/ procs' = ps BY DEF Ingest
<1>2. DOMAIN ps = Known BY DEF Updated
<1>3. dt \in Nat BY AggregatorAssumption
<1>4. \A i \in Known : UpdateOK(ps[i], i, unread) BY <1>3, UpdatedFacts
<1>5. \A i \in Known : ps[i].ended \in BOOLEAN /\ ps[i].endedAge \in Nat
  <2>1. \A p \in Proc : p.ended \in BOOLEAN /\ p.endedAge \in Ages BY DEF Proc
  <2>2. Ages \subseteq Nat BY MaxAgeFacts, SMTT(30) DEF Ages
  <2>3. \A i \in Known : ps[i] \in Proc BY <1>4 DEF UpdateOK
  <2> HIDE DEF ps
  <2> QED BY <2>1, <2>2, <2>3
<1> HIDE DEF ps
<1>6. CASE procs' = ps BY <1>2, <1>4, <1>6 DEF ps
<1>7. CASE procs' = Pruned(ps)
  <2>1. DOMAIN procs' = {j \in Known : ~ps[j].ended \/ ps[j].endedAge < Retain} BY <1>2, <1>7 DEF Pruned
  <2>2. \A i \in DOMAIN procs' : procs'[i] = ps[i] BY <1>7 DEF Pruned
  <2>3. \A i \in Known \ DOMAIN procs' : ps[i].ended /\ ps[i].endedAge >= Retain
    BY <1>5, <2>1, AggregatorAssumption, SMTT(30)
  <2> QED BY <1>4, <2>1, <2>2, <2>3 DEF ps
<1> QED BY <1>1, <1>6, <1>7

-----------------------------------------------------------------------------
(* The kernel side.                                                         *)

\* m2 is map m after send s was added.
PutIn(m, m2, s) ==
  /\ m2 \in [Flows -> Elem]
  /\ m2[FlowOf[s]].bytes = m[FlowOf[s]].bytes \cup {s}
  /\ \A g \in Flows \ {FlowOf[s]} : m2[g] = m[g]

\* What one send does to the maps and to the processes' lives.
LEMMA SendFacts ==
  ASSUME TypeOK, NEW s \in Sends, Send(s)
  PROVE /\ s \notin sent /\ sent' = sent \cup {s} /\ FlowOf[s] \in Flows /\ ProcOf[FlowOf[s]] \in Insts
        /\ life[ProcOf[FlowOf[s]]] \notin Ended \/ stray
        /\ \/ PutIn(active, active', s) /\ idle' = idle
           \/ stray /\ PutIn(idle, idle', s) /\ active' = active
        /\ life' \in [Insts -> {"unborn", "running", "zombie", "gone"}]
        /\ \A i \in Insts : life[i] \in Ended => life'[i] \in Ended
        /\ UNCHANGED <<stray, batch, phase, exits, state, history>>
<1> DEFINE f == FlowOf[s]
           i == ProcOf[f]
           Put(map) == [map EXCEPT ![f] = IF @ = NoElem THEN [bytes |-> {s}, head |-> HeadOf[s]]
                                          ELSE [bytes |-> @.bytes \cup {s}, head |-> @.head]]
<1>1. f \in Flows /\ i \in Insts BY AggregatorAssumption
<1>2. HeadOf[s] \in Apps BY DEF Apps
<1>3. ASSUME NEW m \in [Flows -> Elem] PROVE PutIn(m, Put(m), s)
  <2> DEFINE e == IF m[f] = NoElem THEN [bytes |-> {s}, head |-> HeadOf[s]]
                  ELSE [bytes |-> m[f].bytes \cup {s}, head |-> m[f].head]
  <2>1. m[f] \in Elem BY <1>1
  <2>2. e \in Elem /\ e.bytes = m[f].bytes \cup {s} BY <1>2, <2>1, SMTT(30) DEF Elem, NoElem
  <2>3. Put(m) = [m EXCEPT ![f] = e] OBVIOUS
  <2> HIDE DEF e, f
  <2>4. Put(m) \in [Flows -> Elem] /\ Put(m)[f] = e /\ \A g \in Flows \ {f} : Put(m)[g] = m[g]
    BY <1>1, <2>2, <2>3
  <2> QED BY <2>2, <2>4 DEF PutIn, f
<1>4. \/ active' = Put(active) /\ idle' = idle
      \/ stray /\ idle' = Put(idle) /\ active' = active
  BY DEF Send
<1>5. active \in [Flows -> Elem] /\ idle \in [Flows -> Elem] BY DEF TypeOK
<1>6. \/ PutIn(active, active', s) /\ idle' = idle
      \/ stray /\ PutIn(idle, idle', s) /\ active' = active
  BY <1>3, <1>4, <1>5
<1>7. /\ s \notin sent /\ sent' = sent \cup {s}
      /\ life[i] \in {"unborn", "running"} \/ (life[i] = "zombie" /\ stray)
      /\ life' = [life EXCEPT ![i] = IF @ = "unborn" THEN "running" ELSE @]
      /\ UNCHANGED <<stray, batch, phase, exits, state, history>>
  BY DEF Send
<1>8. life \in [Insts -> {"unborn", "running", "zombie", "gone"}] BY DEF TypeOK
<1>9. /\ life' \in [Insts -> {"unborn", "running", "zombie", "gone"}]
      /\ \A j \in Insts : life[j] \in Ended => life'[j] \in Ended
  BY <1>1, <1>7, <1>8 DEF Ended
<1> QED BY <1>1, <1>6, <1>7, <1>9 DEF Ended

\* The steps other than an ingest.
Elsewhere ==
  /\ UNCHANGED <<stray, state, history>>
  /\ \A i \in Insts : life[i] \in Ended => life'[i] \in Ended

\* Every step is an ingest or leaves the aggregator alone.
LEMMA OtherSteps ==
  ASSUME TypeOK, [Next]_vars
  PROVE Elsewhere \/ \E dt \in Steps, unread \in SUBSET Insts : Ingest(dt, unread)
<1>0. life \in [Insts -> {"unborn", "running", "zombie", "gone"}] BY DEF TypeOK
<1>1. ASSUME NEW s \in Sends, Send(s) PROVE Elsewhere
  BY <1>1, SendFacts DEF Elsewhere
<1>2. ASSUME NEW i \in Insts, Exit(i) PROVE Elsewhere
  BY <1>0, <1>2 DEF Exit, Elsewhere, Ended
<1>3. ASSUME NEW i \in Insts, Reap(i) PROVE Elsewhere
  BY <1>0, <1>3 DEF Reap, Elsewhere, Ended
<1>4. CASE Flip BY <1>4 DEF Flip, Elsewhere
<1>5. CASE Drain BY <1>5 DEF Drain, Elsewhere
<1>6. CASE UNCHANGED vars BY <1>6 DEF vars, kernel, Elsewhere
<1> QED BY <1>1, <1>2, <1>3, <1>4, <1>5, <1>6 DEF Next

\* Every step keeps the kernel side well typed.
LEMMA KernelTypes ==
  ASSUME TypeOK, [Next]_vars
  PROVE /\ stray' \in Strays /\ life' \in [Insts -> {"unborn", "running", "zombie", "gone"}]
        /\ sent' \in SUBSET Sends /\ active' \in [Flows -> Elem] /\ idle' \in [Flows -> Elem]
        /\ batch' \in [Flows -> Elem] /\ phase' \in {"wait", "flipped", "drained"}
        /\ exits' \in SUBSET Insts
<1>0. /\ stray \in Strays /\ life \in [Insts -> {"unborn", "running", "zombie", "gone"}]
      /\ sent \in SUBSET Sends /\ active \in [Flows -> Elem] /\ idle \in [Flows -> Elem]
      /\ batch \in [Flows -> Elem] /\ phase \in {"wait", "flipped", "drained"}
      /\ exits \in SUBSET Insts
  BY DEF TypeOK
<1>n. NoElems \in [Flows -> Elem] BY DEF NoElems, NoElem, Elem, Apps
<1>1. ASSUME NEW s \in Sends, Send(s)
      PROVE /\ active' \in [Flows -> Elem] /\ idle' \in [Flows -> Elem] /\ sent' \in SUBSET Sends
            /\ life' \in [Insts -> {"unborn", "running", "zombie", "gone"}]
            /\ UNCHANGED <<stray, batch, phase, exits>>
  BY <1>0, <1>1, SendFacts DEF PutIn
<1>2. ASSUME NEW i \in Insts, Exit(i)
      PROVE /\ life' \in [Insts -> {"unborn", "running", "zombie", "gone"}] /\ exits' \in SUBSET Insts
            /\ UNCHANGED <<stray, sent, active, idle, batch, phase>>
  BY <1>0, <1>2 DEF Exit
<1>3. ASSUME NEW i \in Insts, Reap(i)
      PROVE /\ life' \in [Insts -> {"unborn", "running", "zombie", "gone"}]
            /\ UNCHANGED <<stray, sent, active, idle, batch, phase, exits>>
  BY <1>0, <1>3 DEF Reap
<1>4. CASE Flip BY <1>0, <1>4 DEF Flip
<1>5. CASE Drain BY <1>0, <1>n, <1>5 DEF Drain
<1>6. ASSUME NEW dt \in Steps, NEW unread \in SUBSET Insts, Ingest(dt, unread)
      PROVE /\ batch' = NoElems /\ phase' = "wait" /\ exits' = {}
            /\ UNCHANGED <<stray, life, sent, active, idle>>
  BY <1>6 DEF Ingest
<1>7. CASE UNCHANGED vars BY <1>0, <1>7 DEF vars, kernel
<1> QED BY <1>0, <1>n, <1>1, <1>2, <1>3, <1>4, <1>5, <1>6, <1>7 DEF Next

\* Every step keeps the kernel side's invariant.
LEMMA KernelStep ==
  ASSUME TypeOK, KernelInv, [Next]_vars
  PROVE KernelInv'
<1>0. /\ active \in [Flows -> Elem] /\ idle \in [Flows -> Elem] /\ batch \in [Flows -> Elem]
      /\ exits \subseteq Insts /\ pending \subseteq Insts /\ lastExits \subseteq Insts
      /\ life \in [Insts -> {"unborn", "running", "zombie", "gone"}]
      /\ drained \subseteq Sends
  BY DEF TypeOK
<1>k. /\ MapOK(active, sent) /\ MapOK(idle, sent) /\ MapOK(batch, sent)
      /\ Apart(active, idle, batch, drained)
      /\ drained \subseteq sent
      /\ phase # "drained" => batch = NoElems
      /\ ~stray /\ phase # "flipped" => idle = NoElems
      /\ \A i \in exits \cup pending \cup lastExits : life[i] \in Ended
  BY DEF KernelInv
<1>e. \A f \in Flows : NoElems[f] = NoElem /\ NoElem.bytes = {} BY DEF NoElems, NoElem
<1>n. \A S : MapOK(NoElems, S) BY <1>e DEF MapOK
<1>1. ASSUME NEW s \in Sends, Send(s) PROVE KernelInv'
  <2>1. /\ s \notin sent /\ sent' = sent \cup {s} /\ FlowOf[s] \in Flows
        /\ \/ PutIn(active, active', s) /\ idle' = idle
           \/ stray /\ PutIn(idle, idle', s) /\ active' = active
        /\ \A i \in Insts : life[i] \in Ended => life'[i] \in Ended
        /\ UNCHANGED <<stray, batch, phase, exits, state, history>>
    BY <1>1, SendFacts
  <2>2. ASSUME NEW m, MapOK(m, sent) PROVE MapOK(m, sent') BY <2>1, <2>2 DEF MapOK
  <2>3. ASSUME NEW m, NEW m2, MapOK(m, sent), PutIn(m, m2, s) PROVE MapOK(m2, sent')
    BY <2>1, <2>3, SMTT(30) DEF MapOK, PutIn
  <2>4. MapOK(active', sent') /\ MapOK(idle', sent') /\ MapOK(batch', sent')
    BY <1>k, <2>1, <2>2, <2>3
  <2>5. \A f \in Flows : s \notin active[f].bytes /\ s \notin idle[f].bytes /\ s \notin batch[f].bytes
    BY <1>k, <2>1 DEF MapOK
  <2>6. s \notin drained BY <1>k, <2>1
  <2>7. Apart(active', idle', batch', drained')
    <3>1. drained' = drained /\ batch' = batch BY <2>1 DEF history
    <3>2. CASE PutIn(active, active', s) /\ idle' = idle
      BY <1>k, <2>1, <2>5, <2>6, <3>1, <3>2, SMTT(30) DEF Apart, PutIn
    <3>3. CASE PutIn(idle, idle', s) /\ active' = active
      BY <1>k, <2>1, <2>5, <2>6, <3>1, <3>3, SMTT(30) DEF Apart, PutIn
    <3> QED BY <2>1, <3>2, <3>3
  <2> QED BY <1>0, <1>k, <2>1, <2>4, <2>7 DEF KernelInv, state, history
<1>2. ASSUME NEW i \in Insts, Exit(i) PROVE KernelInv'
  <2>1. /\ \A j \in exits' \cup pending \cup lastExits : life'[j] \in Ended
    BY <1>0, <1>2, <1>k, SMTT(30) DEF Exit, Ended
  <2>2. UNCHANGED <<stray, sent, active, idle, batch, phase, state, history>> BY <1>2 DEF Exit
  <2> QED BY <1>k, <2>1, <2>2 DEF KernelInv, state, history
<1>3. ASSUME NEW i \in Insts, Reap(i) PROVE KernelInv'
  <2>1. /\ \A j \in exits \cup pending \cup lastExits : life'[j] \in Ended
    BY <1>0, <1>3, <1>k DEF Reap, Ended
  <2>2. UNCHANGED <<stray, sent, active, idle, batch, phase, exits, state, history>> BY <1>3 DEF Reap
  <2> QED BY <1>k, <2>1, <2>2 DEF KernelInv, state, history
<1>4. CASE Flip
  <2>1. /\ idle' = active /\ active' = idle /\ phase = "wait" /\ phase' = "flipped"
        /\ UNCHANGED <<stray, life, sent, batch, exits, state, history>>
    BY <1>4 DEF Flip
  <2>2. Apart(idle, active, batch, drained) BY <1>k DEF Apart
  <2> QED BY <1>k, <2>1, <2>2 DEF KernelInv, state, history
<1>5. CASE Drain
  <2>1. /\ phase = "flipped" /\ phase' = "drained" /\ batch' = idle /\ idle' = NoElems
        /\ UNCHANGED <<stray, life, sent, active, exits, state, history>>
    BY <1>5 DEF Drain
  <2>2. Apart(active, NoElems, idle, drained) BY <1>e, <1>k DEF Apart
  <2> QED BY <1>k, <1>n, <2>1, <2>2 DEF KernelInv, state, history
<1>6. ASSUME NEW dt \in Steps, NEW unread \in SUBSET Insts, Ingest(dt, unread) PROVE KernelInv'
  <2>1. /\ phase = "drained" /\ phase' = "wait" /\ batch' = NoElems /\ exits' = {}
        /\ pending' = exits \ Known /\ lastExits' = exits
        /\ drained' = drained \cup MovedIn(Flows)
        /\ UNCHANGED <<stray, life, sent, active, idle>>
    BY <1>6 DEF Ingest, NewPending
  <2>2. \A s : s \in MovedIn(Flows) <=> \E f \in Flows : s \in batch[f].bytes BY DEF MovedIn
  <2>3. MovedIn(Flows) \subseteq sent BY <1>k, <2>2 DEF MapOK
  <2>4. \A f \in Flows : active[f].bytes \cap MovedIn(Flows) = {} /\ idle[f].bytes \cap MovedIn(Flows) = {}
    <3> SUFFICES ASSUME NEW f \in Flows, NEW s \in active[f].bytes \cup idle[f].bytes, NEW g \in Flows,
                        s \in batch[g].bytes
                 PROVE FALSE
      BY <2>2
    <3>1. FlowOf[s] = f /\ FlowOf[s] = g BY <1>k DEF MapOK
    <3> QED BY <1>k, <3>1 DEF Apart
  <2>5. Apart(active, idle, NoElems, drained') BY <1>e, <1>k, <2>1, <2>4 DEF Apart
  <2> QED BY <1>k, <1>n, <2>1, <2>3, <2>5 DEF KernelInv
<1>7. CASE UNCHANGED vars BY <1>7, <1>k DEF KernelInv, vars, kernel, state, history
<1> QED BY <1>1, <1>2, <1>3, <1>4, <1>5, <1>6, <1>7 DEF Next

-----------------------------------------------------------------------------
(* Labels and their cache.                                                  *)

\* What ingest does to the sniffing cache and to the labels it stands for.
LEMMA CacheFacts ==
  ASSUME TypeOK, CacheInv, NEW dt \in Steps, NEW unread \in SUBSET Insts, Ingest(dt, unread)
  PROVE /\ labels' \in [Flows -> [app : Apps, age : Ages]]
        /\ \A f \in DOMAIN cache' : f \in Flows /\ cache'[f] = labels'[f] /\ labels'[f].app # NoHead
        /\ \A f \in Flows \ DOMAIN cache' :
             ProcOf[f] \in DOMAIN procs' /\ labels'[f].age < CacheTtl =>
               f \notin DOMAIN cache /\ (f \in Flowing => batch[f].head = NoHead)
        /\ \A f \in Flows : labels[f].age <= labels'[f].age \/ f \in Flowing
        /\ \A f \in Flows \ Flowing : labels'[f].app = labels[f].app
        /\ \A f \in Flowing : labels'[f].app = sniffed(f)
<1> DEFINE c == UpdatedCache(dt)
<1>0. /\ labels \in [Flows -> [app : Apps, age : Ages]] /\ DOMAIN cache \subseteq Flows
      /\ \A f \in DOMAIN cache : cache[f] = labels[f] /\ cache[f] \in [app : Apps \ {NoHead}, age : Ages]
      /\ Flowing \subseteq Flows /\ dt \in Nat
  BY AggregatorAssumption DEF TypeOK, CacheInv, Flowing
<1>l. \A f \in Flows : labels[f].app \in Apps /\ labels[f].age \in Ages
  BY <1>0
<1>o. \A f \in Flows : Older(labels[f].age, dt) \in Ages /\ Older(labels[f].age, dt) >= labels[f].age
  BY <1>0, <1>l, OlderFacts
<1>1. labels' = [f \in Flows |-> IF f \in Flowing THEN [app |-> sniffed(f), age |-> 0]
                                 ELSE [app |-> labels[f].app, age |-> Older(labels[f].age, dt)]]
  BY DEF Ingest
<1>2. /\ \A f \in Flows : f \in Flowing => labels'[f] = [app |-> sniffed(f), age |-> 0]
      /\ \A f \in Flows : f \notin Flowing =>
           labels'[f] = [app |-> labels[f].app, age |-> Older(labels[f].age, dt)]
  BY <1>1
<1>3. labels' \in [Flows -> [app : Apps, age : Ages]]
  <2>1. \A f \in Flows : sniffed(f) \in Apps BY SniffedType
  <2>2. ASSUME NEW f \in Flows PROVE labels'[f] \in [app : Apps, age : Ages]
    <3>1. CASE f \in Flowing
      <4>1. labels'[f] = [app |-> sniffed(f), age |-> 0] BY <1>2, <3>1
      <4> QED BY <2>1, <4>1, MaxAgeFacts, SMTT(30)
    <3>2. CASE f \notin Flowing
      <4>1. labels'[f] = [app |-> labels[f].app, age |-> Older(labels[f].age, dt)] BY <1>2, <3>2
      <4>2. labels[f].app \in Apps /\ Older(labels[f].age, dt) \in Ages BY <1>l, <1>o
      <4> QED BY <4>1, <4>2, SMTT(30)
    <3> QED BY <3>1, <3>2
  <2> QED BY <1>1, <2>2
<1>4. DOMAIN c = DOMAIN cache \cup {g \in Flowing : batch[g].head # NoHead} BY DEF UpdatedCache
<1>5. ASSUME NEW f \in DOMAIN c PROVE f \in Flows /\ c[f] = labels'[f] /\ labels'[f].app # NoHead
  <2>1. f \in Flows BY <1>0, <1>4
  <2>2. c[f] = [app |-> sniffed(f), age |-> IF f \in Flowing THEN 0 ELSE Older(cache[f].age, dt)]
    BY <1>4 DEF UpdatedCache
  <2>3. sniffed(f) # NoHead BY <1>0, <1>4 DEF sniffed
  <2>4. CASE f \in Flowing
    <3>1. labels'[f] = [app |-> sniffed(f), age |-> 0] BY <1>2, <2>1, <2>4
    <3> QED BY <2>1, <2>2, <2>3, <2>4, <3>1, SMTT(30)
  <2>5. CASE f \notin Flowing
    <3>1. f \in DOMAIN cache /\ batch[f] = NoElem BY <1>4, <2>1, <2>5 DEF Flowing
    <3>2. batch[f].head = NoHead BY <3>1, SMTT(30) DEF NoElem
    <3>3. sniffed(f) = labels[f].app /\ cache[f].age = labels[f].age BY <1>0, <3>1, <3>2 DEF sniffed
    <3>4. labels'[f] = [app |-> labels[f].app, age |-> Older(labels[f].age, dt)] BY <1>2, <2>1, <2>5
    <3> QED BY <2>1, <2>2, <2>3, <2>5, <3>3, <3>4, SMTT(30)
  <2> QED BY <2>4, <2>5
<1> HIDE DEF c
<1>6. cache' = c \/ (cache' = PrunedCache(c, procs'))
  BY DEF Ingest, c
<1>7. DOMAIN cache' \subseteq DOMAIN c /\ \A f \in DOMAIN cache' : cache'[f] = c[f]
  BY <1>6 DEF PrunedCache
<1>8. ASSUME NEW f \in Flows \ DOMAIN cache', ProcOf[f] \in DOMAIN procs', labels'[f].age < CacheTtl
      PROVE f \notin DOMAIN c
  <2> SUFFICES ASSUME f \in DOMAIN c PROVE FALSE OBVIOUS
  <2>1. cache' = PrunedCache(c, procs') BY <1>6, <1>8
  <2>2. DOMAIN cache' = {g \in DOMAIN c : c[g].age < CacheTtl /\ ProcOf[g] \in DOMAIN procs'}
    BY <2>1 DEF PrunedCache
  <2> QED BY <1>5, <1>8, <2>2
<1>9. \A f \in Flows : labels[f].age <= labels'[f].age \/ f \in Flowing
  <2> SUFFICES ASSUME NEW f \in Flows, f \notin Flowing PROVE labels[f].age <= labels'[f].age OBVIOUS
  <2>0. labels'[f] = [app |-> labels[f].app, age |-> Older(labels[f].age, dt)] BY <1>2
  <2>1. labels'[f].age = Older(labels[f].age, dt) BY <2>0, SMTT(30)
  <2>2. \A a, b \in Ages : a >= b => b <= a BY MaxAgeFacts DEF Ages
  <2> QED BY <1>l, <1>o, <2>1, <2>2
<1>10. /\ \A f \in Flows \ Flowing : labels'[f].app = labels[f].app
       /\ \A f \in Flowing : labels'[f].app = sniffed(f)
  <2>1. ASSUME NEW f \in Flows \ Flowing PROVE labels'[f].app = labels[f].app
    <3>1. labels'[f] = [app |-> labels[f].app, age |-> Older(labels[f].age, dt)] BY <1>2
    <3> QED BY <3>1, SMTT(30)
  <2>2. ASSUME NEW f \in Flowing PROVE labels'[f].app = sniffed(f)
    <3>1. labels'[f] = [app |-> sniffed(f), age |-> 0] BY <1>0, <1>2
    <3> QED BY <3>1, SMTT(30)
  <2> QED BY <2>1, <2>2
<1> QED BY <1>3, <1>4, <1>5, <1>7, <1>8, <1>9, <1>10

\* Only instances are known to a tick.
LEMMA KnownInsts == TypeOK => Known \subseteq Insts
BY AggregatorAssumption, SMTT(30) DEF TypeOK, Known, Flowing

\* Every step keeps the types.
LEMMA TypeStep ==
  ASSUME TypeOK, KernelInv, CacheInv, [Next]_vars
  PROVE TypeOK'
<1>1. CASE Elsewhere
  <2>1. UNCHANGED <<procs, cache, pending, sweepAge, pruneAge, mirror, mirrorDests, drained, lastExits, labels,
                    misread>>
    BY <1>1 DEF Elsewhere, state, history
  <2>2. /\ DOMAIN procs \subseteq Insts /\ \A i \in DOMAIN procs : procs[i] \in Proc
        /\ DOMAIN cache \subseteq Flows
        /\ \A f \in DOMAIN cache : cache[f] \in [app : Apps \ {NoHead}, age : Ages]
        /\ pending \in SUBSET Insts /\ sweepAge \in Ages /\ pruneAge \in Ages
        /\ mirror \in [Insts -> View] /\ mirrorDests \in [Insts -> DestMap]
        /\ drained \in SUBSET Sends /\ lastExits \in SUBSET Insts
        /\ labels \in [Flows -> [app : Apps, age : Ages]] /\ misread \in SUBSET Insts
    BY DEF TypeOK
  <2> QED BY <2>1, <2>2, KernelTypes DEF TypeOK
<1>2. ASSUME NEW dt \in Steps, NEW unread \in SUBSET Insts, Ingest(dt, unread) PROVE TypeOK'
  <2> DEFINE ps == Updated(dt, unread)
  <2>0. /\ mirror \in [Insts -> View] /\ mirrorDests \in [Insts -> DestMap]
        /\ drained \subseteq Sends /\ exits \subseteq Insts /\ sweepAge \in Ages /\ pruneAge \in Ages
        /\ dt \in Nat /\ misread \subseteq Insts
    BY AggregatorAssumption DEF TypeOK
  <2>1. /\ DOMAIN procs' \subseteq Known
        /\ \A i \in Known : UpdateOK(ps[i], i, unread)
        /\ \A i \in DOMAIN procs' : procs'[i] = ps[i]
    BY <1>2, IngestProcs
  <2> HIDE DEF ps
  <2>2. \A i \in Known : ps[i] \in Proc BY <2>1 DEF UpdateOK
  <2>3. DOMAIN procs' \subseteq Insts /\ \A i \in DOMAIN procs' : procs'[i] \in Proc
    BY <2>1, <2>2, KnownInsts
  <2>4. /\ labels' \in [Flows -> [app : Apps, age : Ages]]
        /\ \A f \in DOMAIN cache' : f \in Flows /\ cache'[f] = labels'[f] /\ labels'[f].app # NoHead
    BY <1>2, CacheFacts
  <2>5. \A f \in DOMAIN cache' : cache'[f] \in [app : Apps \ {NoHead}, age : Ages] BY <2>4
  <2>6. /\ pending' = exits \ Known /\ lastExits' = exits
        /\ sweepAge' = IF Older(sweepAge, dt) >= Liveness THEN 0 ELSE Older(sweepAge, dt)
        /\ pruneAge' = IF Older(pruneAge, dt) >= Retain THEN 0 ELSE Older(pruneAge, dt)
        /\ mirror' = [i \in Insts |-> IF i \in Known /\ ps[i].changed THEN ViewOf(ps[i]) ELSE mirror[i]]
        /\ mirrorDests' = [i \in Insts |-> [dk \in DestKeys |->
             IF MovedTo(i, dk) # {} THEN ps[i].dests[dk] ELSE mirrorDests[i][dk]]]
        /\ drained' = drained \cup MovedIn(Flows)
    BY <1>2 DEF Ingest, NewPending, ps
  <2>7. sweepAge' \in Ages /\ pruneAge' \in Ages BY <2>0, <2>6, OlderFacts, MaxAgeFacts
  <2>8. \A i \in Known : ViewOf(ps[i]) \in View BY <2>2 DEF ViewOf, View, Proc
  <2>9. mirror' \in [Insts -> View] BY <2>0, <2>6, <2>8
  <2>10. mirrorDests' \in [Insts -> DestMap]
    <3>1. ASSUME NEW i \in Insts, NEW dk \in DestKeys
          PROVE (IF MovedTo(i, dk) # {} THEN ps[i].dests[dk] ELSE mirrorDests[i][dk]) \in SUBSET Sends
      <4>1. MovedTo(i, dk) # {} => i \in Known BY MovedFacts DEF MovedOK
      <4>2. i \in Known => ps[i].dests \in DestMap BY <2>2 DEF Proc
      <4> QED BY <2>0, <4>1, <4>2 DEF DestMap
    <3> QED BY <2>6, <3>1 DEF DestMap
  <2>11. drained' \subseteq Sends
    <3>1. \A s \in MovedIn(Flows) : s \in Sends BY MovedChar DEF InBatch
    <3> QED BY <2>0, <2>6, <3>1
  <2>12. misread' \subseteq Insts BY <1>2, <2>0 DEF Ingest
  <2> QED BY <2>0, <2>3, <2>4, <2>5, <2>6, <2>7, <2>9, <2>10, <2>11, <2>12, KernelTypes DEF TypeOK
<1> QED BY <1>1, <1>2, OtherSteps

-----------------------------------------------------------------------------
(* The processes and what the consumer stores.                              *)

\* A record after the update.
LEMMA UpdatedOK ==
  ASSUME TypeOK, KernelInv, ProcsInv, NEW i \in Known, NEW unread, NEW u, UpdateOK(u, i, unread), NEW d,
         d = drained \cup MovedIn(Flows)
  PROVE ProcOK(u, d, i)
<1> DEFINE b == Base(i)
<1>1. /\ u.total = b.total \cup Moved(i) /\ u \in Proc
      /\ u.dests = [dk \in DestKeys |-> b.dests[dk] \cup MovedTo(i, dk)]
  BY DEF UpdateOK
<1>2. /\ b.total \subseteq DrainedOf(drained, i)
      /\ b.total = UNION {b.dests[dk] : dk \in DestKeys}
      /\ \A dk, dl \in DestKeys : dk # dl => b.dests[dk] \cap b.dests[dl] = {}
      /\ i \in DOMAIN procs => b.total # {}
  <2>1. CASE i \in DOMAIN procs BY <2>1, SMTT(30) DEF Base, ProcsInv, ProcOK
  <2>2. CASE i \notin DOMAIN procs
    <3>1. b.total = {} /\ \A dk \in DestKeys : b.dests[dk] = {} BY <2>2 DEF Base, new_proc, NoDests
    <3> QED BY <2>2, <3>1
  <2> QED BY <2>1, <2>2
<1>3. MovedOK(i) BY MovedFacts
<1> HIDE DEF b
<1>4. \A dk \in DestKeys : u.dests[dk] = b.dests[dk] \cup MovedTo(i, dk) BY <1>1
<1>5. u.total # {} BY <1>1, <1>2, <1>3 DEF MovedOK
<1>6. u.total \subseteq DrainedOf(d, i) BY <1>1, <1>2, <1>3 DEF MovedOK
<1>7. u.total = UNION {u.dests[dk] : dk \in DestKeys}
  <2>1. \A s : s \in b.total <=> \E dk \in DestKeys : s \in b.dests[dk] BY <1>2
  <2>2. \A s : s \in Moved(i) <=> \E dk \in DestKeys : s \in MovedTo(i, dk) BY <1>3 DEF MovedOK
  <2>3. \A s : s \in u.total <=> \E dk \in DestKeys : s \in u.dests[dk] BY <1>1, <1>4, <2>1, <2>2
  <2> QED BY <2>3
<1>8. ASSUME NEW dk \in DestKeys, NEW dl \in DestKeys, dk # dl PROVE u.dests[dk] \cap u.dests[dl] = {}
  <2>1. b.dests[dk] \subseteq drained /\ b.dests[dl] \subseteq drained BY <1>2 DEF DrainedOf
  <2>2. MovedTo(i, dk) \cap drained = {} /\ MovedTo(i, dl) \cap drained = {} BY <1>3 DEF MovedOK
  <2>3. MovedTo(i, dk) \cap MovedTo(i, dl) = {} BY <1>3, <1>8 DEF MovedOK
  <2>4. b.dests[dk] \cap b.dests[dl] = {} BY <1>2, <1>8
  <2> QED BY <1>4, <2>1, <2>2, <2>3, <2>4
<1> QED BY <1>5, <1>6, <1>7, <1>8 DEF ProcOK

\* After an ingest the consumer has the record of every process it knew of.
LEMMA MirrorFacts ==
  ASSUME TypeOK, KernelInv, ProcsInv, NEW dt \in Steps, NEW unread \in SUBSET Insts, Ingest(dt, unread)
  PROVE /\ \A i \in Known : mirror'[i] = ViewOf(Updated(dt, unread)[i])
        /\ \A i \in Insts \ Known : mirror'[i] = mirror[i]
        /\ \A i \in Insts, dk \in DestKeys : mirrorDests'[i][dk] =
             IF MovedTo(i, dk) # {} THEN Updated(dt, unread)[i].dests[dk] ELSE mirrorDests[i][dk]
<1> DEFINE ps == Updated(dt, unread)
<1>1. /\ mirror' = [i \in Insts |-> IF i \in Known /\ ps[i].changed THEN ViewOf(ps[i]) ELSE mirror[i]]
      /\ mirrorDests' = [i \in Insts |-> [dk \in DestKeys |->
           IF MovedTo(i, dk) # {} THEN ps[i].dests[dk] ELSE mirrorDests[i][dk]]]
  BY DEF Ingest
<1>2. \A i \in Known : UpdateOK(ps[i], i, unread) BY IngestProcs
<1>3. Known \subseteq Insts BY KnownInsts
<1> HIDE DEF ps
<1>4. ASSUME NEW i \in Known PROVE mirror'[i] = ViewOf(ps[i])
  <2>1. CASE ps[i].changed BY <1>1, <1>3, <2>1
  <2>2. CASE ~ps[i].changed
    <3>1. /\ Base(i).rate = {} /\ Moved(i) = {} /\ ps[i].ended = Base(i).ended
          /\ ps[i].total = Base(i).total \cup Moved(i) /\ ps[i].rate = Moved(i)
      BY <1>2, <2>2 DEF UpdateOK
    <3>2. i \in DOMAIN procs BY <3>1, MovedFacts DEF MovedOK
    <3>3. mirror[i] = ViewOf(procs[i]) /\ Base(i) = procs[i] BY <3>2 DEF ProcsInv, Base
    <3>4. ViewOf(ps[i]) = ViewOf(procs[i]) BY <3>1, <3>3 DEF ViewOf
    <3> QED BY <1>1, <1>3, <2>2, <3>3, <3>4
  <2> QED BY <2>1, <2>2
<1>5. \A i \in Insts \ Known : mirror'[i] = mirror[i] BY <1>1
<1>6. \A i \in Insts, dk \in DestKeys : mirrorDests'[i][dk] =
        IF MovedTo(i, dk) # {} THEN ps[i].dests[dk] ELSE mirrorDests[i][dk]
  BY <1>1
<1> QED BY <1>4, <1>5, <1>6 DEF ps

\* An entry is marked ended only when its process has ended or was misread.
LEMMA EndedFacts ==
  ASSUME TypeOK, KernelInv, ProcsInv, NEW i \in Known, NEW unread, NEW u, UpdateOK(u, i, unread), u.ended
  PROVE life[i] \in Ended \/ i \in misread \/ i \in unread
<1>1. Base(i).ended \/ i \in pending \cup exits \/ life[i] = "gone" \/ i \in unread BY DEF UpdateOK
<1>2. CASE Base(i).ended
  <2>1. i \in DOMAIN procs /\ procs[i].ended BY <1>2 DEF Base, new_proc
  <2> QED BY <2>1 DEF ProcsInv
<1> QED BY <1>1, <1>2 DEF KernelInv, Ended

\* Every step keeps the invariant of the process table.
LEMMA ProcsStep ==
  ASSUME TypeOK, KernelInv, ProcsInv, [Next]_vars
  PROVE ProcsInv'
<1>0. DOMAIN procs \subseteq Insts BY DEF TypeOK
<1>1. CASE Elsewhere
  <2>1. UNCHANGED <<procs, mirror, mirrorDests, drained, misread>> BY <1>1 DEF Elsewhere, state, history
  <2> QED BY <1>0, <1>1, <2>1 DEF Elsewhere, ProcsInv
<1>2. ASSUME NEW dt \in Steps, NEW unread \in SUBSET Insts, Ingest(dt, unread) PROVE ProcsInv'
  <2> DEFINE ps == Updated(dt, unread)
  <2>1. /\ DOMAIN procs' \subseteq Known
        /\ \A i \in Known : UpdateOK(ps[i], i, unread)
        /\ \A i \in DOMAIN procs' : procs'[i] = ps[i]
        /\ \A i \in Known \ DOMAIN procs' : ps[i].ended
    BY <1>2, IngestProcs
  <2>2. /\ \A i \in Known : mirror'[i] = ViewOf(ps[i])
        /\ \A i \in Insts \ Known : mirror'[i] = mirror[i]
        /\ \A i \in Insts, dk \in DestKeys : mirrorDests'[i][dk] =
             IF MovedTo(i, dk) # {} THEN ps[i].dests[dk] ELSE mirrorDests[i][dk]
    BY <1>2, MirrorFacts
  <2>3. /\ drained' = drained \cup MovedIn(Flows) /\ life' = life
        /\ misread' = misread \cup {i \in Known \cap unread : life[i] \notin Ended /\ ps[i].ended}
    BY <1>2 DEF Ingest, Ended
  <2> HIDE DEF ps
  <2>4. \A i \in Known : ProcOK(ps[i], drained', i) BY <2>1, <2>3, UpdatedOK
  <2>5. \A i \in Known : ps[i].ended => life[i] \in Ended \/ i \in misread'
    <3>1. \A i \in Known : ps[i].ended => life[i] \in Ended \/ i \in misread \/ i \in unread
      BY <2>1, EndedFacts
    <3> QED BY <2>3, <3>1
  <2>6. \A i : DrainedOf(drained, i) \subseteq DrainedOf(drained', i) BY <2>3 DEF DrainedOf
  <2>7. \A i \in Known : ViewOf(ps[i]).ended = ps[i].ended /\ ViewOf(ps[i]).total = ps[i].total
    BY DEF ViewOf
  <2>8. ASSUME NEW i \in Insts
        PROVE /\ i \notin DOMAIN procs' => mirror'[i].ended
              /\ mirror'[i].total \subseteq DrainedOf(drained', i)
              /\ \A dk \in DestKeys : mirrorDests'[i][dk] \subseteq DrainedOf(drained', i)
    <3>1. CASE i \in Known
      <4>1. ps[i].total \subseteq DrainedOf(drained', i) BY <2>4, <3>1 DEF ProcOK
      <4>2. \A dk \in DestKeys : ps[i].dests[dk] \subseteq DrainedOf(drained', i)
        BY <2>4, <3>1, <4>1 DEF ProcOK
      <4>3. \A dk \in DestKeys : mirrorDests[i][dk] \subseteq DrainedOf(drained', i)
        BY <2>6 DEF ProcsInv
      <4> QED BY <2>1, <2>2, <2>7, <3>1, <4>1, <4>2, <4>3
    <3>2. CASE i \notin Known
      <4>1. i \notin DOMAIN procs /\ mirror'[i] = mirror[i] BY <2>2, <3>2 DEF Known
      <4>2. \A dk \in DestKeys : MovedTo(i, dk) = {} BY <3>2, MovedFacts DEF MovedOK
      <4>3. \A dk \in DestKeys : mirrorDests'[i][dk] = mirrorDests[i][dk] BY <2>2, <4>2
      <4> QED BY <2>6, <4>1, <4>3 DEF ProcsInv
    <3> QED BY <3>1, <3>2
  <2> QED BY <2>1, <2>2, <2>3, <2>4, <2>5, <2>8 DEF ProcsInv
<1> QED BY <1>1, <1>2, OtherSteps

-----------------------------------------------------------------------------
(* Without strays.                                                          *)

\* A process that is new to ingest never had a send ingested.
LEMMA NeverBefore ==
  ASSUME TypeOK, KernelInv, ExactInv, ~stray, NEW i \in Known \ DOMAIN procs, i \notin misread
  PROVE DrainedOf(drained, i) = {}
<1>1. i \in Insts BY KnownInsts
<1>2. ~Silent(batch, i) BY MovedFacts DEF MovedOK
<1> QED BY <1>1, <1>2 DEF ExactInv

\* Ingest keeps the totals exact.
LEMMA ExactIngest ==
  ASSUME TypeOK, KernelInv, ProcsInv, ExactInv, NEW dt \in Steps, NEW unread \in SUBSET Insts, Ingest(dt, unread)
  PROVE ExactInv'
<1> SUFFICES ASSUME ~stray PROVE ExactInv' BY DEF ExactInv, Ingest
<1> DEFINE ps == Updated(dt, unread)
<1>1. /\ DOMAIN procs' \subseteq Known
      /\ \A i \in Known : UpdateOK(ps[i], i, unread)
      /\ \A i \in DOMAIN procs' : procs'[i] = ps[i]
      /\ \A i \in Known \ DOMAIN procs' : ps[i].ended /\ ps[i].endedAge >= Retain
  BY IngestProcs
<1>2. \A i \in Insts, dk \in DestKeys : mirrorDests'[i][dk] =
        IF MovedTo(i, dk) # {} THEN ps[i].dests[dk] ELSE mirrorDests[i][dk]
  BY MirrorFacts
<1>3. /\ drained' = drained \cup MovedIn(Flows) /\ phase = "drained" /\ phase' = "wait"
      /\ pending' = exits \ Known /\ lastExits' = exits /\ batch' = NoElems
      /\ UNCHANGED <<stray, life, active, idle>>
      /\ misread' = misread \cup {i \in Known \cap unread : life[i] \notin Ended /\ ps[i].ended}
  BY DEF Ingest, NewPending, Ended
<1> HIDE DEF ps
<1>4. \A i : MovedOK(i) BY MovedFacts
<1>5. \A i : DrainedOf(drained', i) = DrainedOf(drained, i) \cup Moved(i) BY <1>3, <1>4 DEF MovedOK
<1>6. \A i \in Known : ProcOK(ps[i], drained', i) BY <1>1, <1>3, UpdatedOK
<1>7. \A i : Silent(NoElems, i) BY DEF Silent, NoElems
<1>8. idle = NoElems BY <1>3 DEF KernelInv
<1>9. ASSUME NEW i \in DOMAIN procs' \ misread' PROVE DrainedOf(drained', i) \subseteq procs'[i].total
  <2>1. i \in Known /\ procs'[i] = ps[i] /\ ps[i].total = Base(i).total \cup Moved(i) /\ i \notin misread
    BY <1>1, <1>3 DEF UpdateOK
  <2>2. DrainedOf(drained, i) \subseteq Base(i).total
    <3>1. CASE i \in DOMAIN procs BY <2>1, <3>1 DEF ExactInv, Base
    <3>2. CASE i \notin DOMAIN procs BY <2>1, <3>2, NeverBefore
    <3> QED BY <3>1, <3>2
  <2> QED BY <1>5, <2>1, <2>2
<1>10. ASSUME NEW i \in DOMAIN procs' \ misread' PROVE mirrorDests'[i] = procs'[i].dests
  <2>1. i \in Known /\ i \in Insts /\ procs'[i] = ps[i] /\ ps[i].dests \in DestMap /\ i \notin misread
        /\ ps[i].dests = [dk \in DestKeys |-> Base(i).dests[dk] \cup MovedTo(i, dk)]
    BY <1>1, <1>3, KnownInsts DEF UpdateOK, Proc
  <2>2. \A dk \in DestKeys : mirrorDests[i][dk] = Base(i).dests[dk]
    <3>1. CASE i \in DOMAIN procs BY <2>1, <3>1 DEF ExactInv, Base
    <3>2. CASE i \notin DOMAIN procs
      <4>1. DrainedOf(drained, i) = {} BY <2>1, <3>2, NeverBefore
      <4>2. \A dk \in DestKeys : mirrorDests[i][dk] = {} BY <2>1, <4>1 DEF ProcsInv
      <4>3. \A dk \in DestKeys : Base(i).dests[dk] = {} BY <3>2 DEF Base, new_proc, NoDests
      <4> QED BY <4>2, <4>3
    <3> QED BY <3>1, <3>2
  <2>3. \A dk \in DestKeys : mirrorDests'[i][dk] = ps[i].dests[dk] BY <1>2, <2>1, <2>2, SMTT(30)
  <2>4. mirrorDests'[i] = [dk \in DestKeys |->
          IF MovedTo(i, dk) # {} THEN ps[i].dests[dk] ELSE mirrorDests[i][dk]]
    BY <2>1 DEF Ingest, ps
  <2> QED BY <2>1, <2>2, <2>4 DEF DestMap
<1>11. ASSUME NEW i \in Insts \ (DOMAIN procs' \cup misread'), DrainedOf(drained', i) # {}
       PROVE life[i] \in Ended /\ Silent(active, i)
  <2>0. i \notin misread BY <1>3, <1>11
  <2>1. CASE i \in Known
    <3>1. UpdateOK(ps[i], i, unread) /\ ps[i].ended /\ ps[i].endedAge >= Retain BY <1>1, <1>11, <2>1
    <3>2. ps[i].endedAge # 0 BY <3>1, AggregatorAssumption, SMTT(30)
    <3>3. Base(i).ended \/ i \in pending BY <3>1, <3>2 DEF UpdateOK
    <3>4. life[i] \in Ended
      <4>1. life[i] \in Ended \/ i \in misread \/ i \in unread BY <2>1, <3>1, EndedFacts
      <4> QED BY <1>3, <1>11, <2>1, <3>1, <4>1
    <3>5. CASE Base(i).ended
      <4>1. i \in DOMAIN procs /\ procs[i].ended BY <3>5 DEF Base, new_proc
      <4> QED BY <1>3, <2>0, <3>4, <4>1 DEF ExactInv
    <3>6. CASE i \in pending BY <1>3, <3>4, <3>6 DEF ExactInv
    <3> QED BY <3>3, <3>5, <3>6
  <2>2. CASE i \notin Known
    <3>1. i \notin DOMAIN procs BY <2>2 DEF Known
    <3>2. Moved(i) = {} BY <1>4, <2>2 DEF MovedOK
    <3>3. DrainedOf(drained, i) # {} BY <1>5, <1>11, <3>2
    <3> QED BY <2>0, <3>1, <3>3 DEF ExactInv
  <2> QED BY <2>1, <2>2
<1>12. ASSUME NEW i \in exits
       PROVE \/ i \in pending'
             \/ i \in DOMAIN procs' /\ procs'[i].ended
             \/ i \notin DOMAIN procs' /\ DrainedOf(drained', i) # {}
  <2>1. CASE i \in Known
    <3>1. ps[i].ended BY <1>1, <2>1 DEF UpdateOK
    <3>2. DrainedOf(drained', i) # {} BY <1>6, <2>1 DEF ProcOK
    <3> QED BY <1>1, <3>1, <3>2
  <2>2. CASE i \notin Known BY <1>3, <2>2
  <2> QED BY <2>1, <2>2
<1> QED BY <1>3, <1>7, <1>8, <1>9, <1>10, <1>11, <1>12 DEF ExactInv

\* Every step keeps the totals exact.
LEMMA ExactStep ==
  ASSUME TypeOK, KernelInv, ProcsInv, ExactInv, [Next]_vars
  PROVE ExactInv'
<1> DEFINE
      Sil == /\ \A i \in DOMAIN procs \ misread : procs[i].ended /\ phase' # "wait" => Silent(active', i)
             /\ \A i \in pending : phase' # "wait" => Silent(active', i)
             /\ \A i \in Insts \ (DOMAIN procs \cup misread) : DrainedOf(drained, i) # {} =>
                  Silent(active', i) /\ Silent(idle', i) /\ Silent(batch', i)
<1>1. ASSUME Elsewhere, ~stray => Sil PROVE ExactInv'
  <2>1. UNCHANGED <<stray, procs, pending, mirrorDests, drained, lastExits, misread>>
    BY <1>1 DEF Elsewhere, state, history
  <2> SUFFICES ASSUME ~stray PROVE ExactInv' BY <2>1 DEF ExactInv
  <2>2. Sil BY <1>1
  <2>3. \A i \in DOMAIN procs' \ misread' :
                                 /\ DrainedOf(drained', i) \subseteq procs'[i].total
                                 /\ mirrorDests'[i] = procs'[i].dests
                                 /\ procs'[i].ended /\ phase' # "wait" => Silent(active', i)
    BY <2>1, <2>2 DEF ExactInv
  <2>4. \A i \in pending' : phase' # "wait" => Silent(active', i) BY <2>1, <2>2
  <2>5. \A i \in Insts \ (DOMAIN procs' \cup misread') : DrainedOf(drained', i) # {} =>
          life'[i] \in Ended /\ Silent(active', i) /\ Silent(idle', i) /\ Silent(batch', i)
    <3>1. \A i \in Insts \ (DOMAIN procs \cup misread) : DrainedOf(drained, i) # {} => life[i] \in Ended
      BY DEF ExactInv
    <3>2. \A i \in Insts : life[i] \in Ended => life'[i] \in Ended BY <1>1 DEF Elsewhere
    <3> QED BY <2>1, <2>2, <3>1, <3>2
  <2>6. \A i \in lastExits' : \/ i \in pending'
                              \/ i \in DOMAIN procs' /\ procs'[i].ended
                              \/ i \notin DOMAIN procs' /\ DrainedOf(drained', i) # {}
    BY <2>1 DEF ExactInv
  <2> QED BY <2>3, <2>4, <2>5, <2>6 DEF ExactInv
<1> HIDE DEF Sil
<1>2. ASSUME NEW s \in Sends, Send(s), ~stray PROVE Sil
  <2>1. /\ FlowOf[s] \in Flows /\ ProcOf[FlowOf[s]] \in Insts /\ life[ProcOf[FlowOf[s]]] \notin Ended
        /\ PutIn(active, active', s) /\ idle' = idle /\ batch' = batch /\ phase' = phase
    BY <1>2, SendFacts
  <2>2. ASSUME NEW i, life[i] \in Ended, Silent(active, i) PROVE Silent(active', i)
    BY <2>1, <2>2 DEF Silent, PutIn
  <2>3. /\ \A i \in DOMAIN procs \ misread : procs[i].ended => life[i] \in Ended
        /\ \A i \in pending : life[i] \in Ended
    BY DEF ProcsInv, KernelInv
  <2> QED BY <1>2, <2>1, <2>2, <2>3 DEF ExactInv, Sil
<1>3. ASSUME NEW i \in Insts, Exit(i) \/ Reap(i), ~stray PROVE Sil
  BY <1>3 DEF Exit, Reap, ExactInv, Sil
<1>n. \A i : Silent(NoElems, i) BY DEF Silent, NoElems
<1>4. ASSUME Flip, ~stray PROVE Sil
  <2>1. active' = NoElems /\ idle' = active /\ batch' = batch BY <1>4 DEF Flip, KernelInv
  <2> QED BY <1>4, <1>n, <2>1 DEF ExactInv, Sil
<1>5. ASSUME Drain, ~stray PROVE Sil
  <2>1. active' = active /\ idle' = NoElems /\ batch' = idle /\ phase = "flipped" BY <1>5 DEF Drain
  <2> QED BY <1>5, <1>n, <2>1 DEF ExactInv, Sil
<1>6. ASSUME UNCHANGED vars, ~stray PROVE Sil BY <1>6 DEF vars, kernel, ExactInv, Sil
<1>7. ASSUME NEW dt \in Steps, NEW unread \in SUBSET Insts, Ingest(dt, unread) PROVE ExactInv' BY <1>7, ExactIngest
<1>8. CASE ~\E dt \in Steps, unread \in SUBSET Insts : Ingest(dt, unread)
  <2>1. Elsewhere BY <1>8, OtherSteps
  <2>2. ~stray => Sil BY <1>2, <1>3, <1>4, <1>5, <1>6, <1>8 DEF Next
  <2> QED BY <1>1, <2>1, <2>2
<1> QED BY <1>7, <1>8

\* Every step keeps the invariant of the cache.
LEMMA CacheStep ==
  ASSUME TypeOK, KernelInv, ProcsInv, ExactInv, CacheInv, [Next]_vars
  PROVE CacheInv'
<1>1. CASE Elsewhere
  <2>1. UNCHANGED <<stray, procs, cache, labels, drained, misread>> BY <1>1 DEF Elsewhere, state, history
  <2> QED BY <2>1 DEF CacheInv
<1>2. ASSUME NEW dt \in Steps, NEW unread \in SUBSET Insts, Ingest(dt, unread) PROVE CacheInv'
  <2>1. /\ labels' \in [Flows -> [app : Apps, age : Ages]]
        /\ \A f \in DOMAIN cache' : f \in Flows /\ cache'[f] = labels'[f] /\ labels'[f].app # NoHead
        /\ \A f \in Flows \ DOMAIN cache' :
             ProcOf[f] \in DOMAIN procs' /\ labels'[f].age < CacheTtl =>
               f \notin DOMAIN cache /\ (f \in Flowing => batch[f].head = NoHead)
        /\ \A f \in Flows : labels[f].age <= labels'[f].age \/ f \in Flowing
        /\ \A f \in Flows \ Flowing : labels'[f].app = labels[f].app
        /\ \A f \in Flowing : labels'[f].app = sniffed(f)
    BY <1>2, CacheFacts
  <2>2. DOMAIN procs' \subseteq Known BY <1>2, IngestProcs
  <2>3. drained' = drained \cup MovedIn(Flows) /\ stray' = stray /\ misread \subseteq misread'
    BY <1>2 DEF Ingest
  <2>4. ASSUME NEW f \in Flows, labels'[f].app # NoHead PROVE DrainedOf(drained', ProcOf[f]) # {}
    <3>1. CASE f \in Flowing
      <4>1. PICK s \in batch[f].bytes : TRUE BY <3>1, BatchFacts
      <4>2. InBatch(s) /\ FlowOf[s] = f BY <4>1, BatchFacts DEF InBatch
      <4>3. s \in drained' BY <2>3, <4>2, MovedChar
      <4> QED BY <4>2, <4>3 DEF DrainedOf
    <3>2. CASE f \notin Flowing
      <4>1. DrainedOf(drained, ProcOf[f]) # {} BY <2>1, <2>4, <3>2 DEF CacheInv
      <4> QED BY <2>3, <4>1 DEF DrainedOf
    <3> QED BY <3>1, <3>2
  <2>5. ASSUME ~stray, NEW f \in Flows \ DOMAIN cache', ProcOf[f] \in DOMAIN procs' \ misread', labels'[f].age < CacheTtl
        PROVE labels'[f].app = NoHead
    <3>1. f \notin DOMAIN cache /\ (f \in Flowing => batch[f].head = NoHead) BY <2>1, <2>5
    <3>m. ProcOf[f] \notin misread BY <2>3, <2>5
    <3>2. CASE f \in Flowing BY <2>1, <3>1, <3>2 DEF sniffed
    <3>3. CASE f \notin Flowing
      <4>1. labels'[f].app = labels[f].app /\ labels[f].age <= labels'[f].age BY <2>1, <3>3
      <4>2. CASE ProcOf[f] \in DOMAIN procs
        <5>1. labels[f].age \in Ages /\ labels'[f].age \in Ages BY <2>1 DEF TypeOK
        <5>2. Ages \subseteq Nat /\ CacheTtl \in Nat BY MaxAgeFacts, AggregatorAssumption, SMTT(30) DEF Ages
        <5> DEFINE before == labels[f].age
        <5> DEFINE after == labels'[f].age
        <5>3. before \in Nat /\ after \in Nat /\ before <= after /\ after < CacheTtl
          BY <2>5, <4>1, <5>1, <5>2
        <5> HIDE DEF before, after
        <5>4. before < CacheTtl BY <5>2, <5>3, SMTT(30)
        <5> QED BY <2>5, <3>1, <3>m, <4>1, <4>2, <5>4 DEF CacheInv, before
      <4>3. CASE ProcOf[f] \notin DOMAIN procs
        <5>1. ProcOf[f] \in Known \ DOMAIN procs BY <2>2, <2>5, <4>3
        <5>2. DrainedOf(drained, ProcOf[f]) = {} BY <2>5, <3>m, <5>1, NeverBefore
        <5> QED BY <4>1, <5>2 DEF CacheInv
      <4> QED BY <4>2, <4>3
    <3> QED BY <3>2, <3>3
  <2> QED BY <2>1, <2>3, <2>4, <2>5 DEF CacheInv
<1> QED BY <1>1, <1>2, OtherSteps

-----------------------------------------------------------------------------
(* The theorems.                                                            *)

\* The initial state satisfies the invariant.
LEMMA InitInv == Init => Inv
<1> SUFFICES ASSUME Init PROVE Inv OBVIOUS
<1> USE DEF Init
<1>1. NoElems \in [Flows -> Elem] /\ \A f \in Flows : NoElems[f] = NoElem /\ NoElem.bytes = {}
  BY DEF NoElems, NoElem, Elem, Apps
<1>2. DOMAIN procs = {} /\ DOMAIN cache = {} OBVIOUS
<1>3. NoDests \in DestMap /\ \A dk \in DestKeys : NoDests[dk] = {} BY DEF NoDests, DestMap
<1>4. NoView \in View /\ NoView.ended /\ NoView.total = {} BY DEF NoView, View
<1>5. NoHead \in Apps BY DEF Apps
<1>6. \A i \in Insts : mirror[i] = NoView /\ mirrorDests[i] = NoDests OBVIOUS
<1>7. mirror \in [Insts -> View] /\ mirrorDests \in [Insts -> DestMap] BY <1>3, <1>4
<1>8. labels \in [Flows -> [app : Apps, age : Ages]] /\ \A f \in Flows : labels[f].app = NoHead
  BY <1>5, MaxAgeFacts
<1>9. TypeOK BY <1>1, <1>2, <1>7, <1>8, MaxAgeFacts DEF TypeOK
<1>10. KernelInv BY <1>1 DEF KernelInv, MapOK, Apart
<1>11. ProcsInv BY <1>2, <1>3, <1>4, <1>6 DEF ProcsInv, DrainedOf
<1>12. ExactInv BY <1>2 DEF ExactInv, DrainedOf
<1>13. CacheInv BY <1>2, <1>8 DEF CacheInv
<1> QED BY <1>9, <1>10, <1>11, <1>12, <1>13 DEF Inv

\* Every step keeps the invariant.
LEMMA InvStep == Inv /\ [Next]_vars => Inv'
BY TypeStep, KernelStep, ProcsStep, ExactStep, CacheStep DEF Inv

\* A consumer of the changed rows alone has the state of every process, no
\* forgotten process stays alive in it, and a process is ended in it only if its
\* leader exited or the sweep could not read its start time.
THEOREM Deltas == Spec => []DeltasSuffice
<1>1. Inv => DeltasSuffice
  <2> SUFFICES ASSUME Inv PROVE DeltasSuffice OBVIOUS
  <2>1. /\ \A i \in DOMAIN procs : procs[i].ended => life[i] \in {"zombie", "gone"} \/ i \in misread
        /\ \A i \in DOMAIN procs : mirror[i] = ViewOf(procs[i])
        /\ \A i \in Insts \ DOMAIN procs : mirror[i].ended
    BY DEF Inv, ProcsInv, Ended
  <2>2. ~stray => \A i \in DOMAIN procs \ misread : mirrorDests[i] = procs[i].dests BY DEF Inv, ExactInv
  <2> QED BY <2>1, <2>2 DEF Inv, DeltasSuffice
<1> QED BY <1>1, InitInv, InvStep, PTL DEF Spec

\* A process total is exactly what was drained for it, split by destination
\* without loss or double counting.
THEOREM Totals == Spec => []TotalsExact
<1>1. Inv => TotalsExact
  BY DEF Inv, ProcsInv, ProcOK, ExactInv, DrainedOf, TotalsExact
<1> QED BY <1>1, InitInv, InvStep, PTL DEF Spec

\* An exit event ends its process in the same ingest or, when the process's
\* first counters come one map later, in the next one.
THEOREM ExitsApplied == Spec => ExitApplied
<1> DEFINE A == \A i \in exits \cup lastExits :
                  ~stray /\ i \notin misread /\ Ingested /\ i \in DOMAIN procs' => procs'[i].ended
<1>1. Inv /\ [Next]_vars => [A]_vars
  <2> SUFFICES ASSUME Inv, Next, NEW i \in exits \cup lastExits, ~stray, i \notin misread, Ingested,
                      i \in DOMAIN procs'
               PROVE procs'[i].ended
    OBVIOUS
  <2>1. PICK dt \in Steps, unread \in SUBSET Insts : Ingest(dt, unread)
    BY DEF Ingested, Next, Send, Exit, Reap, Flip, Drain
  <2> USE DEF Inv
  <2>2. i \in Known /\ UpdateOK(procs'[i], i, unread) BY <2>1, IngestProcs
  <2>3. CASE i \in exits \cup pending BY <2>2, <2>3 DEF UpdateOK
  <2>4. CASE i \in DOMAIN procs /\ procs[i].ended BY <2>2, <2>4 DEF UpdateOK, Base
  <2>5. CASE i \notin DOMAIN procs /\ DrainedOf(drained, i) # {} BY <2>2, <2>5, NeverBefore
  <2> QED BY <2>3, <2>4, <2>5 DEF ExactInv
<1> QED BY <1>1, InitInv, InvStep, PTL DEF Spec, ExitApplied

\* An end that was published is not taken back, published totals never shrink,
\* and a sniffed flow keeps its label while the cache may know it.
THEOREM PublishedStands == Spec => StaysEnded
<1> DEFINE A == ~stray =>
       /\ \A i \in Insts \ misread :
            /\ mirror[i].total \subseteq mirror'[i].total
            /\ mirror[i].ended /\ mirror[i].total # {} => mirror'[i].ended
       /\ \A f \in Flows :
            /\ Ingested /\ f \in Flowing /\ batch[f].head = NoHead
            /\ ProcOf[f] \in DOMAIN procs \ misread
            /\ labels[f].age < CacheTtl
            => labels'[f].app = labels[f].app
<1>1. Inv /\ [Next]_vars => [A]_vars
  <2> SUFFICES ASSUME Inv, Next, ~stray PROVE A OBVIOUS
  <2> USE DEF Inv
  <2>1. ASSUME NEW dt \in Steps, NEW unread \in SUBSET Insts, Ingest(dt, unread) PROVE A
    <3>1. /\ \A i \in Known : mirror'[i] = ViewOf(Updated(dt, unread)[i]) /\ UpdateOK(Updated(dt, unread)[i], i, unread)
          /\ \A i \in Insts \ Known : mirror'[i] = mirror[i]
      BY <2>1, MirrorFacts, IngestProcs
    <3>2. ASSUME NEW i \in Insts \ misread
          PROVE /\ mirror[i].total \subseteq mirror'[i].total
                /\ mirror[i].ended /\ mirror[i].total # {} => mirror'[i].ended
      <4>1. CASE i \in Known /\ i \in DOMAIN procs
        <5>0. \A q : ViewOf(q).total = q.total /\ ViewOf(q).ended = q.ended BY DEF ViewOf
        <5>1. mirror[i] = ViewOf(procs[i]) /\ Base(i) = procs[i] BY <4>1 DEF ProcsInv, Base
        <5>2. /\ Updated(dt, unread)[i].total = procs[i].total \cup Moved(i)
              /\ procs[i].ended => Updated(dt, unread)[i].ended
          BY <3>1, <4>1, <5>1 DEF UpdateOK
        <5>3. mirror'[i] = ViewOf(Updated(dt, unread)[i]) BY <3>1, <4>1
        <5> QED BY <5>0, <5>1, <5>2, <5>3
      <4>2. CASE i \in Known /\ i \notin DOMAIN procs
        <5>1. DrainedOf(drained, i) = {} BY <4>2, NeverBefore
        <5>2. mirror[i].total = {} BY <5>1 DEF ProcsInv
        <5> QED BY <5>2
      <4>3. CASE i \notin Known BY <3>1, <4>3
      <4> QED BY <4>1, <4>2, <4>3
    <3>3. ASSUME NEW f \in Flows, f \in Flowing, batch[f].head = NoHead,
                 ProcOf[f] \in DOMAIN procs \ misread, labels[f].age < CacheTtl
          PROVE labels'[f].app = labels[f].app
      <4>1. labels'[f].app = sniffed(f) BY <2>1, <3>3, CacheFacts
      <4>2. CASE f \in DOMAIN cache BY <3>3, <4>1, <4>2 DEF sniffed, CacheInv
      <4>3. CASE f \notin DOMAIN cache BY <3>3, <4>1, <4>3 DEF sniffed, CacheInv
      <4> QED BY <4>2, <4>3
    <3> QED BY <3>2, <3>3
  <2>2. CASE Elsewhere /\ ~\E dt \in Steps, unread \in SUBSET Insts : Ingest(dt, unread)
    <3>1. mirror' = mirror BY <2>2 DEF Elsewhere, history
    <3>2. ~Ingested BY <2>2 DEF Ingested, Next, Send, Exit, Reap, Flip, Drain
    <3> QED BY <3>1, <3>2
  <2> QED BY <2>1, <2>2, OtherSteps
<1> QED BY <1>1, InitInv, InvStep, PTL DEF Spec, StaysEnded
=============================================================================
