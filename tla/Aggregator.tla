----------------------------- MODULE Aggregator -----------------------------
(***************************************************************************)
(* model.rs: the Aggregator that turns drained flow counters and exit      *)
(* events into per-process state, and the Tick it publishes.               *)
(*                                                                         *)
(* The kernel side is reduced to what FlowMaps shows about it: a socket    *)
(* call is in the map that is active when it happens, a flip moves that    *)
(* map's content to the next ingest, a program that outlasts the 2 ms      *)
(* sleep writes to a drained map, exit events name exited leaders and may  *)
(* be lost (full ring buffer, LRU eviction).  Calls and exits between the  *)
(* flip and the ingest go to the next map but to the same exit batch.      *)
(*                                                                         *)
(* A byte counter is the set of sends added to it.  Wall-clock fields      *)
(* appear only as "now minus field", so they are ages, which every ingest  *)
(* advances by the time since the previous one and which stop at the       *)
(* largest interval the code compares them with.                           *)
(***************************************************************************)
EXTENDS Naturals, FiniteSets

CONSTANTS
  Sends,       \* socket calls that move bytes
  Insts,       \* process instances (pid, start_ns)
  Flows,       \* flow keys with their start_ns (the app_cache key)
  FlowOf,      \* FlowOf[s]: the flow of send s
  ProcOf,      \* ProcOf[f]: the instance of flow f
  DestOf,      \* DestOf[f]: its peer; flows may differ in local port only
  HeadOf,      \* HeadOf[s]: what sniff() finds in the head of send s, or NoHead
  NoHead,
  Retain,      \* ENDED_RETAIN_MS
  Liveness,    \* LIVENESS_EVERY_MS
  CacheTtl,    \* APP_CACHE_TTL_MS
  Steps,       \* possible times between two ingests
  Strays       \* subset of BOOLEAN: TRUE, threads may outlive their leader and
               \* still send, and a program may outlast the 2 ms sleep and
               \* write to the map that was just drained; FALSE, neither

MaxAge == CHOOSE m \in {Retain, Liveness, CacheTtl} :
            m >= Retain /\ m >= Liveness /\ m >= CacheTtl
Ages == 0..MaxAge
Older(a, dt) == IF a + dt <= MaxAge THEN a + dt ELSE MaxAge

Apps == {HeadOf[s] : s \in Sends} \cup {NoHead}
Dests == {DestOf[f] : f \in Flows}
DestKeys == Dests \X Apps

ASSUME AggregatorAssumption ==
  /\ FlowOf \in [Sends -> Flows]
  /\ ProcOf \in [Flows -> Insts]
  /\ Retain \in Nat \ {0} /\ Liveness \in Nat /\ CacheTtl \in Nat
  /\ Steps \subseteq Nat
  /\ Strays \subseteq BOOLEAN

VARIABLES
  stray,       \* whether there are strays, see Strays
  life,        \* life[i]: "unborn", "running", "zombie" (leader exited), "gone"
  sent,        \* sends that happened
  active,      \* active[f]: the element of flow f in the active map
  idle,        \* the same in the other map
  batch,       \* the elements drained in this cycle
  phase,       \* the collector's: "wait", "flipped" or "drained"
  exits,       \* exit events in the ring buffer
  procs,       \* Aggregator.procs: known instance -> Proc
  cache,       \* app_cache: flow -> sniffed label and age of its last use
  pending,     \* pending_exits
  sweepAge,    \* now - last_liveness_ms
  pruneAge,    \* now - last_prune_ms
  mirror,      \* what a consumer of the changed ProcViews has stored
  mirrorDests, \* what a consumer of the DestViews has stored
  drained,     \* sends ingested so far
  lastExits,   \* the exit events of the last ingest
  labels,      \* labels[f]: app of the flow's last FlowRec, and its age
  misread      \* running processes the sweep took for dead

kernel == <<stray, life, sent, active, idle, batch, phase, exits>>
state == <<procs, cache, pending, sweepAge, pruneAge>>
history == <<mirror, mirrorDests, drained, lastExits, labels, misread>>
vars == <<kernel, state, history>>

NoElem == [bytes |-> {}, head |-> NoHead]
NoElems == [f \in Flows |-> NoElem]
NoDests == [dk \in DestKeys |-> {}]
NoView == [total |-> {}, rate |-> {}, ended |-> TRUE]

Elem == [bytes : SUBSET Sends, head : Apps]
DestMap == [DestKeys -> SUBSET Sends]
Proc == [total : SUBSET Sends, rate : SUBSET Sends, ended : BOOLEAN, changed : BOOLEAN,
         endedAge : Ages, seenAge : Ages, dests : DestMap]
View == [total : SUBSET Sends, rate : SUBSET Sends, ended : BOOLEAN]
ViewOf(p) == [total |-> p.total, rate |-> p.rate, ended |-> p.ended]

TypeOK ==
  /\ stray \in Strays
  /\ life \in [Insts -> {"unborn", "running", "zombie", "gone"}]
  /\ sent \in SUBSET Sends
  /\ active \in [Flows -> Elem]
  /\ idle \in [Flows -> Elem]
  /\ batch \in [Flows -> Elem]
  /\ phase \in {"wait", "flipped", "drained"}
  /\ exits \in SUBSET Insts
  /\ DOMAIN procs \subseteq Insts
  /\ \A i \in DOMAIN procs : procs[i] \in Proc
  /\ DOMAIN cache \subseteq Flows
  /\ \A f \in DOMAIN cache : cache[f] \in [app : Apps \ {NoHead}, age : Ages]
  /\ pending \in SUBSET Insts
  /\ sweepAge \in Ages
  /\ pruneAge \in Ages
  /\ mirror \in [Insts -> View]
  /\ mirrorDests \in [Insts -> DestMap]
  /\ drained \in SUBSET Sends
  /\ lastExits \in SUBSET Insts
  /\ labels \in [Flows -> [app : Apps, age : Ages]]
  /\ misread \in SUBSET Insts

Init ==
  /\ stray \in Strays
  /\ life = [i \in Insts |-> "unborn"]
  /\ sent = {}
  /\ active = NoElems
  /\ idle = NoElems
  /\ batch = NoElems
  /\ phase = "wait"
  /\ exits = {}
  /\ procs = [i \in {} |-> NoView]
  /\ cache = [f \in {} |-> NoView]
  /\ pending = {}
  /\ sweepAge = MaxAge
  /\ pruneAge = MaxAge
  /\ mirror = [i \in Insts |-> NoView]
  /\ mirrorDests = [i \in Insts |-> NoDests]
  /\ drained = {}
  /\ lastExits = {}
  /\ labels = [f \in Flows |-> [app |-> NoHead, age |-> MaxAge]]
  /\ misread = {}

-----------------------------------------------------------------------------
(* The kernel side.                                                         *)

Send(s) ==
  LET f == FlowOf[s]
      i == ProcOf[f]
      Put(map) == [map EXCEPT ![f] = IF @ = NoElem THEN [bytes |-> {s}, head |-> HeadOf[s]]
                                     ELSE [bytes |-> @.bytes \cup {s}, head |-> @.head]] IN
  /\ s \notin sent
  /\ life[i] \in {"unborn", "running"} \/ (life[i] = "zombie" /\ stray)
  /\ sent' = sent \cup {s}
  /\ life' = [life EXCEPT ![i] = IF @ = "unborn" THEN "running" ELSE @]
  /\ \/ active' = Put(active) /\ UNCHANGED idle
     \/ stray /\ idle' = Put(idle) /\ UNCHANGED active
  /\ UNCHANGED <<stray, batch, phase, exits, state, history>>

\* The leader exits; its event is reported or lost.
Exit(i) ==
  /\ life[i] = "running"
  /\ life' = [life EXCEPT ![i] = "zombie"]
  /\ exits' \in {exits, exits \cup {i}}
  /\ UNCHANGED <<stray, sent, active, idle, batch, phase, state, history>>

\* The last thread is gone and the leader reaped: /proc/<pid> disappears.
Reap(i) ==
  /\ life[i] = "zombie"
  /\ life' = [life EXCEPT ![i] = "gone"]
  /\ UNCHANGED <<stray, sent, active, idle, batch, phase, exits, state, history>>

Flip ==
  /\ phase = "wait"
  /\ phase' = "flipped"
  /\ idle' = active
  /\ active' = idle
  /\ UNCHANGED <<stray, life, sent, batch, exits, state, history>>

\* The 2 ms are over and the idle map is drained; the exits are read later.
Drain ==
  /\ phase = "flipped"
  /\ phase' = "drained"
  /\ batch' = idle
  /\ idle' = NoElems
  /\ UNCHANGED <<stray, life, sent, active, exits, state, history>>

-----------------------------------------------------------------------------
(* ingest().                                                                *)

Flowing == {f \in Flows : batch[f] # NoElem}
Known == DOMAIN procs \cup {ProcOf[f] : f \in Flowing}

\* The sticky sniffing result: this interval's head, else the cached one.
sniffed(f) == IF batch[f].head # NoHead THEN batch[f].head
              ELSE IF f \in DOMAIN cache THEN cache[f].app ELSE NoHead

MovedIn(fs) == UNION {batch[f].bytes : f \in fs}
Moved(i) == MovedIn({f \in Flowing : ProcOf[f] = i})
MovedTo(i, dk) == MovedIn({f \in Flowing : ProcOf[f] = i /\ <<DestOf[f], sniffed(f)>> = dk})

new_proc == [total |-> {}, rate |-> {}, ended |-> FALSE, changed |-> TRUE,
             endedAge |-> 0, seenAge |-> 0, dests |-> NoDests]

\* Mutant: a process that goes idle is not republished.
Counted_IdleUnchanged(i, dt) ==
  LET p == IF i \in DOMAIN procs THEN procs[i] ELSE new_proc
      m == Moved(i) IN
  [p EXCEPT !.total = @ \cup m, !.rate = m, !.changed = m # {},
            !.seenAge = IF m # {} THEN 0 ELSE Older(@, dt),
            !.endedAge = IF p.ended THEN Older(@, dt) ELSE @,
            !.dests = [dk \in DestKeys |-> @[dk] \cup MovedTo(i, dk)]]

\* Mutant: the total is overwritten with the interval's bytes.
Counted_Overwrite(i, dt) ==
  LET p == IF i \in DOMAIN procs THEN procs[i] ELSE new_proc
      m == Moved(i) IN
  [p EXCEPT !.total = IF m = {} THEN @ ELSE m, !.rate = m, !.changed = p.rate # {} \/ m # {},
            !.dests = [dk \in DestKeys |-> @[dk] \cup MovedTo(i, dk)]]

\* Mutant: late counters bring an ended process back.
Counted_Reopen(i, dt) ==
  LET p == IF i \in DOMAIN procs THEN procs[i] ELSE new_proc
      m == Moved(i) IN
  [p EXCEPT !.total = @ \cup m, !.rate = m, !.changed = p.rate # {} \/ m # {},
            !.ended = @ /\ m = {},
            !.dests = [dk \in DestKeys |-> @[dk] \cup MovedTo(i, dk)]]

\* The loops over procs and flows, and the rates set at the end.
Counted(i, dt) ==
  LET p == IF i \in DOMAIN procs THEN procs[i] ELSE new_proc
      m == Moved(i) IN
  [p EXCEPT !.total = @ \cup m,
            !.rate = m,
            !.changed = p.rate # {} \/ m # {},
            !.seenAge = IF m # {} THEN 0 ELSE Older(@, dt),
            !.endedAge = IF p.ended THEN Older(@, dt) ELSE @,
            !.dests = [dk \in DestKeys |-> @[dk] \cup MovedTo(i, dk)]]

\* The retried exits, then the new ones; the first that applies wins.
Exited(i, p, dt) ==
  IF ~p.ended /\ i \in pending \cup exits
  THEN [p EXCEPT !.ended = TRUE, !.changed = TRUE,
                 !.endedAge = IF i \in pending THEN Older(0, dt) ELSE 0]
  ELSE p

\* Mutant: no sweep.
sweep_dead_Never(i, p, dt, unread) == p

\* /proc/<pid>/stat shows the start time of i: not when i is gone, nor when the
\* file cannot be read or parsed.
proc_starttime_ticks(i, unread) == life[i] # "gone" /\ i \notin unread

\* A silent process whose start time is not shown has ended.
sweep_dead(i, p, dt, unread) ==
  IF /\ Older(sweepAge, dt) >= Liveness
     /\ ~p.ended
     /\ p.seenAge >= Liveness
     /\ ~proc_starttime_ticks(i, unread)
  THEN [p EXCEPT !.ended = TRUE, !.changed = TRUE, !.endedAge = 0]
  ELSE p

Updated(dt, unread) == [i \in Known |-> sweep_dead(i, Exited(i, Counted(i, dt), dt), dt, unread)]

UpdatedCache(dt) ==
  [f \in DOMAIN cache \cup {g \in Flowing : batch[g].head # NoHead} |->
     [app |-> sniffed(f), age |-> IF f \in Flowing THEN 0 ELSE Older(cache[f].age, dt)]]

\* Mutant: an exit of an unknown process is not kept.
NewPending_None == {}

NewPending == exits \ Known

Pruned(ps) == [i \in {j \in DOMAIN ps : ~ps[j].ended \/ ps[j].endedAge < Retain} |-> ps[i]]
PrunedCache(c, ps) ==
  [f \in {g \in DOMAIN c : c[g].age < CacheTtl /\ ProcOf[g] \in DOMAIN ps} |-> c[f]]

\* unread: the processes whose stat file cannot be read in this tick.
Ingest(dt, unread) ==
  LET ps == Updated(dt, unread)
      prune == Older(pruneAge, dt) >= Retain IN
  /\ phase = "drained"
  /\ procs' = IF prune THEN Pruned(ps) ELSE ps
  /\ cache' = IF prune THEN PrunedCache(UpdatedCache(dt), Pruned(ps)) ELSE UpdatedCache(dt)
  /\ pending' = NewPending
  /\ sweepAge' = IF Older(sweepAge, dt) >= Liveness THEN 0 ELSE Older(sweepAge, dt)
  /\ pruneAge' = IF prune THEN 0 ELSE Older(pruneAge, dt)
  /\ phase' = "wait"
  /\ batch' = NoElems
  /\ exits' = {}
  /\ mirror' = [i \in Insts |-> IF i \in Known /\ ps[i].changed THEN ViewOf(ps[i]) ELSE mirror[i]]
  /\ mirrorDests' = [i \in Insts |-> [dk \in DestKeys |->
       IF MovedTo(i, dk) # {} THEN ps[i].dests[dk] ELSE mirrorDests[i][dk]]]
  /\ drained' = drained \cup MovedIn(Flows)
  /\ lastExits' = exits
  /\ labels' = [f \in Flows |-> IF f \in Flowing THEN [app |-> sniffed(f), age |-> 0]
                                ELSE [app |-> labels[f].app, age |-> Older(labels[f].age, dt)]]
  /\ misread' = misread \cup {i \in Known \cap unread : life[i] \notin {"zombie", "gone"} /\ ps[i].ended}
  /\ UNCHANGED <<stray, life, sent, active, idle>>

Next ==
  \/ \E s \in Sends : Send(s)
  \/ \E i \in Insts : Exit(i) \/ Reap(i)
  \/ Flip \/ Drain
  \/ \E dt \in Steps, unread \in SUBSET Insts : Ingest(dt, unread)

Spec == Init /\ [][Next]_vars

\* The interval timer keeps the collector ticking.
FairSpec == Spec /\ WF_vars(Flip \/ Drain) /\ WF_vars(\E dt \in Steps, unread \in SUBSET Insts : Ingest(dt, unread))

-----------------------------------------------------------------------------
(* Properties.                                                              *)

Ingested == phase = "drained" /\ phase' = "wait"

\* A consumer that stores only the ProcViews flagged changed has the current
\* state of every known process, and has every forgotten one as ended: no
\* rate stays up, no end goes unpublished when a process is pruned.  The same
\* for the DestViews, which carry no flag and are never listed in full (except
\* for a process that was forgotten and brought back, by a stray or after the
\* sweep misread it).  A process whose leader has not exited is published as
\* ended only when the sweep could not read its /proc/<pid>/stat.
DeltasSuffice ==
  /\ TypeOK
  /\ \A i \in DOMAIN procs : procs[i].ended => life[i] \in {"zombie", "gone"} \/ i \in misread
  /\ \A i \in DOMAIN procs : mirror[i] = ViewOf(procs[i])
  /\ \A i \in Insts \ DOMAIN procs : mirror[i].ended
  /\ ~stray => \A i \in DOMAIN procs \ misread : mirrorDests[i] = procs[i].dests

\* A process total is what was drained for it (since it was last forgotten, if
\* strays brought it back or the sweep misread it), and its destinations split
\* it: relabelling a flow moves no byte and counts none twice.
TotalsExact ==
  \A i \in DOMAIN procs :
    /\ procs[i].total \subseteq {s \in drained : ProcOf[FlowOf[s]] = i}
    /\ ~stray /\ i \notin misread => {s \in drained : ProcOf[FlowOf[s]] = i} \subseteq procs[i].total
    /\ procs[i].total = UNION {procs[i].dests[dk] : dk \in DestKeys}
    /\ \A dk, dl \in DestKeys : dk # dl => procs[i].dests[dk] \cap procs[i].dests[dl] = {}

\* An exit event is applied in its own tick or, when the process's first
\* counters come one map later, in the next: the race the pending_exits
\* comment describes never costs the event.  A stray program's map can be two
\* drains away, and a process the sweep misread may be forgotten between its
\* exit event and its last counters.
ExitApplied ==
  [][\A i \in exits \cup lastExits :
       ~stray /\ i \notin misread /\ Ingested /\ i \in DOMAIN procs' => procs'[i].ended]_vars

\* What was published stands.  Once published as ended a process is never
\* published as alive again, and its totals never shrink (its last counters come
\* after its exit event), unless threads outlive the leader by more than
\* ENDED_RETAIN_MS or the sweep misread it while it ran.  A flow that was sniffed
\* keeps its label in later intervals that show no head, while it was used within
\* the cache's lifetime and its process is known: "Sticky payload-sniffing
\* results".
StaysEnded ==
  [][~stray =>
       /\ \A i \in Insts \ misread :
            /\ mirror[i].total \subseteq mirror'[i].total
            /\ mirror[i].ended /\ mirror[i].total # {} => mirror'[i].ended
       /\ \A f \in Flows :
            /\ Ingested /\ f \in Flowing /\ batch[f].head = NoHead
            /\ ProcOf[f] \in DOMAIN procs \ misread
            /\ labels[f].age < CacheTtl
            => labels'[f].app = labels[f].app]_vars

\* A process that is gone is published as ended and then forgotten, even if
\* its exit event was lost or came too early.
EventuallyForgotten ==
  \A i \in Insts : i \in DOMAIN procs /\ life[i] = "gone" ~> i \notin DOMAIN procs /\ mirror[i].ended
=============================================================================
