------------------------------ MODULE FlowMaps ------------------------------
(***************************************************************************)
(* The kernel half of net-watch and the loop that empties it: the fentry / *)
(* fexit programs that account every socket call in one of two flow maps,  *)
(* the exit hook with its PROCS and EXITS maps, and the collector's cycle  *)
(* of flipping ACTIVE, waiting 2 ms, draining the idle map and publishing. *)
(*                                                                         *)
(* A counter is the set of the socket calls added to it, so "lost" and     *)
(* "counted twice" are visible; the byte and the call counter of an        *)
(* element are separate sets because add() updates them with separate      *)
(* atomic instructions.  A map is a set of preallocated element slots      *)
(* (flags 0, so the kernel recycles a deleted element at once): a program  *)
(* holds a pointer to a slot across steps and may write to a slot that has *)
(* been freed or handed to another key in the meantime.                    *)
(***************************************************************************)
EXTENDS Naturals, Sequences, FiniteSets

CONSTANTS
  Calls,      \* socket calls that move bytes; each runs one program
  Insts,      \* process instances (tgid, start_ns)
  InstOf,     \* InstOf[c]: the instance that makes call c
  PidOf,      \* PidOf[i]: the tgid of instance i
  DestOf,     \* DestOf[c]: the rest of the flow key (peer, ports, protocol)
  Mortal,     \* instances whose leader may exit
  Slots,      \* preallocated elements of a flow map (FLOW_MAP_ENTRIES)
  RingCap,    \* exit events the EXITS ring buffer holds
  ProcsCap,   \* entries the PROCS LRU map holds
  Grace,      \* TRUE: every program that read the old ACTIVE value ends
              \* within the 2 ms sleep
  NoKey, NoInst

Pids == {PidOf[i] : i \in Insts}
KeyOf(c) == <<PidOf[InstOf[c]], DestOf[c]>>
Keys == {KeyOf(c) : c \in Calls}
Maps == {0, 1}

ASSUME ConstantsAssumption ==
  /\ InstOf \in [Calls -> Insts]
  /\ PidOf \in [Insts -> Pids]
  /\ NoKey \notin Keys
  /\ NoInst \notin Insts
  /\ Slots # {}
  /\ Grace \in BOOLEAN
  /\ RingCap \in Nat
  /\ ProcsCap \in Nat

VARIABLES
  active,     \* ACTIVE[0]: the map the programs write to
  slots,      \* slots[m][s]: the element in slot s of map m
  pc,         \* pc[c]: the step the program of call c is at
  mi,         \* mi[c]: the map that program works on
  ptr,        \* ptr[c]: the element pointer it holds
  dropped,    \* calls counted in DROPS
  procs,      \* PROCS: tgid -> instance
  ring,       \* EXITS: exit events not yet read
  life,       \* life[i]: the state of instance i's leader thread
  held,       \* held[i]: the start_ns (instance) its exit hook read from PROCS
  cpc,        \* the step the collector is at
  scan,       \* keys (buckets) the running drain has not reached
  out,        \* elements drained in this cycle
  stopping,   \* a signal arrived
  delivered,  \* <<call, instance>>: bytes published, by instance credited
  counted,    \* calls whose call counter was published
  reported    \* instances whose exit event reached the aggregator

kernelVars == <<slots, pc, mi, ptr, dropped>>
exitVars == <<procs, ring, life, held>>
collectorVars == <<active, cpc, scan, out, stopping, delivered, counted, reported>>
vars == <<kernelVars, exitVars, collectorVars>>

Elem == [key : Keys \cup {NoKey}, owner : Insts \cup {NoInst},
         bytes : SUBSET Calls, calls : SUBSET Calls]
FreeElem == [key |-> NoKey, owner |-> NoInst, bytes |-> {}, calls |-> {}]
NewElem(c) == [key |-> KeyOf(c), owner |-> InstOf[c], bytes |-> {c}, calls |-> {c}]
WithBytes(e, c) == [e EXCEPT !.bytes = @ \cup {c}]
WithCalls(e, c) == [e EXCEPT !.calls = @ \cup {c}]
AnySlot == CHOOSE s \in Slots : TRUE

\* A program that has read ACTIVE and may still touch its map.
Running == {"lookup", "add", "addCalls", "insert", "retry"}
\* Of those, the ones whose bytes are in no counter yet.
Unadded == {"lookup", "add", "insert", "retry"}

TypeOK ==
  /\ active \in Maps
  /\ slots \in [Maps -> [Slots -> Elem]]
  /\ pc \in [Calls -> Running \cup {"idle", "record", "done"}]
  /\ mi \in [Calls -> Maps]
  /\ ptr \in [Calls -> Slots]
  /\ dropped \in SUBSET Calls
  /\ procs \in [Pids -> Insts \cup {NoInst}]
  /\ ring \in Seq(Insts)
  /\ life \in [Insts -> {"unborn", "running", "exiting", "zombie", "gone"}]
  /\ held \in [Insts -> Insts \cup {NoInst}]
  /\ cpc \in {"wait", "grace", "drain", "stopped", "failed"}
  /\ scan \in SUBSET Keys
  /\ out \in SUBSET Elem
  /\ stopping \in BOOLEAN
  /\ delivered \in SUBSET (Calls \X Insts)
  /\ counted \in SUBSET Calls
  /\ reported \in SUBSET Insts

Init ==
  /\ active = 0
  /\ slots = [m \in Maps |-> [s \in Slots |-> FreeElem]]
  /\ pc = [c \in Calls |-> "idle"]
  /\ mi = [c \in Calls |-> 0]
  /\ ptr = [c \in Calls |-> AnySlot]
  /\ dropped = {}
  /\ procs = [p \in Pids |-> NoInst]
  /\ ring = << >>
  /\ life = [i \in Insts |-> "unborn"]
  /\ held = [i \in Insts |-> NoInst]
  /\ cpc = "wait"
  /\ scan = {}
  /\ out = {}
  /\ stopping = FALSE
  /\ delivered = {}
  /\ counted = {}
  /\ reported = {}

-----------------------------------------------------------------------------
(* Processes.  A PID is reused only when no thread of its previous owner    *)
(* is left; a leader that has exited ("zombie") may leave threads behind    *)
(* that still make socket calls.                                            *)

Born(i) ==
  /\ life[i] = "unborn"
  /\ \A j \in Insts \ {i} : PidOf[j] = PidOf[i] => life[j] \in {"unborn", "gone"}
  /\ life' = [life EXCEPT ![i] = "running"]
  /\ UNCHANGED <<kernelVars, procs, ring, held, collectorVars>>

Gone(i) ==
  /\ life[i] = "zombie"
  /\ \A c \in Calls : InstOf[c] = i => pc[c] \in {"idle", "done"}
  /\ life' = [life EXCEPT ![i] = "gone"]
  /\ UNCHANGED <<kernelVars, procs, ring, held, collectorVars>>

(* sched_process_exit on the leader, in the two steps programs of its other *)
(* threads can interleave with: reading the PROCS entry (no entry ends the  *)
(* hook), then removing it and reporting what was read.  A full ring buffer *)
(* loses the event.                                                         *)
\* Mutant: the exit of any thread is reported, not only the leader's.
ReadProc_AnyThread(i) ==
  /\ life[i] = "running"
  /\ procs[PidOf[i]] # NoInst /\ Len(ring) < RingCap
  /\ ring' = Append(ring, procs[PidOf[i]])
  /\ UNCHANGED <<kernelVars, procs, life, held, collectorVars>>

ReadProc(i) ==
  /\ life[i] = "running"
  /\ i \in Mortal
  /\ held' = [held EXCEPT ![i] = procs[PidOf[i]]]
  /\ life' = [life EXCEPT ![i] = IF procs[PidOf[i]] = NoInst THEN "zombie" ELSE "exiting"]
  /\ UNCHANGED <<kernelVars, procs, ring, collectorVars>>

ReportExit(i) ==
  /\ life[i] = "exiting"
  /\ life' = [life EXCEPT ![i] = "zombie"]
  /\ procs' = [procs EXCEPT ![PidOf[i]] = NoInst]
  /\ ring' = IF Len(ring) < RingCap THEN Append(ring, held[i]) ELSE ring
  /\ UNCHANGED <<kernelVars, held, collectorVars>>

sched_process_exit(i) == ReadProc(i) \/ ReportExit(i)

-----------------------------------------------------------------------------
(* account(): one program run per call, in the steps other CPUs and the     *)
(* collector can interleave with.                                           *)

Found(m, k) == {s \in Slots : slots[m][s].key = k}
FreeSlots(m) == Found(m, NoKey)
Put(m, s, e) == [slots EXCEPT ![m][s] = e]

ReadActive(c) ==
  /\ pc[c] = "idle"
  /\ life[InstOf[c]] \in {"running", "exiting", "zombie"}
  /\ pc' = [pc EXCEPT ![c] = "lookup"]
  /\ mi' = [mi EXCEPT ![c] = active]
  /\ UNCHANGED <<slots, ptr, dropped, exitVars, collectorVars>>

\* get_ptr_mut on the hot path.
Lookup(c) ==
  /\ pc[c] = "lookup"
  /\ \/ \E s \in Found(mi[c], KeyOf(c)) :
          /\ ptr' = [ptr EXCEPT ![c] = s]
          /\ pc' = [pc EXCEPT ![c] = "add"]
     \/ /\ Found(mi[c], KeyOf(c)) = {}
        /\ pc' = [pc EXCEPT ![c] = "insert"]
        /\ UNCHANGED ptr
  /\ UNCHANGED <<slots, mi, dropped, exitVars, collectorVars>>

\* add() writes through the pointer whatever the slot holds by now; in a
\* freed slot the value is overwritten by the next insert, never read.
AddBytes(c) ==
  LET e == slots[mi[c]][ptr[c]] IN
  /\ pc[c] = "add"
  /\ pc' = [pc EXCEPT ![c] = "addCalls"]
  /\ IF e.key = NoKey THEN UNCHANGED slots
     ELSE slots' = Put(mi[c], ptr[c], WithBytes(e, c))
  /\ UNCHANGED <<mi, ptr, dropped, exitVars, collectorVars>>

AddCalls(c) ==
  LET e == slots[mi[c]][ptr[c]] IN
  /\ pc[c] = "addCalls"
  /\ pc' = [pc EXCEPT ![c] = "done"]
  /\ IF e.key = NoKey THEN UNCHANGED slots
     ELSE slots' = Put(mi[c], ptr[c], WithCalls(e, c))
  /\ UNCHANGED <<mi, ptr, dropped, exitVars, collectorVars>>

\* Mutant: insert with BPF_ANY, which replaces the entry of another CPU.
Insert_Any(c) ==
  LET m == mi[c] IN
  /\ pc[c] = "insert"
  /\ \E s \in IF Found(m, KeyOf(c)) = {} THEN FreeSlots(m) ELSE Found(m, KeyOf(c)) :
       slots' = Put(m, s, NewElem(c))
  /\ pc' = [pc EXCEPT ![c] = "record"]
  /\ UNCHANGED <<mi, ptr, dropped, exitVars, collectorVars>>

\* insert with BPF_NOEXIST: fails when another CPU inserted the key first or
\* when the map is full.
Insert(c) ==
  LET m == mi[c]  k == KeyOf(c) IN
  /\ pc[c] = "insert"
  /\ \/ /\ Found(m, k) = {}
        /\ \E s \in FreeSlots(m) :
             slots' = Put(m, s, NewElem(c))
        /\ pc' = [pc EXCEPT ![c] = "record"]
     \/ /\ Found(m, k) # {} \/ FreeSlots(m) = {}
        /\ pc' = [pc EXCEPT ![c] = "retry"]
        /\ UNCHANGED slots
  /\ UNCHANGED <<mi, ptr, dropped, exitVars, collectorVars>>

\* PROCS.insert after a successful insert; a full LRU map evicts another entry.
RecordProc(c) ==
  LET p == PidOf[InstOf[c]]
      used == {q \in Pids \ {p} : procs[q] # NoInst}
      put == [procs EXCEPT ![p] = InstOf[c]] IN
  /\ pc[c] = "record"
  /\ pc' = [pc EXCEPT ![c] = "done"]
  /\ IF Cardinality(used) < ProcsCap THEN procs' = put
     ELSE \E q \in used : procs' = [put EXCEPT ![q] = NoInst]
  /\ UNCHANGED <<slots, mi, ptr, dropped, ring, life, held, collectorVars>>

\* Mutant: every failed insert counts as a drop, without a second lookup.
Retry_NoLookup(c) ==
  /\ pc[c] = "retry"
  /\ dropped' = dropped \cup {c}
  /\ pc' = [pc EXCEPT ![c] = "done"]
  /\ UNCHANGED <<slots, mi, ptr, exitVars, collectorVars>>

\* Mutant: a failed insert counts as a drop even if the entry is then found.
Retry_CountFirst(c) ==
  /\ pc[c] = "retry"
  /\ dropped' = dropped \cup {c}
  /\ \E s \in Found(mi[c], KeyOf(c)) : ptr' = [ptr EXCEPT ![c] = s]
  /\ pc' = [pc EXCEPT ![c] = "add"]
  /\ UNCHANGED <<slots, mi, exitVars, collectorVars>>

\* The second get_ptr_mut, after the failed insert.
Retry(c) ==
  /\ pc[c] = "retry"
  /\ \/ \E s \in Found(mi[c], KeyOf(c)) :
          /\ ptr' = [ptr EXCEPT ![c] = s]
          /\ pc' = [pc EXCEPT ![c] = "add"]
          /\ UNCHANGED dropped
     \/ /\ Found(mi[c], KeyOf(c)) = {}
        /\ dropped' = dropped \cup {c}
        /\ pc' = [pc EXCEPT ![c] = "done"]
        /\ UNCHANGED ptr
  /\ UNCHANGED <<slots, mi, exitVars, collectorVars>>

account(c) ==
  \/ ReadActive(c) \/ Lookup(c) \/ AddBytes(c) \/ AddCalls(c)
  \/ Insert(c) \/ RecordProc(c) \/ Retry(c)

-----------------------------------------------------------------------------
(* The collector's cycle (main.rs run, probe.rs flip and drain).            *)

Idle == 1 - active

\* Mutant: cur is not toggled.
Flip_Same(signal) ==
  /\ cpc = "wait"
  /\ stopping' = signal
  /\ cpc' = "grace"
  /\ UNCHANGED <<kernelVars, exitVars, active, scan, out, delivered, counted, reported>>

\* A tick of the interval timer, or a signal, wakes the loop, which flips.
Flip(signal) ==
  /\ cpc = "wait"
  /\ active' = Idle
  /\ stopping' = signal
  /\ cpc' = "grace"
  /\ UNCHANGED <<kernelVars, exitVars, scan, out, delivered, counted, reported>>

\* Mutant: no sleep between flip and drain.
StartDrain_NoSleep ==
  /\ cpc = "grace"
  /\ cpc' = "drain"
  /\ scan' = Keys
  /\ UNCHANGED <<kernelVars, exitVars, active, out, stopping, delivered, counted, reported>>

\* The 2 ms sleep is over.
StartDrain ==
  /\ cpc = "grace"
  /\ Grace => \A c \in Calls : pc[c] \in Running => mi[c] # Idle
  /\ cpc' = "drain"
  /\ scan' = Keys
  /\ UNCHANGED <<kernelVars, exitVars, active, out, stopping, delivered, counted, reported>>

\* Mutant: a batched lookup that does not delete.
DrainBucket_Keep(k) ==
  /\ cpc = "drain"
  /\ k \in scan
  /\ scan' = scan \ {k}
  /\ out' = out \cup {slots[Idle][s] : s \in Found(Idle, k)}
  /\ UNCHANGED <<kernelVars, exitVars, active, cpc, stopping, delivered, counted, reported>>

\* The batched lookup-and-delete reaches the bucket of key k.
DrainBucket(k) ==
  /\ cpc = "drain"
  /\ k \in scan
  /\ scan' = scan \ {k}
  /\ out' = out \cup {slots[Idle][s] : s \in Found(Idle, k)}
  /\ slots' = [slots EXCEPT ![Idle] =
                 [s \in Slots |-> IF slots[Idle][s].key = k THEN FreeElem ELSE slots[Idle][s]]]
  /\ UNCHANGED <<pc, mi, ptr, dropped, exitVars, active, cpc, stopping, delivered, counted, reported>>

\* The traversal is complete: the exit events are read, and flows and exits
\* are ingested and sent to the sinks.
Publish ==
  /\ cpc = "drain"
  /\ scan = {}
  /\ delivered' = delivered \cup UNION {{<<c, e.owner>> : c \in e.bytes} : e \in out}
  /\ counted' = counted \cup UNION {e.calls : e \in out}
  /\ out' = {}
  /\ reported' = reported \cup {ring[n] : n \in DOMAIN ring}
  /\ ring' = << >>
  /\ cpc' = IF stopping THEN "stopped" ELSE "wait"
  /\ UNCHANGED <<kernelVars, procs, life, held, active, scan, stopping>>

\* A bpf() error in flip() or drain() ends run() at once.
Fail ==
  /\ cpc \in {"wait", "drain"}
  /\ cpc' = "failed"
  /\ UNCHANGED <<kernelVars, exitVars, active, scan, out, stopping, delivered, counted, reported>>

collector ==
  \/ \E signal \in BOOLEAN : Flip(signal)
  \/ StartDrain
  \/ \E k \in Keys : DrainBucket(k)
  \/ Publish

Next ==
  \/ \E i \in Insts : Born(i) \/ Gone(i) \/ sched_process_exit(i)
  \/ \E c \in Calls : account(c)
  \/ collector
  \/ Fail

Spec == Init /\ [][Next]_vars

\* A program runs to its end, and the timer keeps waking the collector.
Fairness ==
  /\ \A c \in Calls : WF_vars(account(c) /\ pc[c] # "idle")
  /\ WF_vars(collector)

FairSpec == Spec /\ Fairness

-----------------------------------------------------------------------------
(* Properties.                                                              *)

Resident(c) == \E m \in Maps, s \in Slots : c \in slots[m][s].bytes
Drained(c) == \E e \in out : c \in e.bytes
Delivered(c) == \E i \in Insts : <<c, i>> \in delivered
Settled(c) == c \in dropped \/ Delivered(c)

\* No byte account() was called for goes missing between a program, a flow
\* map, the drained vector and a tick, whatever the interleaving of programs,
\* flips and drains (the README: bytes may be "late, not lost").
NothingLost ==
  \A c \in Calls : pc[c] # "idle" =>
    pc[c] \in Unadded \/ Resident(c) \/ Drained(c) \/ Settled(c)

\* A call's bytes are in at most one place: a lost race of two inserts, a
\* write through a stale pointer or a second drain never counts them twice.
\* Holds without the grace period too.
NoDoubleCount ==
  \A c \in Calls :
    /\ pc[c] \in Unadded \cup {"idle"} => ~(Resident(c) \/ Drained(c) \/ Settled(c))
    /\ Resident(c) => ~(Drained(c) \/ Settled(c))
    /\ Drained(c) => ~Settled(c)
    /\ c \in dropped => ~Delivered(c)
    /\ \A m, n \in Maps, s, t \in Slots :
         c \in slots[m][s].bytes /\ c \in slots[n][t].bytes => m = n /\ s = t
    /\ \A d, e \in out : c \in d.bytes /\ c \in e.bytes => d = e
    /\ \A i, j \in Insts : <<c, i>> \in delivered /\ <<c, j>> \in delivered => i = j

\* Between cycles the idle map is empty and no program works on it: the next
\* flip hands the programs a clean map, and after the last cycle of a
\* shutdown only calls that began after the final flip are unpublished.
IdleMapEmpty ==
  cpc \in {"wait", "stopped"} =>
    /\ \A s \in Slots : slots[Idle][s].key = NoKey
    /\ \A c \in Calls : pc[c] \in Running => mi[c] = active

\* add() updates the byte and the call counter separately, yet a tick never
\* publishes the one without the other.
BytesMatchCalls == \A c \in Calls : c \in counted <=> Delivered(c)

\* DROPS grows only when the flow map is full of other flows, as its comment
\* says: a program that lost the insert race finds the winner's entry.
DropsOnlyWhenFull ==
  [][\A c \in Calls : c \in dropped' \ dropped =>
       FreeSlots(mi[c]) = {} /\ Found(mi[c], KeyOf(c)) = {}]_vars

\* Every byte is credited to the process instance that moved it.
NeverMerged == \A d \in delivered : d[2] = InstOf[d[1]]

\* An exit event names an instance whose leader has exited, also when the
\* PROCS entry was written late or the PID has a new owner.
ExitNamesExited ==
  \A i \in reported \cup {ring[n] : n \in DOMAIN ring} : life[i] \in {"zombie", "gone"}

\* A program that started is published or counted as dropped, unless the
\* collector ends first.
EventuallySettled ==
  \A c \in Calls : pc[c] = "lookup" ~> (Settled(c) \/ cpc \in {"stopped", "failed"})

\* The abstract accounting, with everything between a program and its tick
\* as pending.
Abstract == INSTANCE Accounting WITH
  pending <- {c \in Calls : pc[c] # "idle" /\ ~Settled(c)}
AccountingSpec == Abstract!Spec
=============================================================================
