--------------------------- MODULE FlowMapsProofs ---------------------------
(* Proofs about FlowMaps, for every set of calls, processes and slots.      *)
EXTENDS FlowMaps, TLAPS

\* The provers of a leaf that names none, in the order they are tried.
USE ZenonT(90), SMTT(30)

-----------------------------------------------------------------------------
(* Type correctness.                                                        *)

\* A used element, in a map or drained, records the process that inserted it.
Owned ==
  /\ \A m \in Maps, s \in Slots : slots[m][s].key # NoKey => slots[m][s].owner \in Insts
  /\ \A e \in out : e.owner \in Insts
  /\ \A i \in Insts : life[i] = "exiting" => held[i] \in Insts

TypeInv == TypeOK /\ Owned

\* The key of a call.
LEMMA KeyFacts ==
  ASSUME NEW c \in Calls
  PROVE /\ KeyOf(c) \in Keys /\ KeyOf(c) # NoKey /\ InstOf[c] \in Insts
        /\ PidOf[InstOf[c]] \in Pids
BY ConstantsAssumption DEF Keys, Pids

\* The idle map is the other one.
LEMMA IdleFacts == active \in Maps => Idle \in Maps /\ Idle # active /\ 1 - Idle = active
BY SMTT(30) DEF Idle, Maps

\* Writing one element of a map leaves the others.
LEMMA PutFacts ==
  ASSUME slots \in [Maps -> [Slots -> Elem]],
         NEW m \in Maps, NEW s \in Slots, NEW e \in Elem, slots' = Put(m, s, e)
  PROVE /\ slots' \in [Maps -> [Slots -> Elem]]
        /\ slots'[m][s] = e
        /\ \A n \in Maps, t \in Slots : n # m \/ t # s => slots'[n][t] = slots[n][t]
BY DEF Put

\* The two additions touch one counter each.
LEMMA ElemFacts ==
  ASSUME NEW e \in Elem, NEW c \in Calls
  PROVE /\ WithBytes(e, c) \in Elem
        /\ WithBytes(e, c).key = e.key /\ WithBytes(e, c).owner = e.owner
        /\ WithBytes(e, c).bytes = e.bytes \cup {c} /\ WithBytes(e, c).calls = e.calls
        /\ WithCalls(e, c) \in Elem
        /\ WithCalls(e, c).key = e.key /\ WithCalls(e, c).owner = e.owner
        /\ WithCalls(e, c).bytes = e.bytes /\ WithCalls(e, c).calls = e.calls \cup {c}
BY DEF Elem, WithBytes, WithCalls

\* The element an insert creates.
LEMMA NewElemFacts ==
  ASSUME NEW c \in Calls
  PROVE /\ NewElem(c) \in Elem
        /\ NewElem(c).key = KeyOf(c) /\ NewElem(c).owner = InstOf[c]
        /\ NewElem(c).bytes = {c} /\ NewElem(c).calls = {c}
BY KeyFacts DEF Elem, NewElem

\* What the steps of add(), insert() and the drain do to the elements.
LEMMA AddBytesEffect ==
  ASSUME TypeOK, NEW c \in Calls, AddBytes(c)
  PROVE /\ slots' \in [Maps -> [Slots -> Elem]]
        /\ \A m \in Maps, s \in Slots :
             /\ slots'[m][s].key = slots[m][s].key
             /\ slots'[m][s].owner = slots[m][s].owner
             /\ slots[m][s].key = NoKey => slots'[m][s] = slots[m][s]
             /\ slots'[m][s].calls = slots[m][s].calls
             /\ m = mi[c] /\ s = ptr[c] /\ slots[m][s].key # NoKey =>
                  slots'[m][s].bytes = slots[m][s].bytes \cup {c}
             /\ m # mi[c] \/ s # ptr[c] => slots'[m][s] = slots[m][s]
<1> DEFINE e == slots[mi[c]][ptr[c]]
<1>1. mi[c] \in Maps /\ ptr[c] \in Slots /\ e \in Elem BY DEF TypeOK
<1>2. CASE e.key = NoKey BY <1>1, <1>2 DEF AddBytes, TypeOK
<1>3. CASE e.key # NoKey
  <2>1. PICK w \in Elem :
          /\ w.key = e.key /\ w.owner = e.owner
          /\ w.bytes = e.bytes \cup {c} /\ w.calls = e.calls
          /\ slots' = Put(mi[c], ptr[c], w)
    BY <1>1, <1>3, ElemFacts DEF AddBytes
  <2>2. /\ slots' \in [Maps -> [Slots -> Elem]]
        /\ slots'[mi[c]][ptr[c]] = w
        /\ \A n \in Maps, t \in Slots :
             n # mi[c] \/ t # ptr[c] => slots'[n][t] = slots[n][t]
    BY <1>1, <2>1, PutFacts DEF TypeOK
  <2> QED BY <1>3, <2>1, <2>2
<1> QED BY <1>2, <1>3

\* The addition to the calls counter.
LEMMA AddCallsEffect ==
  ASSUME TypeOK, NEW c \in Calls, AddCalls(c)
  PROVE /\ slots' \in [Maps -> [Slots -> Elem]]
        /\ \A m \in Maps, s \in Slots :
             /\ slots'[m][s].key = slots[m][s].key
             /\ slots'[m][s].owner = slots[m][s].owner
             /\ slots[m][s].key = NoKey => slots'[m][s] = slots[m][s]
             /\ slots'[m][s].bytes = slots[m][s].bytes
             /\ m = mi[c] /\ s = ptr[c] /\ slots[m][s].key # NoKey =>
                  slots'[m][s].calls = slots[m][s].calls \cup {c}
             /\ m # mi[c] \/ s # ptr[c] => slots'[m][s] = slots[m][s]
<1> DEFINE e == slots[mi[c]][ptr[c]]
<1>1. mi[c] \in Maps /\ ptr[c] \in Slots /\ e \in Elem BY DEF TypeOK
<1>2. CASE e.key = NoKey BY <1>1, <1>2 DEF AddCalls, TypeOK
<1>3. CASE e.key # NoKey
  <2>1. PICK w \in Elem :
          /\ w.key = e.key /\ w.owner = e.owner
          /\ w.calls = e.calls \cup {c} /\ w.bytes = e.bytes
          /\ slots' = Put(mi[c], ptr[c], w)
    BY <1>1, <1>3, ElemFacts DEF AddCalls
  <2>2. /\ slots' \in [Maps -> [Slots -> Elem]]
        /\ slots'[mi[c]][ptr[c]] = w
        /\ \A n \in Maps, t \in Slots :
             n # mi[c] \/ t # ptr[c] => slots'[n][t] = slots[n][t]
    BY <1>1, <2>1, PutFacts DEF TypeOK
  <2> QED BY <1>3, <2>1, <2>2
<1> QED BY <1>2, <1>3

\* An insert takes a free slot, or is retried and changes nothing.
LEMMA InsertEffect ==
  ASSUME TypeOK, NEW c \in Calls, Insert(c)
  PROVE \/ slots' = slots /\ pc' = [pc EXCEPT ![c] = "retry"]
        \/ /\ pc' = [pc EXCEPT ![c] = "record"]
           /\ slots' \in [Maps -> [Slots -> Elem]]
           /\ \A t \in Slots : slots[mi[c]][t].key # KeyOf(c)
           /\ \E s \in Slots :
                /\ slots[mi[c]][s].key = NoKey
                /\ slots'[mi[c]][s] = NewElem(c)
                /\ \A n \in Maps, t \in Slots :
                     n # mi[c] \/ t # s => slots'[n][t] = slots[n][t]
<1>1. CASE \E s \in FreeSlots(mi[c]) : /\ Found(mi[c], KeyOf(c)) = {}
                                       /\ slots' = Put(mi[c], s, NewElem(c))
                                       /\ pc' = [pc EXCEPT ![c] = "record"]
  <2>1. PICK s \in Slots : slots[mi[c]][s].key = NoKey /\ slots' = Put(mi[c], s, NewElem(c))
    BY <1>1 DEF FreeSlots, Found
  <2>2. mi[c] \in Maps BY DEF TypeOK
  <2> QED BY <1>1, <2>1, <2>2, NewElemFacts, PutFacts, SMTT(30) DEF TypeOK, Found
<1> QED BY <1>1 DEF Insert

\* Draining a key publishes and frees its elements in the idle map.
LEMMA DrainEffect ==
  ASSUME TypeOK, NEW k \in Keys, DrainBucket(k)
  PROVE /\ slots' \in [Maps -> [Slots -> Elem]]
        /\ out' = out \cup {slots[Idle][s] : s \in Found(Idle, k)}
        /\ \A m \in Maps, s \in Slots :
             slots'[m][s] = IF m = Idle /\ slots[m][s].key = k THEN FreeElem ELSE slots[m][s]
<1>1. Idle \in Maps BY IdleFacts DEF TypeOK
<1>2. FreeElem \in Elem BY DEF FreeElem, Elem
<1> QED BY <1>1, <1>2 DEF DrainBucket, TypeOK

\* A program step moves only that program.
LEMMA PcStep ==
  ASSUME TypeOK, NEW c \in Calls, account(c)
  PROVE /\ \A d \in Calls : d # c => pc'[d] = pc[d]
        /\ pc[c] # "done"
        /\ pc[c] = "idle" => ReadActive(c) /\ pc'[c] = "lookup"
<1>1. CASE ReadActive(c) BY <1>1 DEF ReadActive, TypeOK
<1>2. CASE Lookup(c) \/ Retry(c) BY <1>2 DEF Lookup, Retry, TypeOK
<1>3. CASE AddBytes(c) \/ AddCalls(c) BY <1>3 DEF AddBytes, AddCalls, TypeOK
<1>4. CASE Insert(c) BY <1>4 DEF Insert, TypeOK
<1>5. CASE RecordProc(c) BY <1>5 DEF RecordProc, TypeOK
<1> QED BY <1>1, <1>2, <1>3, <1>4, <1>5 DEF account

\* The initial state is well typed.
LEMMA TypeInit == Init => TypeInv
<1> SUFFICES ASSUME Init PROVE TypeInv OBVIOUS
<1>1. FreeElem \in Elem BY DEF FreeElem, Elem
<1>2. AnySlot \in Slots BY ConstantsAssumption DEF AnySlot
<1>3. TypeOK
  <2>1. slots \in [Maps -> [Slots -> Elem]] BY <1>1 DEF Init
  <2>2. ptr \in [Calls -> Slots] BY <1>2 DEF Init
  <2>3. pc \in [Calls -> Running \cup {"idle", "record", "done"}] BY DEF Init
  <2>4. life \in [Insts -> {"unborn", "running", "exiting", "zombie", "gone"}] BY DEF Init
  <2>5. procs \in [Pids -> Insts \cup {NoInst}] /\ held \in [Insts -> Insts \cup {NoInst}]
    BY DEF Init
  <2>6. mi \in [Calls -> Maps] /\ active \in Maps BY DEF Init, Maps
  <2>7. ring \in Seq(Insts) BY SMTT(30) DEF Init
  <2>8. /\ dropped \in SUBSET Calls /\ scan \in SUBSET Keys /\ out \in SUBSET Elem
        /\ delivered \in SUBSET (Calls \X Insts)
        /\ counted \in SUBSET Calls /\ reported \in SUBSET Insts
    BY DEF Init
  <2> QED BY <2>1, <2>2, <2>3, <2>4, <2>5, <2>6, <2>7, <2>8 DEF Init, TypeOK
<1>4. Owned BY DEF Init, Owned, FreeElem
<1> QED BY <1>3, <1>4 DEF TypeInv

\* Every step keeps the types.
LEMMA TypeStep == TypeInv /\ [Next]_vars => TypeInv'
<1> SUFFICES ASSUME TypeInv, [Next]_vars PROVE TypeInv' OBVIOUS
<1> USE DEF TypeInv, TypeOK, Owned
<1>1. ASSUME NEW i \in Insts, Born(i) \/ Gone(i) \/ ReadProc(i) PROVE TypeInv'
  <2>1. PidOf[i] \in Pids BY DEF Pids
  <2>2. life' \in [Insts -> {"unborn", "running", "exiting", "zombie", "gone"}]
    BY <1>1 DEF Born, Gone, ReadProc
  <2>3. held' \in [Insts -> Insts \cup {NoInst}]
    BY <1>1, <2>1 DEF Born, Gone, ReadProc
  <2>4. \A j \in Insts : life'[j] = "exiting" => held'[j] \in Insts
    BY <1>1, <2>1, SMTT(30) DEF Born, Gone, ReadProc
  <2>5. UNCHANGED <<kernelVars, procs, ring, collectorVars>>
    BY <1>1 DEF Born, Gone, ReadProc
  <2> QED BY <2>2, <2>3, <2>4, <2>5 DEF kernelVars, collectorVars
<1>2. ASSUME NEW i \in Insts, ReportExit(i) PROVE TypeInv'
  <2>1. PidOf[i] \in Pids BY DEF Pids
  <2>2. ring' \in Seq(Insts) BY <1>2, SMTT(30) DEF ReportExit
  <2> QED BY <1>2, <2>1, <2>2 DEF ReportExit, kernelVars, collectorVars
<1>3. ASSUME NEW c \in Calls, ReadActive(c) \/ Lookup(c) \/ Retry(c) PROVE TypeInv'
  <2>1. pc' \in [Calls -> Running \cup {"idle", "record", "done"}]
    BY <1>3 DEF ReadActive, Lookup, Retry, Running
  <2>2. ptr' \in [Calls -> Slots]
    BY <1>3 DEF ReadActive, Lookup, Retry, Found
  <2>3. mi' \in [Calls -> Maps] /\ dropped' \in SUBSET Calls /\ UNCHANGED slots
    <3> mi \in [Calls -> Maps] /\ dropped \in SUBSET Calls /\ active \in Maps OBVIOUS
    <3> HIDE DEF TypeInv, TypeOK, Owned
    <3>1. CASE ReadActive(c) BY <3>1 DEF ReadActive
    <3>2. CASE Lookup(c) BY <3>2 DEF Lookup
    <3>3. CASE Retry(c) BY <3>3 DEF Retry
    <3> QED BY <1>3, <3>1, <3>2, <3>3
  <2>4. UNCHANGED <<exitVars, collectorVars>>
    BY <1>3 DEF ReadActive, Lookup, Retry
  <2> QED BY <2>1, <2>2, <2>3, <2>4 DEF exitVars, collectorVars
<1>4. ASSUME NEW c \in Calls, AddBytes(c) \/ AddCalls(c) PROVE TypeInv'
  <2>1. pc' \in [Calls -> Running \cup {"idle", "record", "done"}]
    BY <1>4 DEF AddBytes, AddCalls, Running
  <2>2. UNCHANGED <<mi, ptr, dropped, exitVars, collectorVars>>
    BY <1>4 DEF AddBytes, AddCalls
  <2>3. /\ slots' \in [Maps -> [Slots -> Elem]]
        /\ \A m \in Maps, s \in Slots :
             slots'[m][s].key = slots[m][s].key /\ slots'[m][s].owner = slots[m][s].owner
    BY <1>4, AddBytesEffect, AddCallsEffect, SMTT(30)
  <2> QED BY <2>1, <2>2, <2>3 DEF exitVars, collectorVars
<1>5. ASSUME NEW c \in Calls, Insert(c) PROVE TypeInv'
  <2>1. pc' \in [Calls -> Running \cup {"idle", "record", "done"}]
    BY <1>5 DEF Insert, Running
  <2>2. UNCHANGED <<mi, ptr, dropped, exitVars, collectorVars>>
    BY <1>5 DEF Insert
  <2>3. /\ slots' \in [Maps -> [Slots -> Elem]]
        /\ \A m \in Maps, s \in Slots :
             slots'[m][s] = slots[m][s] \/ slots'[m][s].owner \in Insts
    <3>1. CASE slots' = slots BY <3>1
    <3>2. CASE slots' # slots
      <4>1. NewElem(c).owner \in Insts BY NewElemFacts, KeyFacts
      <4> QED BY <1>5, <3>2, <4>1, InsertEffect, SMTT(30)
    <3> QED BY <3>1, <3>2
  <2> QED BY <2>1, <2>2, <2>3 DEF exitVars, collectorVars
<1>6. ASSUME NEW c \in Calls, RecordProc(c) PROVE TypeInv'
  BY <1>6, KeyFacts DEF RecordProc, exitVars, collectorVars, Running
<1>7. ASSUME NEW signal \in BOOLEAN, Flip(signal) PROVE TypeInv'
  BY <1>7, IdleFacts DEF Flip, kernelVars, exitVars
<1>8. CASE StartDrain \/ Fail
  BY <1>8 DEF StartDrain, Fail, kernelVars, exitVars
<1>9. ASSUME NEW k \in Keys, DrainBucket(k) PROVE TypeInv'
  <2>1. k # NoKey /\ Idle \in Maps BY ConstantsAssumption, IdleFacts
  <2>2. FreeElem \in Elem BY DEF FreeElem, Elem
  <2> QED BY <1>9, <2>1, <2>2, SMTT(30) DEF DrainBucket, Found, FreeElem, exitVars
<1>10. CASE Publish
  <2>1. delivered' \in SUBSET (Calls \X Insts) /\ counted' \in SUBSET Calls
    BY <1>10, SMTT(30) DEF Publish, Elem
  <2>2. reported' \in SUBSET Insts /\ ring' \in Seq(Insts)
    BY <1>10, SMTT(30) DEF Publish
  <2> QED BY <1>10, <2>1, <2>2 DEF Publish, kernelVars
<1>11. CASE UNCHANGED vars
  BY <1>11 DEF vars, kernelVars, exitVars, collectorVars
<1> QED
  BY <1>1, <1>2, <1>3, <1>4, <1>5, <1>6, <1>7, <1>8, <1>9, <1>10, <1>11 DEF Next, account, collector, sched_process_exit

\* Every variable keeps its type: in particular every published byte is
\* credited to a process, never to an unset owner.
THEOREM TypeCorrect == Spec => []TypeOK
<1>1. Spec => []TypeInv BY TypeInit, TypeStep, PTL DEF Spec
<1>2. TypeInv => TypeOK BY DEF TypeInv
<1> QED BY <1>1, <1>2, PTL

-----------------------------------------------------------------------------
(* Exit events.                                                             *)

Present == {"running", "exiting", "zombie"}

\* A PID has at most one present owner, a program runs only while its process
\* is present, and PROCS and the exit hook hold instances of the PID that
\* have existed.
ExitInv ==
  /\ \A i, j \in Insts :
       PidOf[i] = PidOf[j] /\ life[i] \in Present /\ life[j] \in Present => i = j
  /\ \A c \in Calls : pc[c] \notin {"idle", "done"} => life[InstOf[c]] \in Present
  /\ \A p \in Pids : procs[p] # NoInst => PidOf[procs[p]] = p /\ life[procs[p]] # "unborn"
  /\ \A i \in Insts : life[i] = "exiting" =>
       PidOf[held[i]] = PidOf[i] /\ life[held[i]] # "unborn"
  /\ ExitNamesExited

\* Exit events stay right while no event is added and nobody comes back to life.
LEMMA NamesFrame ==
  ASSUME TypeOK, ExitNamesExited, UNCHANGED <<ring, reported>>,
         \A j \in Insts : life[j] \in {"zombie", "gone"} => life'[j] \in {"zombie", "gone"}
  PROVE ExitNamesExited'
<1>1. \A n \in DOMAIN ring : ring[n] \in Insts BY SMTT(30) DEF TypeOK
<1> QED BY <1>1, SMTT(30) DEF TypeOK, ExitNamesExited

\* Every step keeps the invariant of the exit events.
LEMMA ExitStep == TypeInv /\ ExitInv /\ [Next]_vars => ExitInv'
<1> SUFFICES ASSUME TypeInv, ExitInv, [Next]_vars PROVE ExitInv' OBVIOUS
<1> USE ConstantsAssumption DEF TypeInv, TypeOK, Owned, Present
<1>1. ASSUME NEW i \in Insts, Born(i) PROVE ExitInv'
  <2>1. /\ \A j \in Insts : j # i => life'[j] = life[j]
        /\ life[i] = "unborn" /\ life'[i] = "running"
        /\ UNCHANGED <<pc, procs, ring, held, reported>>
    BY <1>1 DEF Born, kernelVars, collectorVars
  <2>2. \A j \in Insts : j # i /\ PidOf[j] = PidOf[i] => life[j] \notin Present
    BY <1>1 DEF Born
  <2>3. ExitNamesExited' BY <2>1, NamesFrame DEF ExitInv
  <2>4. \A j \in Insts : life[j] # "unborn" => life'[j] = life[j]
    BY <2>1
  <2>5. \A j, k \in Insts :
          PidOf[j] = PidOf[k] /\ life'[j] \in Present /\ life'[k] \in Present => j = k
    <3> SUFFICES ASSUME NEW j \in Insts, NEW k \in Insts, PidOf[j] = PidOf[k],
                        life'[j] \in Present, life'[k] \in Present
                 PROVE j = k
      OBVIOUS
    <3>1. CASE j = i \/ k = i BY <2>1, <2>2, <3>1
    <3>2. CASE j # i /\ k # i BY <2>1, <3>2, SMTT(30) DEF ExitInv
    <3> QED BY <3>1, <3>2
  <2>6. \A c \in Calls : pc'[c] \notin {"idle", "done"} => life'[InstOf[c]] \in Present
    BY <2>1, <2>4 DEF ExitInv
  <2>7. \A p \in Pids : procs'[p] # NoInst => PidOf[procs'[p]] = p /\ life'[procs'[p]] # "unborn"
    BY <2>1, <2>4, SMTT(30) DEF ExitInv
  <2>8. \A j \in Insts : life'[j] = "exiting" =>
          PidOf[held'[j]] = PidOf[j] /\ life'[held'[j]] # "unborn"
    BY <2>1, <2>4 DEF ExitInv
  <2> QED BY <2>3, <2>5, <2>6, <2>7, <2>8 DEF ExitInv
<1>2. ASSUME NEW i \in Insts, Gone(i) PROVE ExitInv'
  <2>1. /\ \A j \in Insts : j # i => life'[j] = life[j]
        /\ life[i] = "zombie" /\ life'[i] = "gone"
        /\ UNCHANGED <<pc, procs, ring, held, reported>>
    BY <1>2 DEF Gone, kernelVars, collectorVars
  <2>2. \A c \in Calls : pc[c] \notin {"idle", "done"} => InstOf[c] # i
    BY <1>2 DEF Gone
  <2>3. ExitNamesExited' BY <2>1, NamesFrame DEF ExitInv
  <2>4. \A c \in Calls : InstOf[c] \in Insts OBVIOUS
  <2> QED BY <2>1, <2>2, <2>3, <2>4, SMTT(30) DEF ExitInv
<1>3. ASSUME NEW i \in Insts, ReadProc(i) PROVE ExitInv'
  <2>1. PidOf[i] \in Pids BY DEF Pids
  <2> QED BY <1>3, <2>1, SMTT(30) DEF ReadProc, kernelVars, collectorVars, ExitInv, ExitNamesExited
<1>4. ASSUME NEW i \in Insts, ReportExit(i) PROVE ExitInv'
  <2>1. PidOf[i] \in Pids BY DEF Pids
  <2>2. life'[held[i]] \in {"zombie", "gone"}
    BY <1>4, SMTT(30) DEF ReportExit, ExitInv
  <2>3. \A n \in DOMAIN ring' : ring'[n] = held[i] \/ \E k \in DOMAIN ring : ring'[n] = ring[k]
    BY <1>4, SMTT(30) DEF ReportExit
  <2>4. ExitNamesExited'
    <3>1. \A j \in Insts : life[j] \in {"zombie", "gone"} => life'[j] \in {"zombie", "gone"}
      BY <1>4 DEF ReportExit
    <3>2. reported' = reported BY <1>4 DEF ReportExit, collectorVars
    <3>3. /\ \A j \in reported : j \in Insts /\ life[j] \in {"zombie", "gone"}
          /\ \A k \in DOMAIN ring : ring[k] \in Insts /\ life[ring[k]] \in {"zombie", "gone"}
      BY SMTT(30) DEF ExitInv, ExitNamesExited
    <3> HIDE DEF TypeInv, TypeOK, Owned
    <3>4. \A j \in reported' : life'[j] \in {"zombie", "gone"} BY <3>1, <3>2, <3>3
    <3>5. \A n \in DOMAIN ring' : life'[ring'[n]] \in {"zombie", "gone"}
      BY <2>2, <2>3, <3>1, <3>3
    <3> QED BY <3>4, <3>5 DEF ExitNamesExited
  <2>5. /\ \A j \in Insts : j # i => life'[j] = life[j]
        /\ life[i] = "exiting" /\ life'[i] = "zombie"
        /\ UNCHANGED <<pc, held>>
    BY <1>4 DEF ReportExit, kernelVars
  <2>6. /\ \A p \in Pids : p # PidOf[i] => procs'[p] = procs[p]
        /\ procs'[PidOf[i]] = NoInst
    BY <1>4, <2>1 DEF ReportExit
  <2>7. \A p \in Pids : procs[p] \in Insts \cup {NoInst} OBVIOUS
  <2>8. \A j \in Insts : life[j] = "exiting" => held[j] \in Insts OBVIOUS
  <2>9. \A c \in Calls : InstOf[c] \in Insts OBVIOUS
  <2> HIDE DEF TypeInv, TypeOK, Owned
  <2>10. \A j, k \in Insts :
           PidOf[j] = PidOf[k] /\ life'[j] \in Present /\ life'[k] \in Present => j = k
    BY <2>5, SMTT(30) DEF ExitInv, Present
  <2>11. \A c \in Calls : pc'[c] \notin {"idle", "done"} => life'[InstOf[c]] \in Present
    BY <2>5, <2>9 DEF ExitInv, Present
  <2>12. \A p \in Pids : procs'[p] # NoInst => PidOf[procs'[p]] = p /\ life'[procs'[p]] # "unborn"
    BY <2>5, <2>6, <2>7, SMTT(30) DEF ExitInv
  <2>13. \A j \in Insts : life'[j] = "exiting" =>
           PidOf[held'[j]] = PidOf[j] /\ life'[held'[j]] # "unborn"
    BY <2>5, <2>8, SMTT(30) DEF ExitInv
  <2> QED BY <2>4, <2>10, <2>11, <2>12, <2>13 DEF ExitInv
<1>5. ASSUME NEW c \in Calls, account(c) PROVE ExitInv'
  <2>1. \A d \in Calls : pc'[d] \notin {"idle", "done"} => life[InstOf[d]] \in Present
    <3>1. \A d \in Calls : d # c => pc'[d] = pc[d]
      BY <1>5, PcStep
    <3>2. life[InstOf[c]] \in Present
      BY <1>5, PcStep DEF ReadActive, ExitInv
    <3> QED BY <3>1, <3>2 DEF ExitInv
  <2>2. UNCHANGED <<ring, life, held, reported>>
    BY <1>5 DEF account, ReadActive, Lookup, AddBytes, AddCalls, Insert, RecordProc, Retry,
                exitVars, collectorVars
  <2>3. \A p \in Pids : procs'[p] # NoInst => PidOf[procs'[p]] = p /\ life[procs'[p]] # "unborn"
    <3>1. CASE RecordProc(c)
      <4>1. life[InstOf[c]] \in Present BY <3>1 DEF RecordProc, ExitInv
      <4>2. \A p \in Pids : p # PidOf[InstOf[c]] => procs'[p] \in {procs[p], NoInst}
        BY <3>1 DEF RecordProc
      <4>3. procs'[PidOf[InstOf[c]]] = InstOf[c]
        BY <3>1, KeyFacts DEF RecordProc
      <4> QED BY <4>1, <4>2, <4>3 DEF ExitInv
    <3>2. CASE procs' = procs BY <3>2 DEF ExitInv
    <3> QED BY <1>5, <3>1, <3>2 DEF account, ReadActive, Lookup, AddBytes, AddCalls, Insert, Retry, exitVars
  <2> QED BY <2>1, <2>2, <2>3, SMTT(30) DEF ExitInv, ExitNamesExited
<1>6. CASE collector \/ Fail
  <2>1. UNCHANGED <<pc, life, held, procs>>
    BY <1>6 DEF collector, Flip, StartDrain, DrainBucket, Publish, Fail, kernelVars, exitVars
  <2>2. \A i \in reported' \cup {ring'[n] : n \in DOMAIN ring'} :
          i \in reported \cup {ring[n] : n \in DOMAIN ring}
    BY <1>6, SMTT(30) DEF collector, Flip, StartDrain, DrainBucket, Publish, Fail, kernelVars, exitVars
  <2>3. ExitNamesExited' BY <2>1, <2>2 DEF ExitInv, ExitNamesExited
  <2> QED BY <2>1, <2>3 DEF ExitInv
<1>7. CASE UNCHANGED vars
  BY <1>7, SMTT(30) DEF vars, kernelVars, exitVars, collectorVars, ExitInv, ExitNamesExited
<1> QED BY <1>1, <1>2, <1>3, <1>4, <1>5, <1>6, <1>7 DEF Next, sched_process_exit

\* Every exit event sched_process_exit reports names an instance whose leader
\* has exited: a stale PROCS entry never ends the PID's new owner.
THEOREM ExitsAreReal == Spec => []ExitNamesExited
<1>1. Init => ExitInv
  BY SMTT(30) DEF Init, ExitInv, ExitNamesExited, Present
<1>2. Spec => [](TypeInv /\ ExitInv)
  BY <1>1, TypeInit, TypeStep, ExitStep, PTL DEF Spec
<1>3. ExitInv => ExitNamesExited BY DEF ExitInv
<1> QED BY <1>2, <1>3, PTL

-----------------------------------------------------------------------------
(* No byte is counted twice.                                                *)

\* NoDoubleCount for one call, in two parts: what excludes what, and that it is
\* in a place once.
Placed(c) ==
  /\ pc[c] \in Unadded \cup {"idle"} => ~(Resident(c) \/ Drained(c) \/ Settled(c))
  /\ Resident(c) => ~(Drained(c) \/ Settled(c))
  /\ Drained(c) => ~Settled(c)
  /\ c \in dropped => ~Delivered(c)

Single(c) ==
  /\ \A m, n \in Maps, s, t \in Slots :
       c \in slots[m][s].bytes /\ c \in slots[n][t].bytes => m = n /\ s = t
  /\ \A d, e \in out : c \in d.bytes /\ c \in e.bytes => d = e
  /\ \A i, j \in Insts : <<c, i>> \in delivered /\ <<c, j>> \in delivered => i = j

\* Counting at most once, call by call.
LEMMA OnceParts == NoDoubleCount <=> \A c \in Calls : Placed(c) /\ Single(c)
BY DEF NoDoubleCount, Placed, Single

\* The same of the next state.
LEMMA OncePartsNext == NoDoubleCount' <=> \A c \in Calls : Placed(c)' /\ Single(c)'
BY DEF NoDoubleCount, Placed, Single

\* Nothing is counted initially.
LEMMA OnceInit == Init => NoDoubleCount
<1> SUFFICES ASSUME Init, NEW c \in Calls PROVE Placed(c) /\ Single(c)
  BY OnceParts
<1>1. \A m \in Maps, s \in Slots : slots[m][s].bytes = {}
  BY DEF Init, FreeElem
<1>2. ~Resident(c) BY <1>1 DEF Resident
<1>3. ~Drained(c) /\ ~Delivered(c) /\ ~Settled(c)
  BY DEF Init, Drained, Delivered, Settled
<1>4. Placed(c) BY <1>2, <1>3 DEF Placed
<1>5. Single(c) BY <1>1 DEF Single, Init
<1> QED BY <1>4, <1>5

\* A step that moves no bytes counts nothing twice.
LEMMA OnceFrame ==
  ASSUME NoDoubleCount, UNCHANGED <<out, delivered, dropped>>,
         \A m \in Maps, s \in Slots : slots'[m][s].bytes = slots[m][s].bytes,
         \A c \in Calls : pc'[c] \in Unadded \cup {"idle"} => pc[c] \in Unadded \cup {"idle"}
  PROVE NoDoubleCount'
BY SMTT(30) DEF NoDoubleCount, Resident, Drained, Settled, Delivered

\* Every step keeps calls counted at most once.
LEMMA OnceStep == TypeInv /\ NoDoubleCount /\ [Next]_vars => NoDoubleCount'
<1> SUFFICES ASSUME TypeInv, NoDoubleCount, [Next]_vars PROVE NoDoubleCount' OBVIOUS
<1>0. TypeOK /\ Owned BY DEF TypeInv
<1>1. ASSUME NEW i \in Insts, Born(i) \/ Gone(i) \/ sched_process_exit(i) PROVE NoDoubleCount'
  BY <1>1, OnceFrame DEF Born, Gone, sched_process_exit, ReadProc, ReportExit, kernelVars, collectorVars
<1>2. ASSUME NEW c \in Calls, ReadActive(c) \/ Lookup(c) PROVE NoDoubleCount'
  <2>1. UNCHANGED <<slots, out, delivered, dropped>>
    BY <1>2 DEF ReadActive, Lookup, collectorVars
  <2>2. \A d \in Calls : pc'[d] \in Unadded \cup {"idle"} => pc[d] \in Unadded \cup {"idle"}
    BY <1>0, <1>2 DEF ReadActive, Lookup, Unadded, TypeOK
  <2> QED BY <2>1, <2>2, OnceFrame
<1>3. ASSUME NEW c \in Calls, AddCalls(c) \/ RecordProc(c) PROVE NoDoubleCount'
  <2>1. UNCHANGED <<out, delivered, dropped>>
    BY <1>3 DEF AddCalls, RecordProc, collectorVars
  <2>2. \A d \in Calls : pc'[d] \in Unadded \cup {"idle"} => pc[d] \in Unadded \cup {"idle"}
    BY <1>0, <1>3 DEF AddCalls, RecordProc, Unadded, TypeOK
  <2>3. \A m \in Maps, s \in Slots : slots'[m][s].bytes = slots[m][s].bytes
    BY <1>0, <1>3, AddCallsEffect DEF RecordProc
  <2> QED BY <2>1, <2>2, <2>3, OnceFrame
<1>4. ASSUME NEW c \in Calls, AddBytes(c) \/ Insert(c) PROVE NoDoubleCount'
  <2>1. UNCHANGED <<out, delivered, dropped>>
    BY <1>4 DEF AddBytes, Insert, collectorVars
  <2>2. ~Resident(c) /\ ~Drained(c) /\ ~Settled(c)
    BY <1>4 DEF AddBytes, Insert, Unadded, NoDoubleCount
  <2>3. CASE slots' = slots
    <3>1. \A d \in Calls : pc'[d] \in Unadded \cup {"idle"} => pc[d] \in Unadded \cup {"idle"}
      BY <1>0, <1>4, PcStep DEF account, AddBytes, Insert, Unadded
    <3> QED BY <2>1, <2>3, <3>1, OnceFrame
  <2>4. ASSUME slots' # slots
        PROVE /\ pc'[c] \notin Unadded \cup {"idle"}
              /\ \E n \in Maps, t \in Slots :
                   /\ slots'[n][t].bytes \in {slots[n][t].bytes, slots[n][t].bytes \cup {c}, {c}}
                   /\ \A m \in Maps, s \in Slots :
                        m # n \/ s # t => slots'[m][s].bytes = slots[m][s].bytes
    <3>1. CASE AddBytes(c)
      <4>1. pc'[c] = "addCalls" BY <1>0, <3>1 DEF AddBytes, TypeOK
      <4>2. mi[c] \in Maps /\ ptr[c] \in Slots BY <1>0 DEF TypeOK
      <4>3. /\ slots'[mi[c]][ptr[c]].bytes \in {slots[mi[c]][ptr[c]].bytes,
                                               slots[mi[c]][ptr[c]].bytes \cup {c}}
            /\ \A m \in Maps, s \in Slots :
                 m # mi[c] \/ s # ptr[c] => slots'[m][s].bytes = slots[m][s].bytes
        BY <1>0, <3>1, <4>2, AddBytesEffect
      <4> QED BY <4>1, <4>2, <4>3 DEF Unadded
    <3>2. CASE Insert(c)
      <4>1. mi[c] \in Maps /\ pc \in [Calls -> Running \cup {"idle", "record", "done"}]
        BY <1>0 DEF TypeOK
      <4>2. pc'[c] = "record" BY <1>0, <2>4, <3>2, <4>1, InsertEffect
      <4>3. PICK s \in Slots :
              /\ slots'[mi[c]][s] = NewElem(c)
              /\ \A n \in Maps, t \in Slots : n # mi[c] \/ t # s => slots'[n][t] = slots[n][t]
        BY <1>0, <2>4, <3>2, InsertEffect
      <4>4. slots'[mi[c]][s].bytes = {c} BY <4>3, NewElemFacts
      <4>5. \A n \in Maps, t \in Slots : n # mi[c] \/ t # s => slots'[n][t].bytes = slots[n][t].bytes
        BY <4>3
      <4>6. pc'[c] \notin Unadded \cup {"idle"} BY <4>2 DEF Unadded
      <4> QED BY <4>1, <4>4, <4>5, <4>6
    <3> QED BY <1>4, <3>1, <3>2
  <2>5. CASE slots' # slots
    <3>1. PICK n \in Maps, t \in Slots :
            /\ slots'[n][t].bytes \in {slots[n][t].bytes, slots[n][t].bytes \cup {c}, {c}}
            /\ \A m \in Maps, s \in Slots :
                 m # n \/ s # t => slots'[m][s].bytes = slots[m][s].bytes
      BY <2>4, <2>5
    <3>2. \A d \in Calls : d # c => pc'[d] = pc[d]
      BY <1>0, <1>4, PcStep DEF account
    <3>3. \A d \in Calls, m \in Maps, s \in Slots :
            d # c /\ d \in slots'[m][s].bytes => d \in slots[m][s].bytes
      BY <3>1
    <3>4. \A m \in Maps, s \in Slots : c \in slots'[m][s].bytes => m = n /\ s = t
      BY <2>2, <3>1 DEF Resident
    <3>5. \A d \in Calls : (d # c => (Resident(d)' => Resident(d)))
                            /\ (Drained(d)' <=> Drained(d)) /\ (Settled(d)' <=> Settled(d))
                            /\ (Delivered(d)' <=> Delivered(d))
      BY <2>1, <3>3 DEF Resident, Drained, Settled, Delivered
    <3> SUFFICES ASSUME NEW d \in Calls PROVE Placed(d)' /\ Single(d)'
      BY OncePartsNext
    <3>6. Placed(d) /\ Single(d) BY OnceParts
    <3>7. Placed(d)'
      <4>1. CASE d = c BY <2>1, <2>2, <2>4, <2>5, <3>5, <4>1 DEF Placed, Settled
      <4>2. CASE d # c BY <2>1, <3>2, <3>5, <3>6, <4>2 DEF Placed
      <4> QED BY <4>1, <4>2
    <3>8. Single(d)'
      <4>1. CASE d = c BY <2>1, <3>4, <3>6, <4>1, SMTT(30) DEF Single
      <4>2. CASE d # c BY <2>1, <3>3, <3>6, <4>2 DEF Single
      <4> QED BY <4>1, <4>2
    <3> QED BY <3>7, <3>8
  <2> QED BY <2>3, <2>5
<1>5. ASSUME NEW c \in Calls, Retry(c) PROVE NoDoubleCount'
  <2>1. UNCHANGED <<slots, out, delivered>> BY <1>5 DEF Retry, collectorVars
  <2>2. ~Resident(c) /\ ~Drained(c) /\ ~Settled(c)
    BY <1>5 DEF Retry, Unadded, NoDoubleCount
  <2>3. \A d \in Calls : d # c => pc'[d] = pc[d]
    BY <1>0, <1>5, PcStep DEF account
  <2>4. CASE dropped' = dropped
    <3>1. pc[c] \in Unadded BY <1>5 DEF Retry, Unadded
    <3> QED BY <2>1, <2>3, <2>4, <3>1, OnceFrame
  <2>5. CASE dropped' = dropped \cup {c} /\ pc' = [pc EXCEPT ![c] = "done"]
    <3>1. pc'[c] = "done" BY <1>0, <2>5 DEF TypeOK
    <3>2. \A d \in Calls : Resident(d)' = Resident(d) /\ Drained(d)' = Drained(d)
      BY <2>1 DEF Resident, Drained
    <3>3. \A d \in Calls : Delivered(d)' = Delivered(d) BY <2>1 DEF Delivered
    <3>4. \A d \in Calls : d # c => (d \in dropped' <=> d \in dropped) BY <2>5
    <3>5. ~Delivered(c) BY <2>2 DEF Settled
    <3>6. pc'[c] \notin Unadded \cup {"idle"} BY <3>1 DEF Unadded
    <3>7. \A d \in Calls : d # c => (Settled(d)' <=> Settled(d)) BY <3>3, <3>4 DEF Settled
    <3> SUFFICES ASSUME NEW d \in Calls PROVE Placed(d)' /\ Single(d)'
      BY OncePartsNext
    <3>8. Placed(d) /\ Single(d) BY OnceParts
    <3>9. Single(d)' BY <2>1, <3>8 DEF Single
    <3>10. CASE d = c BY <2>2, <3>2, <3>3, <3>5, <3>6, <3>9, <3>10 DEF Placed
    <3>11. CASE d # c BY <2>3, <3>2, <3>3, <3>4, <3>7, <3>8, <3>9, <3>11 DEF Placed
    <3> QED BY <3>10, <3>11
  <2> QED BY <1>5, <2>4, <2>5 DEF Retry
<1>6. CASE (\E signal \in BOOLEAN : Flip(signal)) \/ StartDrain \/ Fail \/ UNCHANGED vars
  BY <1>6, OnceFrame DEF Flip, StartDrain, Fail, vars, kernelVars, collectorVars
<1>7. ASSUME NEW k \in Keys, DrainBucket(k) PROVE NoDoubleCount'
  <2>1. UNCHANGED <<pc, delivered, dropped>> BY <1>7 DEF DrainBucket
  <2>2. Idle \in Maps BY <1>0, IdleFacts DEF TypeOK
  <2>3. \A c \in Calls, m \in Maps, s \in Slots : c \in slots'[m][s].bytes =>
          c \in slots[m][s].bytes /\ ~(m = Idle /\ slots[m][s].key = k)
    BY <1>0, <1>7, DrainEffect, SMTT(30) DEF FreeElem
  <2>4. \A e \in out' : e \in out \/ \E s \in Slots : slots[Idle][s].key = k /\ e = slots[Idle][s]
    BY <1>0, <1>7, DrainEffect, SMTT(30) DEF Found
  <2>5. \A c \in Calls : Drained(c)' =>
          Drained(c) \/ \E s \in Slots : slots[Idle][s].key = k /\ c \in slots[Idle][s].bytes
    BY <2>4 DEF Drained
  <2>6. ASSUME NEW c \in Calls, Resident(c)' PROVE Resident(c) /\ ~Drained(c)'
    <3>1. PICK m \in Maps, s \in Slots : c \in slots'[m][s].bytes BY <2>6 DEF Resident
    <3>2. c \in slots[m][s].bytes /\ ~(m = Idle /\ slots[m][s].key = k) BY <2>3, <3>1
    <3>3. Resident(c) BY <3>2 DEF Resident
    <3>4. Placed(c) /\ Single(c) BY OnceParts
    <3>5. ~Drained(c) BY <3>3, <3>4 DEF Placed
    <3>6. \A t \in Slots : slots[Idle][t].key = k => c \notin slots[Idle][t].bytes
      BY <2>2, <3>2, <3>4 DEF Single
    <3> QED BY <2>5, <3>3, <3>5, <3>6
  <2>7. \A c \in Calls : Drained(c)' => Drained(c) \/ Resident(c)
    BY <2>2, <2>5 DEF Resident
  <2>8. \A c \in Calls : Settled(c)' <=> Settled(c) BY <2>1 DEF Settled, Delivered
  <2>9. \A c \in Calls : \A d, e \in out' : c \in d.bytes /\ c \in e.bytes => d = e
    <3> SUFFICES ASSUME NEW c \in Calls, NEW d \in out', NEW e \in out',
                        c \in d.bytes, c \in e.bytes
                 PROVE d = e
      OBVIOUS
    <3>1. CASE d \in out /\ e \in out BY <3>1 DEF NoDoubleCount
    <3>2. CASE d \notin out /\ e \notin out BY <2>2, <2>4, <3>2, SMTT(30) DEF NoDoubleCount
    <3>3. CASE (d \in out) # (e \in out)
      BY <2>2, <2>4, <3>3, SMTT(30) DEF NoDoubleCount, Resident, Drained
    <3> QED BY <3>1, <3>2, <3>3
  <2>10. \A c \in Calls : Delivered(c)' <=> Delivered(c) BY <2>1 DEF Delivered
  <2> QED BY <2>1, <2>3, <2>6, <2>7, <2>8, <2>9, <2>10 DEF NoDoubleCount
<1>8. CASE Publish
  <2>1. UNCHANGED <<pc, slots, dropped>> /\ out' = {} BY <1>8 DEF Publish, kernelVars
  <2>2. \A c \in Calls, i \in Insts : <<c, i>> \in delivered' =>
          <<c, i>> \in delivered \/ \E e \in out : c \in e.bytes /\ i = e.owner
    BY <1>8, SMTT(30) DEF Publish
  <2>3. \A c \in Calls : Delivered(c)' => Delivered(c) \/ Drained(c)
    BY <2>2 DEF Delivered, Drained
  <2>4. \A c \in Calls : Resident(c)' <=> Resident(c) BY <2>1 DEF Resident
  <2>5. \A c \in Calls : ~Drained(c)' BY <2>1 DEF Drained
  <2>6. \A c \in Calls : Settled(c)' => Settled(c) \/ Drained(c)
    BY <2>1, <2>3 DEF Settled
  <2>7. \A c \in Calls : \A i, j \in Insts :
          <<c, i>> \in delivered' /\ <<c, j>> \in delivered' => i = j
    BY <2>2, SMTT(30) DEF NoDoubleCount, Drained, Settled, Delivered
  <2>8. \A c \in Calls : c \in dropped' => ~Delivered(c)'
    BY <2>1, <2>3 DEF NoDoubleCount, Settled
  <2> QED BY <2>1, <2>4, <2>5, <2>6, <2>7, <2>8 DEF NoDoubleCount
<1> QED BY <1>1, <1>2, <1>3, <1>4, <1>5, <1>6, <1>7, <1>8 DEF Next, account, collector

\* Whatever the timing, also when a program outlives the 2 ms grace period and
\* writes through a pointer to a recycled element, account(), drain() and
\* ingest() never count a call's bytes twice.
THEOREM OnceOnly == Spec => []NoDoubleCount
<1>1. Spec => [](TypeInv /\ NoDoubleCount)
  BY OnceInit, TypeInit, TypeStep, OnceStep, PTL DEF Spec
<1> QED BY <1>1, PTL

-----------------------------------------------------------------------------
(* When every program that read the old ACTIVE value ends within the 2 ms   *)
(* sleep (Grace): what keeps the double-buffering exact.                    *)

\* Only between flip and drain does a program work on the idle map, so its
\* pointer stays valid, the drain meets no program, and an insert that failed
\* finds its key or a full map.
MapInv ==
  /\ \A c \in Calls : pc[c] \in Running /\ mi[c] # active => cpc = "grace"
  /\ \A c \in Calls : pc[c] \in {"add", "addCalls"} => slots[mi[c]][ptr[c]].key = KeyOf(c)
  /\ \A c \in Calls : pc[c] = "retry" =>
       \/ \E s \in Slots : slots[mi[c]][s].key = KeyOf(c)
       \/ \A s \in Slots : slots[mi[c]][s].key # NoKey
  /\ cpc = "drain" => \A s \in Slots : slots[Idle][s].key \in scan \cup {NoKey}
  /\ cpc \in {"wait", "stopped"} => \A s \in Slots : slots[Idle][s].key = NoKey

\* A free slot holds a zeroed element.
FreeIsEmpty ==
  \A m \in Maps, s \in Slots : slots[m][s].key = NoKey => slots[m][s] = FreeElem

\* The call counter of an element lags its byte counter only by the programs
\* between the two instructions of add().
CallsLagBytes ==
  \A m \in Maps, s \in Slots, c \in Calls :
    c \in slots[m][s].bytes <=>
      c \in slots[m][s].calls \/ (pc[c] = "addCalls" /\ mi[c] = m /\ ptr[c] = s)

\* The two counters of a drained element agree.
OutAgrees == \A e \in out : e.bytes = e.calls

CountInv == FreeIsEmpty /\ CallsLagBytes /\ OutAgrees /\ BytesMatchCalls /\ NothingLost

\* An element holds calls of its key only, and its owner has the key's PID.
OwnElem(e) ==
  e.key # NoKey => /\ PidOf[e.owner] = e.key[1]
                   /\ \A c \in e.bytes : KeyOf(c) = e.key

OwnerInv ==
  /\ \A m \in Maps, s \in Slots : OwnElem(slots[m][s])
  /\ \A e \in out : \A c \in e.bytes : PidOf[e.owner] = PidOf[InstOf[c]]
  /\ \A d \in delivered : PidOf[d[2]] = PidOf[InstOf[d[1]]]

-----------------------------------------------------------------------------

\* Every step keeps the invariant of the two maps.
LEMMA MapStep == ASSUME Grace PROVE TypeInv /\ MapInv /\ [Next]_vars => MapInv'
<1> SUFFICES ASSUME TypeInv, MapInv, [Next]_vars PROVE MapInv' OBVIOUS
<1>0. TypeOK BY DEF TypeInv
<1>k. \A c \in Calls : KeyOf(c) # NoKey /\ mi[c] \in Maps /\ ptr[c] \in Slots
  BY <1>0, KeyFacts DEF TypeOK
<1>i. Idle \in Maps /\ Idle # active BY <1>0, IdleFacts DEF TypeOK
<1>1. ASSUME NEW i \in Insts, Born(i) \/ Gone(i) \/ sched_process_exit(i) PROVE MapInv'
  <2>1. UNCHANGED <<pc, slots, mi, ptr, cpc, active, scan>>
    BY <1>1 DEF Born, Gone, sched_process_exit, ReadProc, ReportExit, kernelVars, collectorVars
  <2> QED BY <2>1 DEF MapInv, Idle
<1>2. ASSUME NEW c \in Calls, account(c) PROVE MapInv'
  <2>1. UNCHANGED <<cpc, active, scan>> /\ Idle' = Idle
    BY <1>2 DEF account, ReadActive, Lookup, AddBytes, AddCalls, Insert, RecordProc, Retry,
                collectorVars, Idle
  <2>2. \A d \in Calls : d # c => pc'[d] = pc[d] /\ mi'[d] = mi[d] /\ ptr'[d] = ptr[d]
    <3>1. \A d \in Calls : d # c => pc'[d] = pc[d] BY <1>0, <1>2, PcStep
    <3>2. \A d \in Calls : d # c => mi'[d] = mi[d]
      BY <1>0, <1>2 DEF account, ReadActive, Lookup, AddBytes, AddCalls, Insert, RecordProc, Retry, TypeOK
    <3>3. \A d \in Calls : d # c => ptr'[d] = ptr[d]
      BY <1>0, <1>2 DEF account, ReadActive, Lookup, AddBytes, AddCalls, Insert, RecordProc, Retry, TypeOK
    <3> QED BY <3>1, <3>2, <3>3
  <2>3. CASE ReadActive(c)
    <3>1. slots' = slots /\ mi'[c] = active /\ pc'[c] = "lookup"
      BY <1>0, <2>3 DEF ReadActive, TypeOK
    <3> QED BY <2>1, <2>2, <3>1 DEF MapInv
  <2>4. CASE Lookup(c) \/ Retry(c)
    <3>1. slots' = slots /\ mi' = mi /\ pc[c] \in Running
      BY <2>4 DEF Lookup, Retry, Running
    <3>2. \/ pc'[c] = "add" /\ slots[mi[c]][ptr'[c]].key = KeyOf(c)
          \/ pc'[c] \in {"insert", "done"}
      BY <1>0, <2>4 DEF Lookup, Retry, Found, TypeOK
    <3> QED BY <2>1, <2>2, <3>1, <3>2 DEF MapInv
  <2>5. CASE AddBytes(c) \/ AddCalls(c) \/ RecordProc(c)
    <3>1. \A m \in Maps, s \in Slots : slots'[m][s].key = slots[m][s].key
      BY <1>0, <2>5, AddBytesEffect, AddCallsEffect DEF RecordProc
    <3>2. mi' = mi /\ ptr' = ptr BY <2>5 DEF AddBytes, AddCalls, RecordProc
    <3>3. \/ pc'[c] = "done"
          \/ pc[c] = "add" /\ pc'[c] = "addCalls"
      BY <1>0, <2>5 DEF AddBytes, AddCalls, RecordProc, TypeOK
    <3> QED BY <1>k, <1>i, <2>1, <2>2, <3>1, <3>2, <3>3, SMTT(30) DEF MapInv, Running
  <2>6. CASE Insert(c)
    <3>1. mi' = mi /\ ptr' = ptr /\ pc[c] = "insert" BY <2>6 DEF Insert
    <3>2. CASE slots' = slots /\ pc' = [pc EXCEPT ![c] = "retry"]
      <4>1. pc'[c] = "retry" BY <1>0, <3>2 DEF TypeOK
      <4>2. \/ \E s \in Slots : slots[mi[c]][s].key = KeyOf(c)
            \/ \A s \in Slots : slots[mi[c]][s].key # NoKey
        BY <1>0, <2>6, <4>1 DEF Insert, Found, FreeSlots, TypeOK
      <4> QED BY <2>1, <2>2, <3>1, <3>2, <4>1, <4>2 DEF MapInv, Running
    <3>3. ASSUME NEW s \in Slots, pc' = [pc EXCEPT ![c] = "record"],
                 slots[mi[c]][s].key = NoKey, slots'[mi[c]][s] = NewElem(c),
                 \A n \in Maps, t \in Slots : n # mi[c] \/ t # s => slots'[n][t] = slots[n][t]
          PROVE MapInv'
      <4>1. pc'[c] = "record" BY <1>0, <3>3 DEF TypeOK
      <4>2. slots'[mi[c]][s].key = KeyOf(c) BY <3>3, NewElemFacts
      <4>3. \A d \in Calls, t \in Slots :
              slots[mi[d]][t].key # NoKey => slots'[mi[d]][t].key = slots[mi[d]][t].key
        BY <1>k, <3>3
      <4>4. cpc # "grace" => \A t \in Slots : slots'[Idle][t] = slots[Idle][t]
        BY <1>i, <3>1, <3>3, SMTT(30) DEF MapInv, Running
      <4>5. \A d \in Calls : pc'[d] \in {"add", "addCalls"} => slots'[mi[d]][ptr[d]].key = KeyOf(d)
        BY <1>k, <2>2, <4>1, <4>3, SMTT(30) DEF MapInv
      <4>6. \A d \in Calls : pc'[d] = "retry" =>
              \/ \E t \in Slots : slots'[mi[d]][t].key = KeyOf(d)
              \/ \A t \in Slots : slots'[mi[d]][t].key # NoKey
        BY <1>k, <2>2, <4>1, <4>3, SMTT(30) DEF MapInv
      <4>7. \A d \in Calls : pc'[d] \in Running /\ mi[d] # active => cpc = "grace"
        BY <2>2, <4>1 DEF MapInv, Running
      <4> QED BY <2>1, <3>1, <4>4, <4>5, <4>6, <4>7 DEF MapInv
    <3> QED BY <1>0, <2>6, <3>2, <3>3, InsertEffect
  <2> QED BY <1>2, <2>3, <2>4, <2>5, <2>6 DEF account
<1>3. ASSUME NEW signal \in BOOLEAN, Flip(signal) PROVE MapInv'
  BY <1>3 DEF Flip, MapInv, kernelVars
<1>4. CASE StartDrain
  <2>1. \A s \in Slots : slots[Idle][s].key \in Keys \cup {NoKey}
    BY <1>0, <1>i, SMTT(30) DEF TypeOK, Elem
  <2>2. \A c \in Calls : pc[c] \in Running => mi[c] = active
    BY <1>0, <1>4, SMTT(30) DEF StartDrain, TypeOK, Maps, Idle
  <2> QED BY <1>4, <2>1, <2>2 DEF StartDrain, MapInv, kernelVars, Idle
<1>5. ASSUME NEW k \in Keys, DrainBucket(k) PROVE MapInv'
  <2>1. UNCHANGED <<pc, mi, ptr, active, cpc>> /\ Idle' = Idle /\ cpc = "drain" /\ scan' = scan \ {k}
    BY <1>5 DEF DrainBucket, Idle
  <2>2. \A c \in Calls : pc[c] \in Running => mi[c] # Idle
    BY <1>i, <2>1 DEF MapInv
  <2>3. \A c \in Calls, s \in Slots : pc[c] \in Running => slots'[mi[c]][s] = slots[mi[c]][s]
    BY <1>0, <1>5, <1>k, <2>2, DrainEffect
  <2>4. \A s \in Slots : slots'[Idle][s].key \in scan' \cup {NoKey}
    BY <1>0, <1>5, <1>i, <2>1, DrainEffect, SMTT(30) DEF MapInv, FreeElem
  <2> QED BY <1>k, <2>1, <2>3, <2>4, SMTT(30) DEF MapInv, Running
<1>6. CASE Publish
  BY <1>6 DEF Publish, MapInv, kernelVars, Idle
<1>7. CASE Fail \/ UNCHANGED vars
  BY <1>7 DEF Fail, MapInv, vars, kernelVars, collectorVars, Idle
<1> QED BY <1>1, <1>2, <1>3, <1>4, <1>5, <1>6, <1>7 DEF Next, collector

-----------------------------------------------------------------------------

\* Where a call's bytes are after a step that only moves its program on.
LEMMA CountFrame ==
  ASSUME CountInv, UNCHANGED <<slots, out, delivered, counted>>, dropped \subseteq dropped',
         \A c \in Calls : pc[c] = "addCalls" <=> pc'[c] = "addCalls",
         \A c \in Calls : pc[c] = "addCalls" => mi'[c] = mi[c] /\ ptr'[c] = ptr[c],
         \A c \in Calls : pc'[c] \notin Unadded \cup {"idle"} =>
                         pc[c] \notin Unadded \cup {"idle"} \/ c \in dropped'
  PROVE CountInv'
<1>1. \A c \in Calls : /\ Resident(c)' = Resident(c) /\ Drained(c)' = Drained(c)
                       /\ Delivered(c)' = Delivered(c)
  BY DEF Resident, Drained, Delivered
<1>2. NothingLost'
  BY <1>1 DEF CountInv, NothingLost, Settled
<1>3. BytesMatchCalls' BY <1>1 DEF CountInv, BytesMatchCalls
<1>4. FreeIsEmpty' BY DEF CountInv, FreeIsEmpty
<1>5. CallsLagBytes' BY SMTT(30) DEF CountInv, CallsLagBytes
<1>6. OutAgrees' BY DEF CountInv, OutAgrees
<1> QED BY <1>2, <1>3, <1>4, <1>5, <1>6 DEF CountInv

\* Every step keeps the invariant of the counters.
LEMMA CountStep ==
  ASSUME Grace PROVE TypeInv /\ MapInv /\ CountInv /\ [Next]_vars => CountInv'
<1> SUFFICES ASSUME TypeInv, MapInv, CountInv, [Next]_vars PROVE CountInv' OBVIOUS
<1>0. TypeOK /\ Owned BY DEF TypeInv
<1>k. \A c \in Calls : KeyOf(c) # NoKey /\ mi[c] \in Maps /\ ptr[c] \in Slots
  BY <1>0, KeyFacts DEF TypeOK
<1>i. Idle \in Maps /\ Idle # active BY <1>0, IdleFacts DEF TypeOK
<1>1. CASE UNCHANGED <<slots, out, delivered, counted, pc, mi, ptr, dropped>>
  BY <1>1, CountFrame
<1>2. ASSUME NEW c \in Calls, ReadActive(c) \/ Lookup(c) \/ RecordProc(c) \/ Retry(c)
      PROVE CountInv'
  <2>1. UNCHANGED <<slots, out, delivered, counted>>
    BY <1>2 DEF ReadActive, Lookup, RecordProc, Retry, collectorVars
  <2>2. /\ pc[c] # "addCalls" /\ pc'[c] # "addCalls"
        /\ pc'[c] \notin Unadded \cup {"idle"} => pc[c] = "record" \/ c \in dropped'
        /\ dropped \subseteq dropped'
    BY <1>0, <1>2 DEF ReadActive, Lookup, RecordProc, Retry, Unadded, TypeOK
  <2>3. \A d \in Calls : d # c => pc'[d] = pc[d] /\ mi'[d] = mi[d] /\ ptr'[d] = ptr[d]
    <3>1. \A d \in Calls : d # c => pc'[d] = pc[d] BY <1>0, <1>2, PcStep DEF account
    <3>2. \A d \in Calls : d # c => mi'[d] = mi[d]
      BY <1>0, <1>2 DEF ReadActive, Lookup, RecordProc, Retry, TypeOK
    <3>3. \A d \in Calls : d # c => ptr'[d] = ptr[d]
      BY <1>0, <1>2 DEF ReadActive, Lookup, RecordProc, Retry, TypeOK
    <3> QED BY <3>1, <3>2, <3>3
  <2> QED BY <2>1, <2>2, <2>3, CountFrame DEF Unadded
<1>3. ASSUME NEW c \in Calls, AddBytes(c) PROVE CountInv'
  <2>1. UNCHANGED <<mi, ptr, dropped, out, delivered, counted>>
    BY <1>3 DEF AddBytes, collectorVars
  <2>2. pc[c] = "add" /\ pc'[c] = "addCalls" /\ \A d \in Calls : d # c => pc'[d] = pc[d]
    BY <1>0, <1>3 DEF AddBytes, TypeOK
  <2>3. slots[mi[c]][ptr[c]].key # NoKey BY <1>k, <2>2 DEF MapInv
  <2>4. \A m \in Maps, s \in Slots :
          /\ slots'[m][s].key = slots[m][s].key
          /\ slots'[m][s].calls = slots[m][s].calls
          /\ m = mi[c] /\ s = ptr[c] => slots'[m][s].bytes = slots[m][s].bytes \cup {c}
          /\ m # mi[c] \/ s # ptr[c] => slots'[m][s] = slots[m][s]
    BY <1>0, <1>3, <2>3, AddBytesEffect, SMTT(30)
  <2>5. \A m \in Maps, s \in Slots : slots'[m][s].key = NoKey => slots'[m][s] = slots[m][s]
    BY <1>3, <1>0, AddBytesEffect, SMTT(30)
  <2>6. Resident(c)' BY <1>k, <2>4, SMTT(30) DEF Resident
  <2>7. \A d \in Calls : Resident(d) => Resident(d)' BY <2>4, SMTT(30) DEF Resident
  <2>8. \A d \in Calls : Drained(d)' = Drained(d) /\ Delivered(d)' = Delivered(d)
    BY <2>1 DEF Drained, Delivered
  <2>9. NothingLost' BY <2>1, <2>2, <2>6, <2>7, <2>8 DEF CountInv, NothingLost, Settled
  <2>10. BytesMatchCalls' BY <2>1, <2>8 DEF CountInv, BytesMatchCalls
  <2>11. \A m \in Maps, s \in Slots, d \in Calls :
          d \in slots'[m][s].bytes <=>
            d \in slots'[m][s].calls \/ (pc'[d] = "addCalls" /\ mi[d] = m /\ ptr[d] = s)
    <3> TAKE m \in Maps, s \in Slots, d \in Calls
    <3>1. d \in slots[m][s].bytes <=>
            d \in slots[m][s].calls \/ (pc[d] = "addCalls" /\ mi[d] = m /\ ptr[d] = s)
      BY SMTT(30) DEF CountInv, CallsLagBytes
    <3>2. CASE d = c BY <2>2, <2>4, <3>1, <3>2
    <3>3. CASE d # c BY <2>2, <2>4, <3>1, <3>3, SMTT(30)
    <3> QED BY <3>2, <3>3
  <2>12. \A m \in Maps, s \in Slots : slots'[m][s].key = NoKey => slots'[m][s] = FreeElem
    BY <2>5, SMTT(30) DEF CountInv, FreeIsEmpty
  <2>13. /\ \A e \in out' : e.bytes = e.calls
         /\ mi' = mi /\ ptr' = ptr
    BY <2>1 DEF CountInv, OutAgrees
  <2>14. FreeIsEmpty' BY <2>12 DEF FreeIsEmpty
  <2>15. CallsLagBytes' BY <2>11, <2>13 DEF CallsLagBytes
  <2>16. OutAgrees' BY <2>13 DEF OutAgrees
  <2> QED BY <2>9, <2>10, <2>14, <2>15, <2>16 DEF CountInv
<1>4. ASSUME NEW c \in Calls, AddCalls(c) PROVE CountInv'
  <2>1. UNCHANGED <<mi, ptr, dropped, out, delivered, counted>>
    BY <1>4 DEF AddCalls, collectorVars
  <2>2. pc[c] = "addCalls" /\ pc'[c] = "done" /\ \A d \in Calls : d # c => pc'[d] = pc[d]
    BY <1>0, <1>4 DEF AddCalls, TypeOK
  <2>3. slots[mi[c]][ptr[c]].key # NoKey BY <1>k, <2>2 DEF MapInv
  <2>4. \A m \in Maps, s \in Slots :
          /\ slots'[m][s].key = slots[m][s].key
          /\ slots'[m][s].bytes = slots[m][s].bytes
          /\ m = mi[c] /\ s = ptr[c] => slots'[m][s].calls = slots[m][s].calls \cup {c}
          /\ m # mi[c] \/ s # ptr[c] => slots'[m][s] = slots[m][s]
    BY <1>0, <1>4, <2>3, AddCallsEffect, SMTT(30)
  <2>5. \A m \in Maps, s \in Slots : slots'[m][s].key = NoKey => slots'[m][s] = slots[m][s]
    BY <1>4, <1>0, AddCallsEffect, SMTT(30)
  <2>6. \A d \in Calls : Resident(d)' <=> Resident(d) BY <2>4 DEF Resident
  <2>7. \A d \in Calls : Drained(d)' = Drained(d) /\ Delivered(d)' = Delivered(d)
    BY <2>1 DEF Drained, Delivered
  <2>8. NothingLost' BY <2>1, <2>2, <2>6, <2>7 DEF CountInv, NothingLost, Settled, Unadded
  <2>9. BytesMatchCalls' BY <2>1, <2>7 DEF CountInv, BytesMatchCalls
  <2>10. \A m \in Maps, s \in Slots, d \in Calls :
          d \in slots'[m][s].bytes <=>
            d \in slots'[m][s].calls \/ (pc'[d] = "addCalls" /\ mi[d] = m /\ ptr[d] = s)
    <3> TAKE m \in Maps, s \in Slots, d \in Calls
    <3>1. d \in slots[m][s].bytes <=>
            d \in slots[m][s].calls \/ (pc[d] = "addCalls" /\ mi[d] = m /\ ptr[d] = s)
      BY SMTT(30) DEF CountInv, CallsLagBytes
    <3>2. CASE d = c BY <2>2, <2>4, <3>1, <3>2
    <3>3. CASE d # c BY <2>2, <2>4, <3>1, <3>3, SMTT(30)
    <3> QED BY <3>2, <3>3
  <2>11. FreeIsEmpty' BY <2>4, <2>5, SMTT(30) DEF CountInv, FreeIsEmpty
  <2>12. CallsLagBytes' BY <2>1, <2>10 DEF CallsLagBytes
  <2>13. OutAgrees' BY <2>1 DEF CountInv, OutAgrees
  <2> QED BY <2>8, <2>9, <2>11, <2>12, <2>13 DEF CountInv
<1>5. ASSUME NEW c \in Calls, Insert(c) PROVE CountInv'
  <2>1. UNCHANGED <<mi, ptr, dropped, out, delivered, counted>>
    BY <1>5 DEF Insert, collectorVars
  <2>2. pc[c] = "insert" /\ \A d \in Calls : d # c => pc'[d] = pc[d]
    BY <1>0, <1>5, PcStep DEF Insert, account
  <2>3. CASE slots' = slots /\ pc' = [pc EXCEPT ![c] = "retry"]
    <3>1. pc'[c] = "retry" BY <1>0, <2>3 DEF TypeOK
    <3> QED BY <2>1, <2>2, <2>3, <3>1, CountFrame DEF Unadded
  <2>4. ASSUME NEW s \in Slots, pc' = [pc EXCEPT ![c] = "record"],
               slots[mi[c]][s].key = NoKey, slots'[mi[c]][s] = NewElem(c),
               \A n \in Maps, t \in Slots : n # mi[c] \/ t # s => slots'[n][t] = slots[n][t]
        PROVE CountInv'
    <3>1. pc'[c] = "record" BY <1>0, <2>4 DEF TypeOK
    <3>2. /\ slots'[mi[c]][s].key # NoKey
          /\ slots'[mi[c]][s].bytes = {c} /\ slots'[mi[c]][s].calls = {c}
      BY <1>k, <2>4, NewElemFacts, SMTT(30)
    <3>3. slots[mi[c]][s].bytes = {} BY <1>k, <2>4, SMTT(30) DEF CountInv, FreeIsEmpty, FreeElem
    <3>4. \A d \in Calls : pc[d] = "addCalls" => mi[d] # mi[c] \/ ptr[d] # s
      BY <1>k, <2>4, SMTT(30) DEF MapInv
    <3>5. \A m \in Maps, t \in Slots : slots'[m][t].key = NoKey => slots'[m][t] = FreeElem
      BY <2>4, <3>2, SMTT(30) DEF CountInv, FreeIsEmpty
    <3>6. \A m \in Maps, t \in Slots, d \in Calls :
            d \in slots'[m][t].bytes <=>
              d \in slots'[m][t].calls \/ (pc'[d] = "addCalls" /\ mi[d] = m /\ ptr[d] = t)
      BY <2>2, <2>4, <3>1, <3>2, <3>4, SMTT(30) DEF CountInv, CallsLagBytes
    <3>7. Resident(c)' BY <1>k, <3>2 DEF Resident
    <3>8. \A d \in Calls : Resident(d) => Resident(d)' BY <2>4, <3>3 DEF Resident
    <3>9. \A d \in Calls : Drained(d)' = Drained(d) /\ Delivered(d)' = Delivered(d)
      BY <2>1 DEF Drained, Delivered
    <3>10. NothingLost' BY <2>1, <2>2, <3>7, <3>8, <3>9 DEF CountInv, NothingLost, Settled
    <3>11. BytesMatchCalls' BY <2>1, <3>9 DEF CountInv, BytesMatchCalls
    <3>12. FreeIsEmpty' BY <3>5 DEF FreeIsEmpty
    <3>13. CallsLagBytes' BY <2>1, <3>6 DEF CallsLagBytes
    <3>14. OutAgrees' BY <2>1 DEF CountInv, OutAgrees
    <3> QED BY <3>10, <3>11, <3>12, <3>13, <3>14 DEF CountInv
  <2> QED BY <1>0, <1>5, <2>3, <2>4, InsertEffect
<1>6. ASSUME NEW k \in Keys, DrainBucket(k) PROVE CountInv'
  <2>1. UNCHANGED <<pc, mi, ptr, dropped, delivered, counted>> /\ cpc = "drain"
    BY <1>6 DEF DrainBucket
  <2>2. \A c \in Calls : pc[c] = "addCalls" => mi[c] # Idle
    BY <1>i, <2>1 DEF MapInv, Running
  <2>3. \A m \in Maps, s \in Slots :
          slots'[m][s] = IF m = Idle /\ slots[m][s].key = k THEN FreeElem ELSE slots[m][s]
    BY <1>0, <1>6, DrainEffect
  <2>4. /\ out' = out \cup {slots[Idle][s] : s \in Found(Idle, k)}
        /\ \A s \in Slots : slots[Idle][s].key = k => slots[Idle][s] \in out'
    BY <1>0, <1>6, DrainEffect, SMTT(30) DEF Found
  <2>5. FreeElem.key = NoKey /\ FreeElem.bytes = {} /\ FreeElem.calls = {} BY DEF FreeElem
  <2>6. \A m \in Maps, s \in Slots : slots'[m][s].key = NoKey => slots'[m][s] = FreeElem
    BY <2>3, SMTT(30) DEF CountInv, FreeIsEmpty
  <2>7. \A m \in Maps, s \in Slots, c \in Calls :
          c \in slots'[m][s].bytes <=>
            c \in slots'[m][s].calls \/ (pc[c] = "addCalls" /\ mi[c] = m /\ ptr[c] = s)
    BY <2>2, <2>3, <2>5, SMTT(30) DEF CountInv, CallsLagBytes
  <2>8. \A s \in Slots : slots[Idle][s].bytes = slots[Idle][s].calls
    <3>1. \A s \in Slots : slots[Idle][s].bytes \subseteq Calls /\ slots[Idle][s].calls \subseteq Calls
      BY <1>0, <1>i, SMTT(30) DEF TypeOK, Elem
    <3>2. \A s \in Slots, c \in Calls : c \in slots[Idle][s].bytes <=> c \in slots[Idle][s].calls
      BY <1>i, <2>2, SMTT(30) DEF CountInv, CallsLagBytes
    <3> QED BY <3>1, <3>2
  <2>9. \A e \in out' : e.bytes = e.calls BY <2>4, <2>8, SMTT(30) DEF CountInv, OutAgrees, Found
  <2>10. \A c \in Calls : Resident(c) => Resident(c)' \/ Drained(c)'
    BY <2>3, <2>4, SMTT(30) DEF Resident, Drained
  <2>11. \A c \in Calls : Drained(c) => Drained(c)' BY <2>4 DEF Drained
  <2>12. \A c \in Calls : Delivered(c)' = Delivered(c) BY <2>1 DEF Delivered
  <2>13. NothingLost' BY <2>1, <2>10, <2>11, <2>12, SMTT(30) DEF CountInv, NothingLost, Settled
  <2>14. BytesMatchCalls' BY <2>1, <2>12 DEF CountInv, BytesMatchCalls
  <2>15. FreeIsEmpty' BY <2>6 DEF FreeIsEmpty
  <2>16. CallsLagBytes' BY <2>1, <2>7 DEF CallsLagBytes
  <2>17. OutAgrees' BY <2>9 DEF OutAgrees
  <2> QED BY <2>13, <2>14, <2>15, <2>16, <2>17 DEF CountInv
<1>7. CASE Publish
  <2>1. UNCHANGED <<slots, pc, mi, ptr, dropped>> /\ out' = {} BY <1>7 DEF Publish, kernelVars
  <2>2. \A c \in Calls : Delivered(c)' <=> Delivered(c) \/ Drained(c)
    <3>1. \A c \in Calls, i \in Insts : <<c, i>> \in delivered' <=>
            <<c, i>> \in delivered \/ \E e \in out : c \in e.bytes /\ i = e.owner
      BY <1>7, SMTT(30) DEF Publish
    <3>2. \A e \in out : e.owner \in Insts BY <1>0 DEF Owned
    <3> QED BY <3>1, <3>2 DEF Delivered, Drained
  <2>3. \A c \in Calls : c \in counted' <=> c \in counted \/ Drained(c)
    BY <1>7, SMTT(30) DEF Publish, CountInv, OutAgrees, Drained
  <2>4. \A c \in Calls : Resident(c)' = Resident(c) BY <2>1 DEF Resident
  <2>5. NothingLost' BY <2>1, <2>2, <2>4 DEF CountInv, NothingLost, Settled
  <2>6. BytesMatchCalls' BY <2>2, <2>3 DEF CountInv, BytesMatchCalls
  <2>7. FreeIsEmpty' BY <2>1 DEF CountInv, FreeIsEmpty
  <2>8. CallsLagBytes' BY <2>1 DEF CountInv, CallsLagBytes
  <2>9. OutAgrees' BY <2>1 DEF OutAgrees
  <2> QED BY <2>5, <2>6, <2>7, <2>8, <2>9 DEF CountInv
<1> QED
  <2>1. ASSUME NEW i \in Insts, Born(i) \/ Gone(i) \/ sched_process_exit(i)
        PROVE UNCHANGED <<slots, out, delivered, counted, pc, mi, ptr, dropped>>
    BY <2>1 DEF Born, Gone, sched_process_exit, ReadProc, ReportExit, kernelVars, collectorVars
  <2>2. ASSUME (\E signal \in BOOLEAN : Flip(signal)) \/ StartDrain \/ Fail \/ UNCHANGED vars
        PROVE UNCHANGED <<slots, out, delivered, counted, pc, mi, ptr, dropped>>
    BY <2>2 DEF Flip, StartDrain, Fail, vars, kernelVars, collectorVars
  <2> QED BY <1>1, <1>2, <1>3, <1>4, <1>5, <1>6, <1>7, <2>1, <2>2 DEF Next, collector, account

-----------------------------------------------------------------------------

\* Every step keeps the owners of the elements.
LEMMA OwnerStep ==
  ASSUME Grace PROVE TypeInv /\ MapInv /\ OwnerInv /\ [Next]_vars => OwnerInv'
<1> SUFFICES ASSUME TypeInv, MapInv, OwnerInv, [Next]_vars PROVE OwnerInv' OBVIOUS
<1>0. TypeOK /\ Owned BY DEF TypeInv
<1>k. \A c \in Calls : /\ KeyOf(c) # NoKey /\ KeyOf(c)[1] = PidOf[InstOf[c]]
                       /\ mi[c] \in Maps /\ ptr[c] \in Slots
  BY <1>0, KeyFacts DEF TypeOK, KeyOf
<1>1. CASE UNCHANGED <<slots, out, delivered>> BY <1>1 DEF OwnerInv, OwnElem
<1>2. ASSUME NEW c \in Calls, AddBytes(c) \/ AddCalls(c) PROVE OwnerInv'
  <2>1. UNCHANGED <<out, delivered>> BY <1>2 DEF AddBytes, AddCalls, collectorVars
  <2>2. slots[mi[c]][ptr[c]].key = KeyOf(c)
    BY <1>2 DEF MapInv, AddBytes, AddCalls
  <2>3. \A m \in Maps, s \in Slots :
          /\ slots'[m][s].key = slots[m][s].key /\ slots'[m][s].owner = slots[m][s].owner
          /\ \A d \in slots'[m][s].bytes : d \in slots[m][s].bytes \/ (d = c /\ m = mi[c] /\ s = ptr[c])
    <3>1. CASE AddBytes(c) BY <1>0, <1>k, <2>2, <3>1, AddBytesEffect, SMTT(30)
    <3>2. CASE AddCalls(c) BY <1>0, <1>k, <3>2, AddCallsEffect
    <3> QED BY <1>2, <3>1, <3>2
  <2>4. ASSUME NEW m \in Maps, NEW s \in Slots PROVE OwnElem(slots[m][s])'
    <3>1. OwnElem(slots[m][s]) BY DEF OwnerInv
    <3>2. /\ slots'[m][s].key = slots[m][s].key /\ slots'[m][s].owner = slots[m][s].owner
          /\ \A d \in slots'[m][s].bytes :
               d \in slots[m][s].bytes \/ KeyOf(d) = slots[m][s].key
      BY <2>2, <2>3
    <3> QED BY <3>1, <3>2 DEF OwnElem
  <2> QED BY <2>1, <2>4 DEF OwnerInv
<1>3. ASSUME NEW c \in Calls, Insert(c) PROVE OwnerInv'
  <2>1. UNCHANGED <<out, delivered>> BY <1>3 DEF Insert, collectorVars
  <2>2. ASSUME NEW s \in Slots, slots'[mi[c]][s] = NewElem(c),
               \A n \in Maps, t \in Slots : n # mi[c] \/ t # s => slots'[n][t] = slots[n][t]
        PROVE OwnerInv'
    <3>1. /\ slots'[mi[c]][s].key = KeyOf(c) /\ slots'[mi[c]][s].owner = InstOf[c]
          /\ slots'[mi[c]][s].bytes = {c}
      BY <2>2, NewElemFacts
    <3>2. OwnElem(slots[mi[c]][s])' BY <1>k, <1>3, <3>1 DEF OwnElem, Insert
    <3>3. ASSUME NEW n \in Maps, NEW t \in Slots, n # mi[c] \/ t # s
          PROVE OwnElem(slots[n][t])'
      <4>1. OwnElem(slots[n][t]) BY DEF OwnerInv
      <4> QED BY <2>2, <3>3, <4>1 DEF OwnElem
    <3>4. mi' = mi BY <1>3 DEF Insert
    <3> QED BY <2>1, <3>2, <3>3, <3>4 DEF OwnerInv
  <2> QED BY <1>0, <1>1, <1>3, <2>1, <2>2, InsertEffect
<1>4. ASSUME NEW k \in Keys, DrainBucket(k) PROVE OwnerInv'
  <2>1. delivered' = delivered BY <1>4 DEF DrainBucket
  <2>2. Idle \in Maps /\ k # NoKey BY <1>0, IdleFacts, ConstantsAssumption DEF TypeOK
  <2>3. \A m \in Maps, s \in Slots :
          slots'[m][s] = IF m = Idle /\ slots[m][s].key = k THEN FreeElem ELSE slots[m][s]
    BY <1>0, <1>4, DrainEffect
  <2>4. \A e \in out' : e \in out \/ \E s \in Slots : slots[Idle][s].key = k /\ e = slots[Idle][s]
    BY <1>0, <1>4, DrainEffect, SMTT(30) DEF Found
  <2>5. ASSUME NEW m \in Maps, NEW s \in Slots PROVE OwnElem(slots[m][s])'
    <3>1. OwnElem(slots[m][s]) BY DEF OwnerInv
    <3>2. slots'[m][s] = slots[m][s] \/ slots'[m][s].key = NoKey BY <2>3, SMTT(30) DEF FreeElem
    <3> QED BY <3>1, <3>2 DEF OwnElem
  <2>6. ASSUME NEW e \in out', NEW c \in e.bytes PROVE PidOf[e.owner] = PidOf[InstOf[c]]
    <3>1. CASE e \in out BY <3>1 DEF OwnerInv
    <3>2. CASE e \notin out
      <4>1. PICK s \in Slots : slots[Idle][s].key = k /\ e = slots[Idle][s] BY <2>4, <3>2
      <4>2. c \in Calls
        <5>1. slots[Idle][s] \in Elem BY <1>0, <2>2, SMTT(30) DEF TypeOK
        <5> QED BY <2>6, <4>1, <5>1 DEF Elem
      <4>3. OwnElem(e) BY <2>2, <4>1 DEF OwnerInv
      <4>4. PidOf[e.owner] = k[1] /\ KeyOf(c) = k BY <2>2, <4>1, <4>3 DEF OwnElem
      <4> QED BY <1>k, <4>2, <4>4
    <3> QED BY <3>1, <3>2
  <2> QED BY <2>1, <2>5, <2>6 DEF OwnerInv
<1>5. CASE Publish
  <2>1. slots' = slots /\ out' = {} BY <1>5 DEF Publish, kernelVars
  <2>2. \A d \in delivered' : d \in delivered \/ \E e \in out : \E c \in e.bytes : d = <<c, e.owner>>
    BY <1>5 DEF Publish
  <2> QED BY <2>1, <2>2, SMTT(30) DEF OwnerInv
<1> QED
  <2>1. ASSUME NEW i \in Insts, Born(i) \/ Gone(i) \/ sched_process_exit(i)
        PROVE UNCHANGED <<slots, out, delivered>>
    BY <2>1 DEF Born, Gone, sched_process_exit, ReadProc, ReportExit, kernelVars, collectorVars
  <2>2. ASSUME NEW c \in Calls, ReadActive(c) \/ Lookup(c) \/ RecordProc(c) \/ Retry(c)
        PROVE UNCHANGED <<slots, out, delivered>>
    BY <2>2 DEF ReadActive, Lookup, RecordProc, Retry, collectorVars
  <2>3. ASSUME (\E signal \in BOOLEAN : Flip(signal)) \/ StartDrain \/ Fail \/ UNCHANGED vars
        PROVE UNCHANGED <<slots, out, delivered>>
    BY <2>3 DEF Flip, StartDrain, Fail, vars, kernelVars, collectorVars
  <2> QED BY <1>1, <1>2, <1>3, <1>4, <1>5, <2>1, <2>2, <2>3 DEF Next, collector, account

-----------------------------------------------------------------------------

GraceInv == TypeInv /\ NoDoubleCount /\ MapInv /\ CountInv /\ OwnerInv

\* With the grace period the whole invariant holds throughout.
LEMMA GraceInvariant == ASSUME Grace PROVE Spec => []GraceInv
<1>1. Init => NoDoubleCount BY OnceInit
<1>2. Init => MapInv
  <2> SUFFICES ASSUME Init PROVE MapInv OBVIOUS
  <2>1. Idle \in Maps BY IdleFacts DEF Init, Maps
  <2> QED BY <2>1 DEF Init, MapInv, Running, FreeElem
<1>3. Init => CountInv
  <2> SUFFICES ASSUME Init PROVE CountInv OBVIOUS
  <2>1. NothingLost BY DEF Init, NothingLost
  <2>2. BytesMatchCalls BY DEF Init, BytesMatchCalls, Delivered
  <2>3. \A m \in Maps, s \in Slots :
          slots[m][s] = FreeElem /\ slots[m][s].bytes = {} /\ slots[m][s].calls = {}
    BY DEF Init, FreeElem
  <2>4. out = {} /\ \A c \in Calls : pc[c] = "idle" BY DEF Init
  <2> QED BY <2>1, <2>2, <2>3, <2>4 DEF CountInv, FreeIsEmpty, CallsLagBytes, OutAgrees
<1>4. Init => OwnerInv BY SMTT(30) DEF Init, OwnerInv, OwnElem, FreeElem
<1>5. Init => GraceInv BY <1>1, <1>2, <1>3, <1>4, TypeInit DEF GraceInv
<1>6. GraceInv /\ [Next]_vars => GraceInv'
  BY TypeStep, OnceStep, MapStep, CountStep, OwnerStep DEF GraceInv
<1> QED BY <1>5, <1>6, PTL DEF Spec

\* If the grace period holds, the double buffering loses nothing: every call
\* account() ran for is in a program, a map, the drained vector or a tick, or
\* counted in DROPS.
THEOREM Conservation == ASSUME Grace PROVE Spec => []NothingLost
<1>1. GraceInv => NothingLost BY DEF GraceInv, CountInv
<1> QED BY <1>1, GraceInvariant, PTL

\* If the grace period holds, a tick publishes bytes and calls together
\* although add() updates them one after the other.
THEOREM CountersAgree == ASSUME Grace PROVE Spec => []BytesMatchCalls
<1>1. GraceInv => BytesMatchCalls BY DEF GraceInv, CountInv
<1> QED BY <1>1, GraceInvariant, PTL

\* If the grace period holds, flip() always hands the programs an empty map.
THEOREM FlipIsClean == ASSUME Grace PROVE Spec => []IdleMapEmpty
<1>1. GraceInv => IdleMapEmpty BY DEF GraceInv, MapInv, IdleMapEmpty
<1> QED BY <1>1, GraceInvariant, PTL

\* If the grace period holds, DROPS counts only calls that met a full map.
THEOREM DropsAreFull == ASSUME Grace PROVE Spec => DropsOnlyWhenFull
<1>1. GraceInv /\ [Next]_vars =>
        [\A c \in Calls : c \in dropped' \ dropped =>
           FreeSlots(mi[c]) = {} /\ Found(mi[c], KeyOf(c)) = {}]_vars
  <2> SUFFICES ASSUME GraceInv, Next, NEW c \in Calls, c \in dropped', c \notin dropped
               PROVE FreeSlots(mi[c]) = {} /\ Found(mi[c], KeyOf(c)) = {}
    OBVIOUS
  <2>1. Retry(c) /\ Found(mi[c], KeyOf(c)) = {}
    BY DEF Next, account, collector, Born, Gone, sched_process_exit, ReadProc, ReportExit,
           ReadActive, Lookup, AddBytes, AddCalls, Insert, RecordProc, Retry,
           Flip, StartDrain, DrainBucket, Publish, Fail, kernelVars
  <2> QED BY <2>1 DEF GraceInv, MapInv, Retry, FreeSlots, Found
<1> QED BY <1>1, GraceInvariant, PTL DEF Spec, DropsOnlyWhenFull

\* No PID is reused among the instances considered.
DistinctPids == \A i, j \in Insts : PidOf[i] = PidOf[j] => i = j

\* If the grace period holds and no PID is reused, every byte is credited to
\* the process that moved it.
THEOREM Attribution == ASSUME Grace, DistinctPids PROVE Spec => []NeverMerged
<1>1. GraceInv => NeverMerged
  <2> SUFFICES ASSUME GraceInv, NEW d \in delivered PROVE d[2] = InstOf[d[1]]
    BY DEF NeverMerged
  <2>1. d \in Calls \X Insts BY DEF GraceInv, TypeInv, TypeOK
  <2>2. PidOf[d[2]] = PidOf[InstOf[d[1]]] BY DEF GraceInv, OwnerInv
  <2> QED BY <2>1, <2>2, ConstantsAssumption DEF DistinctPids
<1> QED BY <1>1, GraceInvariant, PTL

\* If the grace period holds and no PID is reused, the flow maps and the
\* collector's cycle implement the abstract accounting: each call is settled
\* exactly once, by a tick that credits its own process or by a counted drop.
THEOREM Refinement == ASSUME Grace, DistinctPids PROVE Spec => AccountingSpec
<1> DEFINE pending == {c \in Calls : pc[c] # "idle" /\ ~Settled(c)}
<1>1. Init => Abstract!Init
  BY DEF Init, Abstract!Init, Settled, Delivered
<1>2. GraceInv /\ NeverMerged' /\ [Next]_vars => [Abstract!Next]_(Abstract!vars)
  <2> SUFFICES ASSUME GraceInv, NeverMerged', [Next]_vars
               PROVE Abstract!Next \/ UNCHANGED <<pending, dropped, delivered>>
    BY DEF Abstract!vars
  <2>0. TypeOK /\ Owned /\ NoDoubleCount BY DEF GraceInv, TypeInv
  <2>1. ASSUME UNCHANGED <<dropped, delivered>>,
               \A c \in Calls : pc'[c] = "idle" <=> pc[c] = "idle"
        PROVE UNCHANGED <<pending, dropped, delivered>>
    BY <2>1 DEF Settled, Delivered
  <2>2. ASSUME NEW c \in Calls, account(c)
        PROVE Abstract!Next \/ UNCHANGED <<pending, dropped, delivered>>
    <3>1. /\ \A d \in Calls : d # c => pc'[d] = pc[d]
          /\ pc[c] = "idle" => ReadActive(c) /\ pc'[c] = "lookup"
          /\ delivered' = delivered
      BY <2>0, <2>2, PcStep DEF account, ReadActive, Lookup, AddBytes, AddCalls, Insert, RecordProc, Retry, collectorVars
    <3>2. CASE pc[c] = "idle"
      <4>1. dropped' = dropped BY <3>1, <3>2 DEF ReadActive
      <4>2. ~Settled(c) BY <2>0, <3>2 DEF NoDoubleCount
      <4>3. \A d \in Calls : Settled(d)' = Settled(d) BY <3>1, <4>1 DEF Settled, Delivered
      <4>4. pending' = pending \cup {c} BY <3>1, <3>2, <4>2, <4>3
      <4>5. c \notin pending /\ c \notin dropped /\ ~\E i \in Insts : <<c, i>> \in delivered
        BY <3>2, <4>2 DEF Settled, Delivered
      <4> QED BY <3>1, <4>1, <4>4, <4>5 DEF Abstract!Next, Abstract!Happen, Abstract!Seen
    <3>3. CASE pc[c] # "idle" /\ dropped' = dropped
      <4>1. pc'[c] # "idle"
        BY <2>0, <2>2, <3>3 DEF account, ReadActive, Lookup, AddBytes, AddCalls, Insert, RecordProc, Retry, TypeOK
      <4> QED BY <2>1, <3>1, <3>3, <4>1
    <3>4. CASE dropped' # dropped
      <4>1. Retry(c) /\ dropped' = dropped \cup {c} /\ pc'[c] = "done"
        BY <2>0, <2>2, <3>4 DEF account, ReadActive, Lookup, AddBytes, AddCalls, Insert, RecordProc, Retry, TypeOK
      <4>2. pc[c] = "retry" /\ ~Settled(c)
        BY <2>0, <4>1 DEF NoDoubleCount, Retry, Unadded
      <4>3. \A d \in Calls : d # c => Settled(d)' = Settled(d)
        BY <3>1, <4>1 DEF Settled, Delivered
      <4>4. Settled(c)' BY <4>1 DEF Settled
      <4>5. pending' = pending \ {c} /\ c \in pending BY <3>1, <4>2, <4>3, <4>4
      <4> QED BY <3>1, <4>1, <4>5 DEF Abstract!Next, Abstract!Drop
    <3> QED BY <3>2, <3>3, <3>4
  <2>3. CASE Publish
    <3> DEFINE S == {c \in Calls : Drained(c)}
    <3>1. UNCHANGED <<pc, dropped>> BY <2>3 DEF Publish, kernelVars
    <3>2. \A c \in Calls, i \in Insts : <<c, i>> \in delivered' <=>
            <<c, i>> \in delivered \/ \E e \in out : c \in e.bytes /\ i = e.owner
      BY <2>3, SMTT(30) DEF Publish
    <3>3. \A e \in out : e.owner \in Insts /\ e.bytes \subseteq Calls
      BY <2>0 DEF Owned, TypeOK, Elem
    <3>4. \A c \in Calls : Settled(c)' <=> Settled(c) \/ Drained(c)
      BY <3>1, <3>2, <3>3 DEF Settled, Delivered, Drained
    <3>5. \A c \in S : pc[c] # "idle" /\ ~Settled(c) BY <2>0 DEF NoDoubleCount
    <3>6. S \subseteq pending /\ pending' = pending \ S BY <3>1, <3>4, <3>5
    <3>7. delivered' = delivered \cup {<<c, InstOf[c]>> : c \in S}
      <4>1. \A e \in out : \A c \in e.bytes : e.owner = InstOf[c]
        <5> TAKE e \in out
        <5> TAKE c \in e.bytes
        <5>1. <<c, e.owner>> \in delivered' BY <3>2, <3>3
        <5> QED BY <5>1 DEF NeverMerged
      <4>2. delivered' = delivered \cup UNION {{<<c, e.owner>> : c \in e.bytes} : e \in out}
        BY <2>3 DEF Publish
      <4>3. \A x : x \in UNION {{<<c, e.owner>> : c \in e.bytes} : e \in out}
                  <=> x \in {<<c, InstOf[c]>> : c \in S}
        BY <3>3, <4>1, SMTT(30) DEF Drained
      <4> QED BY <4>2, <4>3
    <3> HIDE DEF S, pending
    <3>8. Abstract!Tick BY <3>1, <3>6, <3>7 DEF Abstract!Tick, pending
    <3> QED BY <3>8 DEF Abstract!Next
  <2>4. ASSUME NEW i \in Insts, Born(i) \/ Gone(i) \/ sched_process_exit(i)
        PROVE UNCHANGED <<pc, dropped, delivered>>
    BY <2>4 DEF Born, Gone, sched_process_exit, ReadProc, ReportExit, kernelVars, collectorVars
  <2>5. ASSUME (\E signal \in BOOLEAN : Flip(signal)) \/ StartDrain \/ Fail \/ UNCHANGED vars
               \/ \E k \in Keys : DrainBucket(k)
        PROVE UNCHANGED <<pc, dropped, delivered>>
    BY <2>5 DEF Flip, StartDrain, Fail, DrainBucket, vars, kernelVars, collectorVars
  <2> QED BY <2>1, <2>2, <2>3, <2>4, <2>5 DEF Next, collector
<1>3. Spec => []NeverMerged BY Attribution
<1> QED BY <1>1, <1>2, <1>3, GraceInvariant, PTL DEF Spec, AccountingSpec, Abstract!Spec
=============================================================================
