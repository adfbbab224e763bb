------------------------ MODULE ClickHouseSinkProofs ------------------------
(* Proofs about ClickHouseSink, for every finite set of processes, every    *)
(* number of ticks, every buffer limit and every length of the channel.     *)
EXTENDS ClickHouseSink, SequenceTheorems, FiniteSetTheorems, TLAPS

\* The provers of a leaf that names none, in the order they are tried.
USE ZenonT(90), SMTT(30)

-----------------------------------------------------------------------------
(* The inductive invariant.                                                 *)

TickSet == [id : 0..MaxTicks, flow : BOOLEAN, procs : SUBSET Procs]

TypeInv ==
  /\ TypeOK
  /\ chan \in Seq(TickSet)
  /\ \A k \in DOMAIN chan : chan[k].id = 0 => ~chan[k].flow /\ chan[k].procs = {}
  /\ flows \in Seq(Ticks)
  /\ procs \in Seq(Procs \X Ticks)

\* Ticks are received in the order of their numbers.
OrderInv ==
  /\ \A k \in DOMAIN chan : chan[k].id # 0 =>
       /\ chan[k].id <= published
       /\ \A n \in received : n < chan[k].id
       /\ \A p \in Procs : latest[p] < chan[k].id
       /\ \A j \in DOMAIN chan : j < k => chan[j].id < chan[k].id
  /\ \A n \in received : n <= published
  /\ \A p \in Procs : latest[p] <= published

\* The flow rows in a buffer fs are among rec, oldest first.
BufferOK(fs, rec) ==
  /\ fs \in Seq(Ticks)
  /\ Rows(fs) \subseteq rec
  /\ \A j, k \in DOMAIN fs : j < k => fs[j] < fs[k]

\* Every row of rec is somewhere.
FlowsOK(table, fs, rec, disc) ==
  /\ table \in [Ticks -> 0..2] /\ rec \subseteq Ticks /\ disc \subseteq Ticks
  /\ \A n \in rec : table[n] > 0 \/ n \in Rows(fs) \/ n \in disc

\* The last state of a process is stored or buffered, and no row is newer.
ProcsOK(table, ps, lat, out) ==
  /\ table \subseteq Procs \X Ticks /\ ps \in Seq(Procs \X Ticks)
  /\ lat \in [Procs -> 0..MaxTicks] /\ out \subseteq Procs
  /\ \A p \in Procs \ out : lat[p] # 0 => <<p, lat[p]>> \in table \cup Rows(ps)
  /\ \A r \in table \cup Rows(ps) : r[2] <= lat[r[1]]

RowsInv ==
  /\ BufferOK(flows, received)
  /\ FlowsOK(flowsTable, flows, received, discarded)
  /\ ProcsOK(procsTable, procs, latest, outdated)

Inv == TypeInv /\ OrderInv /\ RowsInv

-----------------------------------------------------------------------------
(* Sequences of rows.                                                       *)

\* The rows of a buffer are its elements.
LEMMA RowsFacts ==
  ASSUME NEW S, NEW s \in Seq(S)
  PROVE /\ Rows(s) \subseteq S
        /\ DOMAIN s = 1..Len(s) /\ Len(s) \in Nat
        /\ \A x : x \in Rows(s) <=> \E k \in 1..Len(s) : x = s[k]
BY SMTT(30) DEF Rows

\* An empty buffer has no rows.
LEMMA EmptyRows == Rows(<< >>) = {}
BY SMTT(30) DEF Rows

\* Appending to a buffer adds one row.
LEMMA AppendRows ==
  ASSUME NEW S, NEW s \in Seq(S), NEW e \in S
  PROVE Append(s, e) \in Seq(S) /\ Rows(Append(s, e)) = Rows(s) \cup {e}
<1> DEFINE a == Append(s, e)
<1>1. /\ a \in Seq(S) /\ Len(a) = Len(s) + 1 /\ Len(s) \in Nat
      /\ \A i \in 1..Len(s) : a[i] = s[i]
      /\ a[Len(s) + 1] = e
  BY AppendProperties, SMTT(30)
<1> HIDE DEF a
<1>2. ASSUME NEW x \in Rows(a) PROVE x \in Rows(s) \cup {e}
  <2>1. PICK k \in 1..Len(a) : x = a[k] BY <1>1, <1>2, RowsFacts, SMTT(30)
  <2>2. CASE k \in 1..Len(s) BY <1>1, <2>1, <2>2, RowsFacts
  <2>3. CASE k = Len(s) + 1 BY <1>1, <2>1, <2>3
  <2> QED BY <1>1, <2>2, <2>3, SMTT(30)
<1>3. Rows(s) \subseteq Rows(a)
  <2> SUFFICES ASSUME NEW k \in 1..Len(s) PROVE s[k] \in Rows(a) BY RowsFacts, SMTT(30)
  <2>1. k \in 1..Len(a) /\ a[k] = s[k] BY <1>1, SMTT(30)
  <2> QED BY <1>1, <2>1, RowsFacts
<1>4. e \in Rows(a)
  <2>1. Len(s) + 1 \in 1..Len(a) BY <1>1, SMTT(30)
  <2> QED BY <1>1, <2>1, RowsFacts
<1> QED BY <1>1, <1>2, <1>3, <1>4 DEF a

\* Concatenating buffers unites their rows.
LEMMA ConcatRows ==
  ASSUME NEW S, NEW s \in Seq(S), NEW t \in Seq(S)
  PROVE s \o t \in Seq(S) /\ Rows(s \o t) = Rows(s) \cup Rows(t)
<1> DEFINE c == s \o t
<1>1. /\ c \in Seq(S) /\ Len(c) = Len(s) + Len(t) /\ Len(s) \in Nat /\ Len(t) \in Nat
      /\ \A i \in 1..Len(s) + Len(t) : c[i] = IF i <= Len(s) THEN s[i] ELSE t[i - Len(s)]
  BY ConcatProperties, SMTT(30)
<1> HIDE DEF c
<1>2. ASSUME NEW x \in Rows(c) PROVE x \in Rows(s) \cup Rows(t)
  <2>1. PICK k \in 1..Len(c) : x = c[k] BY <1>1, <1>2, RowsFacts
  <2>2. CASE k <= Len(s)
    <3>1. k \in 1..Len(s) /\ x = s[k] BY <1>1, <2>1, <2>2, SMTT(30)
    <3> QED BY <3>1, RowsFacts
  <2>3. CASE k > Len(s)
    <3>1. k - Len(s) \in 1..Len(t) /\ x = t[k - Len(s)] BY <1>1, <2>1, <2>3, SMTT(30)
    <3> QED BY <3>1, RowsFacts
  <2> QED BY <1>1, <2>2, <2>3, SMTT(30)
<1>3. Rows(s) \subseteq Rows(c)
  <2> SUFFICES ASSUME NEW k \in 1..Len(s) PROVE s[k] \in Rows(c) BY RowsFacts, SMTT(30)
  <2>1. k \in 1..Len(s) + Len(t) /\ k <= Len(s) BY <1>1, SMTT(30)
  <2>2. k \in 1..Len(c) /\ c[k] = s[k] BY <1>1, <2>1
  <2> QED BY <1>1, <2>2, RowsFacts
<1>4. Rows(t) \subseteq Rows(c)
  <2> SUFFICES ASSUME NEW k \in 1..Len(t) PROVE t[k] \in Rows(c) BY RowsFacts, SMTT(30)
  <2> DEFINE i == Len(s) + k
  <2>0. i \in 1..Len(s) + Len(t) /\ ~(i <= Len(s)) /\ i - Len(s) = k BY SMTT(30)
  <2> HIDE DEF i
  <2>1. i \in 1..Len(c) /\ c[i] = t[k] BY <1>1, <2>0
  <2> QED BY <1>1, <2>1, RowsFacts
<1> QED BY <1>1, <1>2, <1>3, <1>4 DEF c

\* Listing a finite set in some order loses nothing and adds nothing.
LEMMA SetToSeqRows ==
  ASSUME NEW S, IsFiniteSet(S)
  PROVE SetToSeq(S) \in Seq(S) /\ Rows(SetToSeq(S)) = S
<1> DEFINE n == Cardinality(S)
           f == SetToSeq(S)
<1>1. n \in Nat /\ Bijection(1..n, S) # {} BY FS_CardinalityType DEF ExistsBijection
<1>2. \E g \in [1..n -> S] : IsInjective(g) BY <1>1 DEF Bijection, Injection
<1>3. f \in [1..n -> S] /\ IsInjective(f) BY <1>2 DEF SetToSeq
<1>4. f \in Injection(1..n, S) BY <1>3 DEF Injection
<1>5. Cardinality(1..n) = n BY <1>1, FS_Interval, SMTT(30)
<1>6. f \in Surjection(1..n, S) BY <1>4, <1>5, FS_Injection
<1>7. \A x \in S : \E k \in 1..n : f[k] = x BY <1>6 DEF Surjection
<1> HIDE DEF f, n
<1>8. f \in Seq(S) /\ DOMAIN f = 1..n BY <1>1, <1>3, SMTT(30)
<1> QED BY <1>3, <1>7, <1>8 DEF Rows, f

\* trim keeps a suffix.
LEMMA TrimFacts ==
  ASSUME NEW S, NEW s \in Seq(S)
  PROVE /\ trim(s) \in Seq(S) /\ Rows(trim(s)) \subseteq Rows(s)
        /\ \E d \in Nat : /\ Len(s) = d + Len(trim(s))
                          /\ \A k \in 1..Len(trim(s)) : trim(s)[k] = s[d + k]
<1>1. CASE Len(s) > MaxRows
  <2> DEFINE d == Len(s) - MaxRows
             u == trim(s)
  <2>1. Len(s) \in Nat /\ d \in Nat /\ \A i \in d + 1..Len(s) : s[i] \in S
    BY <1>1, ClickHouseSinkAssumption, SMTT(30)
  <2>2. u = SubSeq(s, d + 1, Len(s)) BY <1>1 DEF trim
  <2>3. /\ u \in Seq(S) /\ Len(u) = MaxRows
        /\ \A i \in 1..MaxRows : u[i] = s[d + i]
    <3>1. /\ u \in Seq(S)
          /\ Len(u) = IF d + 1 <= Len(s) THEN Len(s) - (d + 1) + 1 ELSE 0
          /\ \A i \in 1..Len(s) - (d + 1) + 1 : u[i] = s[(d + 1) + i - 1]
      BY <2>1, <2>2, SubSeqProperties, SMTT(30)
    <3>2. Len(s) - (d + 1) + 1 = MaxRows BY <1>1, <2>1, ClickHouseSinkAssumption, SMTT(30)
    <3>3. Len(u) = MaxRows BY <1>1, <2>1, <3>1, <3>2, ClickHouseSinkAssumption, SMTT(30)
    <3> QED BY <2>1, <3>1, <3>2, <3>3, ClickHouseSinkAssumption, SMTT(30)
  <2>4. Len(s) = d + Len(u) BY <2>1, <2>3, ClickHouseSinkAssumption, SMTT(30)
  <2> HIDE DEF u, d
  <2>5. Rows(u) \subseteq Rows(s)
    <3> SUFFICES ASSUME NEW k \in 1..Len(u) PROVE u[k] \in Rows(s) BY <2>3, RowsFacts, SMTT(30)
    <3>1. d + k \in 1..Len(s) /\ u[k] = s[d + k] BY <2>1, <2>3, <2>4, ClickHouseSinkAssumption, SMTT(30)
    <3> QED BY <3>1, RowsFacts
  <2> QED BY <2>1, <2>3, <2>4, <2>5 DEF u
<1>2. CASE ~(Len(s) > MaxRows)
  <2>1. trim(s) = s /\ Len(s) \in Nat BY <1>2, SMTT(30) DEF trim
  <2>2. Len(s) = 0 + Len(s) /\ \A k \in 1..Len(s) : s[k] = s[0 + k] BY <2>1, SMTT(30)
  <2> QED BY <2>1, <2>2
<1> QED BY <1>1, <1>2

-----------------------------------------------------------------------------
(* A flush, and a tick that is appended.                                    *)

\* An insert of flows never takes a row away, and a whole one stores every row.
LEMMA StoreFlowsFacts ==
  ASSUME NEW fs \in Seq(Ticks), NEW k \in 0..Len(fs), flowsTable \in [Ticks -> 0..2], StoreFlows(fs, k)
  PROVE /\ flowsTable' \in [Ticks -> 0..2]
        /\ \A n \in Ticks : flowsTable[n] > 0 => flowsTable'[n] > 0
        /\ k = Len(fs) => \A n \in Rows(fs) : flowsTable'[n] > 0
<1>1. flowsTable' = [n \in Ticks |->
        IF n \in Rows(SubSeq(fs, 1, k)) /\ flowsTable[n] < 2 THEN flowsTable[n] + 1 ELSE flowsTable[n]]
  BY DEF StoreFlows
<1>2. \A n \in Ticks : /\ flowsTable[n] \in 0..2 /\ flowsTable'[n] \in 0..2
                       /\ flowsTable[n] > 0 => flowsTable'[n] > 0
                       /\ n \in Rows(SubSeq(fs, 1, k)) => flowsTable'[n] > 0
  BY <1>1, SMTT(30)
<1>3. k = Len(fs) => SubSeq(fs, 1, k) = fs BY SubSeqFull
<1>4. Rows(fs) \subseteq Ticks BY RowsFacts
<1> QED BY <1>1, <1>2, <1>3, <1>4

\* An insert of process rows only adds rows of the buffer, and a whole one adds all.
LEMMA StoreProcsFacts ==
  ASSUME NEW S, NEW ps \in Seq(S), NEW k \in 0..Len(ps), StoreProcs(ps, k)
  PROVE /\ procsTable \subseteq procsTable' /\ procsTable' \subseteq procsTable \cup Rows(ps)
        /\ k = Len(ps) => Rows(ps) \subseteq procsTable'
<1> DEFINE u == SubSeq(ps, 1, k)
<1>1. procsTable' = procsTable \cup Rows(u) BY DEF StoreProcs
<1>2. Len(ps) \in Nat /\ k \in Nat /\ k <= Len(ps) BY SMTT(30)
<1>3. /\ u \in Seq(S) /\ Len(u) = k /\ \A i \in 1..k : u[i] = ps[i] BY <1>2, SMTT(30)
<1>4. Rows(u) \subseteq Rows(ps)
  <2> HIDE DEF u
  <2> SUFFICES ASSUME NEW i \in 1..k PROVE u[i] \in Rows(ps) BY <1>3, RowsFacts, SMTT(30)
  <2>1. i \in 1..Len(ps) /\ u[i] = ps[i] BY <1>2, <1>3, SMTT(30)
  <2> QED BY <2>1, RowsFacts
<1>5. k = Len(ps) => u = ps BY SubSeqFull
<1> QED BY <1>1, <1>4, <1>5

\* Trimming both buffers: what it drops is recorded, and is older than what stays.
LEMMA TrimmedFacts ==
  ASSUME NEW fs \in Seq(Ticks), NEW ps \in Seq(Procs \X Ticks), Trimmed(fs, ps),
         \A j, k \in DOMAIN fs : j < k => fs[j] < fs[k],
         discarded \subseteq Ticks, outdated \subseteq Procs
  PROVE /\ flows' \in Seq(Ticks) /\ procs' \in Seq(Procs \X Ticks)
        /\ Rows(flows') \subseteq Rows(fs) /\ Rows(procs') \subseteq Rows(ps)
        /\ discarded' = discarded \cup (Rows(fs) \ Rows(flows'))
        /\ outdated' = outdated \cup {r[1] : r \in Rows(ps) \ Rows(procs')}
        /\ discarded' \subseteq Ticks /\ outdated' \subseteq Procs
        /\ \A j, k \in DOMAIN flows' : j < k => flows'[j] < flows'[k]
        /\ \A n \in discarded' \ discarded, k \in DOMAIN flows' : n < flows'[k]
<1>1. /\ flows' = trim(fs) /\ procs' = trim(ps)
      /\ discarded' = discarded \cup (Rows(fs) \ Rows(flows'))
      /\ outdated' = outdated \cup {r[1] : r \in Rows(ps) \ Rows(procs')}
  BY DEF Trimmed
<1>2. /\ flows' \in Seq(Ticks) /\ procs' \in Seq(Procs \X Ticks)
      /\ Rows(flows') \subseteq Rows(fs) /\ Rows(procs') \subseteq Rows(ps)
  BY <1>1, TrimFacts
<1>3. Rows(fs) \subseteq Ticks /\ Rows(ps) \subseteq Procs \X Ticks BY RowsFacts
<1>4. PICK d \in Nat : /\ Len(fs) = d + Len(flows')
                       /\ \A k \in 1..Len(flows') : flows'[k] = fs[d + k]
  BY <1>1, TrimFacts
<1>5. DOMAIN flows' = 1..Len(flows') /\ Len(flows') \in Nat /\ DOMAIN fs = 1..Len(fs) BY <1>2, RowsFacts
<1>6. \A k \in 1..Len(flows') : d + k \in 1..Len(fs) BY <1>4, <1>5, SMTT(30)
<1>7. ASSUME NEW j \in DOMAIN flows', NEW k \in DOMAIN flows', j < k PROVE flows'[j] < flows'[k]
  <2>1. d + j \in DOMAIN fs /\ d + k \in DOMAIN fs /\ d + j < d + k BY <1>4, <1>5, <1>6, <1>7, SMTT(30)
  <2>2. fs[d + j] < fs[d + k] BY <2>1
  <2> QED BY <1>4, <1>5, <2>2, SMTT(30)
<1>8. ASSUME NEW n \in discarded' \ discarded, NEW k \in DOMAIN flows' PROVE n < flows'[k]
  <2>1. n \in Rows(fs) /\ n \notin Rows(flows') BY <1>1, <1>8
  <2>2. PICK j \in 1..Len(fs) : n = fs[j] BY <2>1, RowsFacts
  <2>3. j <= d
    <3> SUFFICES ASSUME j > d PROVE FALSE BY <1>4, SMTT(30)
    <3>1. j - d \in 1..Len(flows') /\ d + (j - d) = j BY <1>4, <1>5, SMTT(30)
    <3>2. flows'[j - d] = n BY <1>4, <2>2, <3>1
    <3> QED BY <1>2, <2>1, <3>1, <3>2, RowsFacts
  <2>4. j \in DOMAIN fs /\ d + k \in DOMAIN fs /\ j < d + k BY <1>4, <1>5, <1>6, <2>3, SMTT(30)
  <2>5. fs[j] < fs[d + k] BY <2>4
  <2> QED BY <1>4, <1>5, <2>2, <2>5
<1>9. discarded' \subseteq Ticks /\ outdated' \subseteq Procs BY <1>1, <1>3
<1> QED BY <1>1, <1>2, <1>7, <1>8, <1>9

\* Whatever becomes of a flush, the rows are accounted for.
LEMMA AttemptOK ==
  ASSUME NEW fs, NEW ps, NEW rec, NEW lat,
         BufferOK(fs, rec), FlowsOK(flowsTable, fs, rec, discarded),
         ProcsOK(procsTable, ps, lat, outdated), Attempt(fs, ps)
  PROVE /\ BufferOK(flows', rec)
        /\ FlowsOK(flowsTable', flows', rec, discarded')
        /\ ProcsOK(procsTable', procs', lat, outdated')
<1> DEFINE Kept(f, s) == /\ f \in Seq(Ticks) /\ s \in Seq(Procs \X Ticks)
                         /\ \A j, k \in DOMAIN f : j < k => f[j] < f[k]
                         /\ Rows(f) \subseteq Rows(fs) /\ Rows(s) \subseteq Rows(ps)
                         /\ Trimmed(f, s)
                         /\ \A n \in Rows(fs) \ Rows(f) : flowsTable'[n] > 0
                         /\ Rows(ps) \ Rows(s) \subseteq procsTable'
                         /\ procsTable \subseteq procsTable' /\ procsTable' \subseteq procsTable \cup Rows(ps)
                         /\ flowsTable' \in [Ticks -> 0..2]
                         /\ \A n \in Ticks : flowsTable[n] > 0 => flowsTable'[n] > 0
<1>0. /\ fs \in Seq(Ticks) /\ Rows(fs) \subseteq rec /\ \A j, k \in DOMAIN fs : j < k => fs[j] < fs[k]
      /\ ps \in Seq(Procs \X Ticks) /\ flowsTable \in [Ticks -> 0..2]
      /\ << >> \in Seq(Ticks) /\ << >> \in Seq(Procs \X Ticks) /\ DOMAIN << >> = {}
  BY EmptySeq, SMTT(30) DEF BufferOK, FlowsOK, ProcsOK
<1>l. Len(fs) \in 0..Len(fs) /\ Len(ps) \in 0..Len(ps) BY <1>0, SMTT(30)
<1>1. ASSUME NEW f, NEW s, Kept(f, s)
      PROVE /\ BufferOK(flows', rec)
            /\ FlowsOK(flowsTable', flows', rec, discarded')
            /\ ProcsOK(procsTable', procs', lat, outdated')
  <2>0. discarded \subseteq Ticks /\ outdated \subseteq Procs BY DEF FlowsOK, ProcsOK
  <2>1. /\ flows' \in Seq(Ticks) /\ procs' \in Seq(Procs \X Ticks)
        /\ Rows(flows') \subseteq Rows(f) /\ Rows(procs') \subseteq Rows(s)
        /\ discarded' = discarded \cup (Rows(f) \ Rows(flows'))
        /\ outdated' = outdated \cup {r[1] : r \in Rows(s) \ Rows(procs')}
        /\ discarded' \subseteq Ticks /\ outdated' \subseteq Procs
        /\ \A j, k \in DOMAIN flows' : j < k => flows'[j] < flows'[k]
    BY <1>1, <2>0, TrimmedFacts
  <2>2. BufferOK(flows', rec) BY <1>0, <1>1, <2>1 DEF BufferOK
  <2>3. FlowsOK(flowsTable', flows', rec, discarded')
    <3>1. ASSUME NEW n \in rec PROVE flowsTable'[n] > 0 \/ n \in Rows(flows') \/ n \in discarded'
      <4>1. n \in Ticks /\ (flowsTable[n] > 0 \/ n \in Rows(fs) \/ n \in discarded) BY DEF FlowsOK
      <4> QED BY <1>1, <2>1, <4>1
    <3> QED BY <1>1, <2>1, <3>1 DEF FlowsOK
  <2>4. ProcsOK(procsTable', procs', lat, outdated')
    <3>1. ASSUME NEW p \in Procs \ outdated', lat[p] # 0 PROVE <<p, lat[p]>> \in procsTable' \cup Rows(procs')
      <4>1. p \in Procs \ outdated BY <2>1
      <4>2. <<p, lat[p]>> \in procsTable \cup Rows(ps) BY <3>1, <4>1 DEF ProcsOK
      <4>3. <<p, lat[p]>>[1] = p OBVIOUS
      <4>4. <<p, lat[p]>> \notin Rows(s) \ Rows(procs') BY <2>1, <4>3
      <4> QED BY <1>1, <4>2, <4>4
    <3>2. procsTable' \cup Rows(procs') \subseteq procsTable \cup Rows(ps) BY <1>1, <2>1
    <3>3. procsTable' \subseteq Procs \X Ticks BY <1>0, <1>1, RowsFacts DEF ProcsOK
    <3> QED BY <2>1, <3>1, <3>2, <3>3 DEF ProcsOK
  <2> QED BY <2>2, <2>3, <2>4
<1>2. CASE NoSchema(fs, ps)
  <2>1. Kept(fs, ps) BY <1>0, <1>2 DEF NoSchema
  <2> QED BY <1>1, <2>1
<1>3. CASE FlushAll(fs, ps)
  <2>1. StoreFlows(fs, Len(fs)) /\ StoreProcs(ps, Len(ps)) /\ Trimmed(<< >>, << >>) BY <1>3 DEF FlushAll
  <2>2. Kept(<< >>, << >>)
    BY <1>0, <1>l, <2>1, EmptyRows, StoreFlowsFacts, StoreProcsFacts
  <2> QED BY <1>1, <2>2
<1>4. CASE FlowsFail(fs, ps)
  <2>1. PICK k \in 0..Len(fs) : StoreFlows(fs, k) BY <1>4 DEF FlowsFail
  <2>2. procsTable' = procsTable /\ Trimmed(fs, ps) BY <1>4 DEF FlowsFail
  <2>3. Kept(fs, ps) BY <1>0, <2>1, <2>2, StoreFlowsFacts
  <2> QED BY <1>1, <2>3
<1>5. CASE ProcsFail(fs, ps)
  <2>1. StoreFlows(fs, Len(fs)) /\ Trimmed(<< >>, ps) BY <1>5 DEF ProcsFail
  <2>2. PICK k \in 0..Len(ps) : StoreProcs(ps, k) BY <1>5 DEF ProcsFail
  <2>3. Kept(<< >>, ps) BY <1>0, <1>l, <2>1, <2>2, EmptyRows, StoreFlowsFacts, StoreProcsFacts
  <2> QED BY <1>1, <2>3
<1> QED BY <1>2, <1>3, <1>4, <1>5 DEF Attempt

\* The first tick in the channel and the ones behind it.
LEMMA HeadFacts ==
  ASSUME TypeInv, chan # << >>
  PROVE /\ Head(chan) = chan[1] /\ Head(chan) \in TickSet /\ 1 \in DOMAIN chan
        /\ Head(chan).id = 0 => ~Head(chan).flow /\ Head(chan).procs = {}
        /\ Tail(chan) \in Seq(TickSet)
        /\ \A k \in DOMAIN Tail(chan) : k + 1 \in DOMAIN chan /\ k + 1 > 1 /\ Tail(chan)[k] = chan[k + 1]
        /\ \A j, k \in DOMAIN Tail(chan) : j < k => j + 1 < k + 1
<1>1. chan \in Seq(TickSet) BY DEF TypeInv
<1>2. /\ Head(chan) = chan[1] /\ Head(chan) \in TickSet
      /\ Tail(chan) \in Seq(TickSet) /\ Len(Tail(chan)) = Len(chan) - 1
      /\ \A k \in 1..Len(Tail(chan)) : Tail(chan)[k] = chan[k + 1]
  BY <1>1, HeadTailProperties, SMTT(30)
<1>3. /\ DOMAIN chan = 1..Len(chan) /\ Len(chan) \in Nat /\ Len(chan) # 0
      /\ DOMAIN Tail(chan) = 1..Len(Tail(chan))
  BY <1>1, <1>2, EmptySeq, SMTT(30)
<1>4. 1 \in DOMAIN chan BY <1>3, SMTT(30)
<1>5. \A k \in 1..Len(Tail(chan)) : k + 1 \in 1..Len(chan) /\ k + 1 > 1 BY <1>2, <1>3, SMTT(30)
<1>6. \A j, k \in 1..Len(Tail(chan)) : j < k => j + 1 < k + 1 BY SMTT(30)
<1> QED BY <1>2, <1>3, <1>4, <1>5, <1>6 DEF TypeInv

\* Receiving a tick and appending its flows keeps what is said of the flows.
LEMMA AppendedFlows ==
  ASSUME Inv, chan # << >>, Received(Head(chan))
  PROVE /\ BufferOK(append_flows(Head(chan)), received')
        /\ FlowsOK(flowsTable, append_flows(Head(chan)), received', discarded)
<1> DEFINE t == Head(chan)
<1>1. /\ t = chan[1] /\ t \in TickSet /\ 1 \in DOMAIN chan
      /\ t.id = 0 => ~t.flow
  BY HeadFacts DEF Inv
<1>2. flows \in Seq(Ticks) /\ Rows(flows) \subseteq received /\ received \subseteq Ticks
  BY DEF Inv, RowsInv, BufferOK, FlowsOK
<1>3. DOMAIN flows = 1..Len(flows) /\ Len(flows) \in Nat
      /\ \A k \in 1..Len(flows) : flows[k] \in Rows(flows)
  BY <1>2, RowsFacts
<1>4. CASE t.flow
  <2>1. received' = received \cup {t.id} /\ append_flows(t) = Append(flows, t.id)
    BY <1>4 DEF Received, append_flows
  <2>2. t.id # 0 /\ t.id \in 0..MaxTicks BY <1>1, <1>4 DEF TickSet
  <2>3. t.id \in Ticks BY <2>2, ClickHouseSinkAssumption, SMTT(30) DEF Ticks
  <2>4. \A n \in received : n < t.id BY <1>1, <2>2 DEF Inv, OrderInv
  <2> DEFINE fs == Append(flows, t.id)
  <2>5. /\ fs \in Seq(Ticks) /\ Rows(fs) = Rows(flows) \cup {t.id}
    BY <1>2, <2>3, AppendRows, SMTT(30)
  <2>6. /\ Len(fs) = Len(flows) + 1 /\ fs[Len(flows) + 1] = t.id
        /\ \A k \in 1..Len(flows) : fs[k] = flows[k]
    BY <1>2, <2>3, AppendProperties, SMTT(30)
  <2>7. DOMAIN fs = 1..Len(fs) BY <2>5, RowsFacts
  <2> HIDE DEF fs
  <2>8. ASSUME NEW j \in DOMAIN fs, NEW k \in DOMAIN fs, j < k PROVE fs[j] < fs[k]
    <3>1. j \in 1..Len(flows) BY <1>3, <2>6, <2>7, <2>8, SMTT(30)
    <3>2. CASE k \in 1..Len(flows)
      BY <1>3, <2>6, <2>8, <3>1, <3>2 DEF Inv, RowsInv, BufferOK
    <3>3. CASE k = Len(flows) + 1
      <4>1. flows[j] \in received BY <1>2, <1>3, <3>1
      <4> QED BY <2>4, <2>6, <3>1, <3>3, <4>1
    <3> QED BY <1>3, <2>6, <2>7, <3>2, <3>3, SMTT(30)
  <2>9. BufferOK(fs, received') BY <1>2, <2>1, <2>5, <2>8 DEF BufferOK
  <2>10. FlowsOK(flowsTable, fs, received', discarded)
    BY <2>1, <2>3, <2>5 DEF FlowsOK, Inv, RowsInv
  <2> QED BY <2>1, <2>9, <2>10 DEF fs
<1>5. CASE ~t.flow
  <2>1. received' = received /\ append_flows(t) = flows BY <1>5 DEF Received, append_flows
  <2> QED BY <2>1 DEF Inv, RowsInv
<1> QED BY <1>4, <1>5

\* Receiving a tick and appending its processes keeps what is said of them.
LEMMA AppendedProcs ==
  ASSUME Inv, chan # << >>, Received(Head(chan))
  PROVE ProcsOK(procsTable, append_procs(Head(chan)), latest', outdated)
<1> DEFINE t == Head(chan)
           R == {<<p, t.id>> : p \in t.procs}
<1>1. /\ t = chan[1] /\ t \in TickSet /\ 1 \in DOMAIN chan
      /\ t.id = 0 => t.procs = {}
  BY HeadFacts DEF Inv
<1>2. t.procs \subseteq Procs /\ t.id \in 0..MaxTicks BY <1>1 DEF TickSet
<1>3. /\ procs \in Seq(Procs \X Ticks) /\ procsTable \subseteq Procs \X Ticks
      /\ latest \in [Procs -> 0..MaxTicks] /\ outdated \subseteq Procs
      /\ Rows(procs) \subseteq Procs \X Ticks
  BY RowsFacts DEF Inv, RowsInv, ProcsOK
<1>4. t.id # 0 => t.id \in Ticks BY <1>2, ClickHouseSinkAssumption, SMTT(30) DEF Ticks
<1>5. R \subseteq Procs \X Ticks BY <1>1, <1>2, <1>4, SMTT(30)
<1>6. IsFiniteSet(R)
  <2> DEFINE f == [p \in t.procs |-> <<p, t.id>>]
  <2>1. IsFiniteSet(t.procs) BY <1>2, FS_Subset, ClickHouseSinkAssumption
  <2>2. f \in Surjection(t.procs, R)  BY DEF Surjection
  <2> HIDE DEF f, R
  <2> QED BY <2>1, <2>2, FS_Surjection
<1> DEFINE q == SetToSeq(R)
<1>7. q \in Seq(R) /\ Rows(q) = R BY <1>6, SetToSeqRows
<1>8. q \in Seq(Procs \X Ticks) BY <1>5, <1>7, SMTT(30)
<1> DEFINE ps == procs \o q
<1>10. append_procs(t) = ps BY DEF append_procs
<1> HIDE DEF q
<1>9. ps \in Seq(Procs \X Ticks) /\ Rows(ps) = Rows(procs) \cup R BY <1>3, <1>7, <1>8, ConcatRows, SMTT(30)
<1>11. latest' = [p \in Procs |-> IF p \in t.procs THEN t.id ELSE latest[p]] BY DEF Received
<1>12. latest' \in [Procs -> 0..MaxTicks] BY <1>2, <1>3, <1>11
<1>13. \A p \in Procs : latest[p] <= latest'[p] /\ (p \in t.procs => latest'[p] = t.id)
                        /\ (p \notin t.procs => latest'[p] = latest[p])
  <2> SUFFICES ASSUME NEW p \in Procs PROVE latest[p] <= latest'[p] /\ (p \in t.procs => latest'[p] = t.id)
                        /\ (p \notin t.procs => latest'[p] = latest[p])
    OBVIOUS
  <2>1. latest[p] \in 0..MaxTicks /\ latest'[p] = IF p \in t.procs THEN t.id ELSE latest[p] BY <1>3, <1>11
  <2>2. CASE p \in t.procs
    <3>1. t.id # 0 BY <1>1, <2>2
    <3>2. latest[p] < t.id BY <1>1, <3>1 DEF Inv, OrderInv
    <3> QED BY <1>2, <2>1, <2>2, <3>2, SMTT(30)
  <2>3. CASE p \notin t.procs BY <2>1, <2>3, SMTT(30)
  <2> QED BY <2>2, <2>3
<1> HIDE DEF ps, R
<1>14. ASSUME NEW p \in Procs \ outdated, latest'[p] # 0
       PROVE <<p, latest'[p]>> \in procsTable \cup Rows(ps)
  <2>1. CASE p \in t.procs BY <1>9, <1>13, <2>1 DEF R
  <2>2. CASE p \notin t.procs
    <3>1. latest'[p] = latest[p] BY <1>13, <2>2
    <3>2. <<p, latest[p]>> \in procsTable \cup Rows(procs) BY <1>14, <3>1 DEF Inv, RowsInv, ProcsOK
    <3> QED BY <1>9, <3>1, <3>2
  <2> QED BY <2>1, <2>2
<1>15. ASSUME NEW r \in procsTable \cup Rows(ps) PROVE r[2] <= latest'[r[1]]
  <2>1. CASE r \in procsTable \cup Rows(procs)
    <3>1. r[1] \in Procs /\ r[2] \in Ticks BY <1>3, <2>1
    <3>2. r[2] <= latest[r[1]] BY <2>1 DEF Inv, RowsInv, ProcsOK
    <3>3. latest[r[1]] <= latest'[r[1]] BY <1>13, <3>1
    <3>4. latest[r[1]] \in 0..MaxTicks /\ latest'[r[1]] \in 0..MaxTicks BY <1>3, <1>12, <3>1
    <3> QED BY <3>1, <3>2, <3>3, <3>4, SMTT(30) DEF Ticks
  <2>2. CASE r \in R
    <3>1. PICK p \in t.procs : r = <<p, t.id>> BY <2>2 DEF R
    <3>2. r[1] = p /\ r[2] = t.id /\ latest'[p] = t.id BY <1>2, <1>13, <3>1
    <3> QED BY <1>2, <3>2, SMTT(30)
  <2> QED BY <1>9, <2>1, <2>2
<1> QED BY <1>3, <1>9, <1>10, <1>12, <1>14, <1>15 DEF ProcsOK

-----------------------------------------------------------------------------
(* The invariant holds, and is preserved by every step.                     *)

\* The initial state satisfies the invariant.
LEMMA InitInv == Init => Inv
<1> SUFFICES ASSUME Init PROVE Inv OBVIOUS
<1>1. /\ flows = << >> /\ procs = << >> /\ chan = << >> /\ DOMAIN << >> = {}
      /\ << >> \in Seq(Ticks) /\ << >> \in Seq(Procs \X Ticks) /\ << >> \in Seq(TickSet)
      /\ Rows(<< >>) = {}
  BY EmptySeq, EmptyRows, SMTT(30) DEF Init
<1>2. /\ published = 0 /\ 0 \in 0..MaxTicks /\ 0 \in 0..2
      /\ flowsTable = [n \in Ticks |-> 0] /\ latest = [p \in Procs |-> 0]
      /\ procsTable = {} /\ received = {} /\ discarded = {} /\ outdated = {}
      /\ closed = FALSE /\ done = FALSE /\ schema_ok = FALSE /\ up \in BOOLEAN
  BY ClickHouseSinkAssumption, SMTT(30) DEF Init
<1>3. flowsTable \in [Ticks -> 0..2] /\ latest \in [Procs -> 0..MaxTicks] BY <1>2
<1>4. TypeInv BY <1>1, <1>2, <1>3 DEF TypeInv, TypeOK
<1>5. OrderInv BY <1>1, <1>2, SMTT(30) DEF OrderInv
<1>6. RowsInv BY <1>1, <1>2, <1>3 DEF RowsInv, BufferOK, FlowsOK, ProcsOK
<1> QED BY <1>4, <1>5, <1>6 DEF Inv

\* Every step keeps the invariant of the rows.
LEMMA RowsStep == Inv /\ [Next]_vars => RowsInv'
<1> SUFFICES ASSUME Inv, [Next]_vars PROVE RowsInv' OBVIOUS
<1> USE DEF RowsInv
<1>1. CASE \/ \E flow \in BOOLEAN, changed \in SUBSET Procs : Publish(flow, changed)
           \/ Quiet \/ Close \/ Toggle \/ UNCHANGED vars
  <2>1. UNCHANGED sinkVars BY <1>1 DEF Publish, Quiet, Close, Toggle, vars
  <2>2. /\ flows' = flows /\ received' = received /\ flowsTable' = flowsTable /\ discarded' = discarded
        /\ procsTable' = procsTable /\ procs' = procs /\ latest' = latest /\ outdated' = outdated
    BY <2>1 DEF sinkVars
  <2> QED BY <2>2 DEF Inv
<1>2. CASE Receive
  <2>1. /\ chan # << >> /\ Received(Head(chan))
        /\ flows' = append_flows(Head(chan)) /\ procs' = append_procs(Head(chan))
        /\ flowsTable' = flowsTable /\ discarded' = discarded
        /\ procsTable' = procsTable /\ outdated' = outdated
    BY <1>2 DEF Receive
  <2> QED BY <2>1, AppendedFlows, AppendedProcs
<1>3. CASE ReceiveAndFlush
  <2>1. /\ chan # << >> /\ Received(Head(chan))
        /\ Attempt(append_flows(Head(chan)), append_procs(Head(chan)))
    BY <1>3 DEF ReceiveAndFlush
  <2>2. /\ BufferOK(append_flows(Head(chan)), received')
        /\ FlowsOK(flowsTable, append_flows(Head(chan)), received', discarded)
        /\ ProcsOK(procsTable, append_procs(Head(chan)), latest', outdated)
    BY <2>1, AppendedFlows, AppendedProcs
  <2> QED BY <2>1, <2>2, AttemptOK
<1>4. CASE Finish
  <2>1. Attempt(flows, procs) /\ received' = received /\ latest' = latest BY <1>4 DEF Finish
  <2>2. /\ BufferOK(flows, received) /\ FlowsOK(flowsTable, flows, received, discarded)
        /\ ProcsOK(procsTable, procs, latest, outdated)
    BY DEF Inv
  <2> QED BY <2>1, <2>2, AttemptOK
<1> QED BY <1>1, <1>2, <1>3, <1>4 DEF Next

\* What one step does to the channel.
Queued == \E t \in TickSet :
  /\ chan' = Append(chan, t) /\ (t.id = 0 => ~t.flow /\ t.procs = {})
  /\ published' \in 0..MaxTicks /\ published <= published'
  /\ t.id # 0 => published < t.id /\ t.id = published'
  /\ UNCHANGED <<received, latest>>

\* A step queues a tick, receives the first one, or leaves the channel alone.
LEMMA ChanKinds ==
  ASSUME Inv, [Next]_vars
  PROVE \/ Queued
        \/ chan # << >> /\ chan' = Tail(chan) /\ Received(Head(chan)) /\ published' = published
        \/ UNCHANGED <<chan, published, received, latest>>
<1>0. published \in 0..MaxTicks /\ MaxTicks \in Nat
  BY ClickHouseSinkAssumption DEF Inv, TypeInv, TypeOK
<1>1. ASSUME NEW flow \in BOOLEAN, NEW changed \in SUBSET Procs, Publish(flow, changed) PROVE Queued
  <2> DEFINE t == [id |-> published', flow |-> flow, procs |-> changed]
  <2>1. published < MaxTicks /\ published' = published + 1 /\ chan' = Append(chan, t)
        /\ UNCHANGED <<received, latest>>
    BY <1>1 DEF Publish, sinkVars
  <2>2. published' \in 0..MaxTicks /\ published <= published' /\ published < published' /\ published' # 0
    BY <1>0, <2>1, SMTT(30)
  <2>3. t \in TickSet /\ t.id = published' BY <2>2 DEF TickSet
  <2> QED BY <2>1, <2>2, <2>3 DEF Queued
<1>2. CASE Quiet
  <2>1. Beat \in TickSet /\ Beat.id = 0 /\ ~Beat.flow /\ Beat.procs = {} BY <1>0, SMTT(30) DEF Beat, TickSet
  <2>2. chan' = Append(chan, Beat) /\ UNCHANGED <<published, received, latest>> BY <1>2 DEF Quiet, sinkVars
  <2> QED BY <1>0, <2>1, <2>2, SMTT(30) DEF Queued
<1>3. CASE Close BY <1>3 DEF Close, sinkVars
<1>4. CASE Toggle BY <1>4 DEF Toggle, sinkVars
<1>5. CASE Receive BY <1>5 DEF Receive
<1>6. CASE ReceiveAndFlush BY <1>6 DEF ReceiveAndFlush
<1>7. CASE Finish BY <1>7 DEF Finish
<1>8. CASE UNCHANGED vars BY <1>8 DEF vars, sinkVars
<1> QED BY <1>1, <1>2, <1>3, <1>4, <1>5, <1>6, <1>7, <1>8 DEF Next

\* Every step keeps the channel in order.
LEMMA ChanStep ==
  ASSUME Inv, [Next]_vars
  PROVE /\ published' \in 0..MaxTicks /\ chan' \in Seq(TickSet)
        /\ \A k \in DOMAIN chan' : chan'[k].id = 0 => ~chan'[k].flow /\ chan'[k].procs = {}
        /\ OrderInv'
<1>0. /\ published \in 0..MaxTicks /\ MaxTicks \in Nat /\ chan \in Seq(TickSet)
      /\ received \subseteq Ticks /\ latest \in [Procs -> 0..MaxTicks]
      /\ \A k \in DOMAIN chan : chan[k].id = 0 => ~chan[k].flow /\ chan[k].procs = {}
  BY ClickHouseSinkAssumption DEF Inv, TypeInv, TypeOK
<1>o. /\ \A k \in DOMAIN chan : chan[k].id # 0 =>
           /\ chan[k].id <= published
           /\ \A n \in received : n < chan[k].id
           /\ \A p \in Procs : latest[p] < chan[k].id
           /\ \A j \in DOMAIN chan : j < k => chan[j].id < chan[k].id
      /\ \A n \in received : n <= published
      /\ \A p \in Procs : latest[p] <= published
  BY DEF Inv, OrderInv
<1>d. /\ DOMAIN chan = 1..Len(chan) /\ Len(chan) \in Nat
      /\ \A k \in DOMAIN chan : chan[k].id \in 0..MaxTicks /\ chan[k] \in TickSet
  <2>1. DOMAIN chan = 1..Len(chan) /\ Len(chan) \in Nat /\ \A k \in DOMAIN chan : chan[k] \in TickSet
    BY <1>0, SMTT(30)
  <2>2. \A t \in TickSet : t.id \in 0..MaxTicks BY DEF TickSet
  <2> QED BY <2>1, <2>2
<1>1. CASE Queued
  <2>1. PICK t \in TickSet :
          /\ chan' = Append(chan, t) /\ (t.id = 0 => ~t.flow /\ t.procs = {})
          /\ published' \in 0..MaxTicks /\ published <= published'
          /\ t.id # 0 => published < t.id /\ t.id = published'
          /\ received' = received /\ latest' = latest
    BY <1>1 DEF Queued
  <2>2. /\ chan' \in Seq(TickSet) /\ Len(chan') = Len(chan) + 1 /\ chan'[Len(chan) + 1] = t
        /\ \A k \in 1..Len(chan) : chan'[k] = chan[k]
    BY <1>0, <2>1, AppendProperties, SMTT(30)
  <2>3. DOMAIN chan' = 1..Len(chan) + 1 BY <2>2, SMTT(30)
  <2>4. \A k \in DOMAIN chan' : (k \in DOMAIN chan /\ chan'[k] = chan[k]) \/ (k = Len(chan) + 1 /\ chan'[k] = t)
    BY <1>d, <2>2, <2>3, SMTT(30)
  <2>5. \A n \in received : n <= published' BY <1>0, <1>o, <2>1, SMTT(30) DEF Ticks
  <2>6. \A p \in Procs : latest[p] <= published' BY <1>0, <1>o, <2>1, SMTT(30)
  <2>7. ASSUME NEW k \in DOMAIN chan', chan'[k].id # 0
        PROVE /\ chan'[k].id <= published'
              /\ \A n \in received : n < chan'[k].id
              /\ \A p \in Procs : latest[p] < chan'[k].id
              /\ \A j \in DOMAIN chan' : j < k => chan'[j].id < chan'[k].id
    <3>1. CASE k \in DOMAIN chan /\ chan'[k] = chan[k]
      <4>1. \A j \in DOMAIN chan' : j < k => j \in DOMAIN chan /\ chan'[j] = chan[j]
        BY <1>d, <2>3, <2>4, <3>1, SMTT(30)
      <4> QED BY <1>0, <1>o, <1>d, <2>1, <2>7, <3>1, <4>1, SMTT(30)
    <3>2. CASE k = Len(chan) + 1 /\ chan'[k] = t
      <4>1. published < t.id /\ t.id = published' /\ t.id \in 0..MaxTicks BY <2>1, <2>7, <3>2
      <4>2. \A j \in DOMAIN chan' : j < k => j \in DOMAIN chan /\ chan'[j] = chan[j]
        BY <1>d, <2>3, <2>4, <3>2, SMTT(30)
      <4>3. \A j \in DOMAIN chan : chan[j].id <= published BY <1>0, <1>o, <1>d, SMTT(30)
      <4>4. \A j \in DOMAIN chan : chan[j].id < t.id BY <1>0, <1>d, <4>1, <4>3, SMTT(30)
      <4>5. \A n \in received : n < t.id BY <1>0, <1>o, <4>1, SMTT(30) DEF Ticks
      <4>6. \A p \in Procs : latest[p] < t.id BY <1>0, <1>o, <4>1, SMTT(30)
      <4> QED BY <3>2, <4>1, <4>2, <4>4, <4>5, <4>6, SMTT(30)
    <3> QED BY <2>4, <3>1, <3>2
  <2> QED BY <1>0, <2>1, <2>2, <2>4, <2>5, <2>6, <2>7 DEF OrderInv
<1>2. CASE chan # << >> /\ chan' = Tail(chan) /\ Received(Head(chan)) /\ published' = published
  <2> DEFINE t == Head(chan)
  <2>1. /\ t = chan[1] /\ t \in TickSet /\ 1 \in DOMAIN chan /\ (t.id = 0 => ~t.flow /\ t.procs = {})
        /\ chan' \in Seq(TickSet)
        /\ \A k \in DOMAIN chan' : k + 1 \in DOMAIN chan /\ k + 1 > 1 /\ chan'[k] = chan[k + 1]
        /\ \A j, k \in DOMAIN chan' : j < k => j + 1 < k + 1
    BY <1>2, HeadFacts DEF Inv
  <2>2. /\ received' = IF t.flow THEN received \cup {t.id} ELSE received
        /\ latest' = [p \in Procs |-> IF p \in t.procs THEN t.id ELSE latest[p]]
    BY <1>2 DEF Received
  <2> HIDE DEF t
  <2>3. \A n \in received' : n \in received \/ (n = t.id /\ t.id # 0) BY <2>1, <2>2
  <2>4. \A p \in Procs : latest'[p] = latest[p] \/ (latest'[p] = t.id /\ t.id # 0) BY <2>1, <2>2
  <2>5. t.id # 0 => t.id <= published BY <1>o, <2>1
  <2>6. ASSUME NEW k \in DOMAIN chan', chan'[k].id # 0
        PROVE /\ chan'[k].id <= published
              /\ \A n \in received' : n < chan'[k].id
              /\ \A p \in Procs : latest'[p] < chan'[k].id
              /\ \A j \in DOMAIN chan' : j < k => chan'[j].id < chan'[k].id
    <3>1. k + 1 \in DOMAIN chan /\ 1 < k + 1 /\ chan'[k] = chan[k + 1] BY <2>1, <1>d
    <3>2. t.id < chan[k + 1].id BY <1>o, <2>1, <2>6, <3>1
    <3>3. \A j \in DOMAIN chan' : j < k => chan[j + 1].id < chan[k + 1].id BY <1>o, <2>1, <2>6, <3>1
    <3> QED BY <1>o, <2>1, <2>3, <2>4, <2>6, <3>1, <3>2, <3>3
  <2>7. /\ \A n \in received' : n <= published
        /\ \A p \in Procs : latest'[p] <= published
    BY <1>o, <2>3, <2>4, <2>5
  <2> QED BY <1>0, <1>2, <2>1, <2>6, <2>7 DEF OrderInv
<1>3. CASE UNCHANGED <<chan, published, received, latest>>
  BY <1>0, <1>3, <1>o DEF OrderInv
<1> QED BY <1>1, <1>2, <1>3, ChanKinds

\* Every step keeps the invariant.
LEMMA InvStep == Inv /\ [Next]_vars => Inv'
<1> SUFFICES ASSUME Inv, [Next]_vars PROVE Inv' OBVIOUS
<1>1. RowsInv' BY RowsStep
<1>2. /\ published' \in 0..MaxTicks /\ chan' \in Seq(TickSet) /\ OrderInv'
      /\ \A k \in DOMAIN chan' : chan'[k].id = 0 => ~chan'[k].flow /\ chan'[k].procs = {}
  BY ChanStep
<1>3. closed' \in BOOLEAN /\ done' \in BOOLEAN /\ schema_ok' \in BOOLEAN /\ up' \in BOOLEAN
  <2>1. closed \in BOOLEAN /\ done \in BOOLEAN /\ schema_ok \in BOOLEAN /\ up \in BOOLEAN
    BY DEF Inv, TypeInv, TypeOK
  <2>2. ASSUME NEW fs, NEW ps, Attempt(fs, ps) PROVE schema_ok' \in BOOLEAN
    BY <2>1, <2>2 DEF Attempt, NoSchema, FlushAll, FlowsFail, ProcsFail
  <2> QED BY <2>1, <2>2 DEF Next, vars, sinkVars, Publish, Quiet, Close, Toggle, Receive, ReceiveAndFlush, Finish
<1>4. flows' \in Seq(Ticks) /\ procs' \in Seq(Procs \X Ticks) BY <1>1 DEF RowsInv, BufferOK, ProcsOK
<1>5. Rows(flows') \subseteq Ticks /\ Rows(procs') \subseteq Procs \X Ticks BY <1>4, RowsFacts
<1>6. /\ flowsTable' \in [Ticks -> 0..2] /\ procsTable' \subseteq Procs \X Ticks
      /\ received' \subseteq Ticks /\ latest' \in [Procs -> 0..MaxTicks]
      /\ discarded' \subseteq Ticks /\ outdated' \subseteq Procs
  BY <1>1 DEF RowsInv, FlowsOK, ProcsOK
<1>7. \A k \in DOMAIN chan' : IsTick(chan'[k])
  <2>1. \A t \in TickSet : IsTick(t) BY DEF TickSet, IsTick
  <2>2. \A k \in DOMAIN chan' : chan'[k] \in TickSet BY <1>2, SMTT(30)
  <2> QED BY <2>1, <2>2
<1>8. TypeInv' BY <1>2, <1>3, <1>4, <1>5, <1>6, <1>7 DEF TypeInv, TypeOK, Rows
<1> QED BY <1>1, <1>2, <1>8 DEF Inv

-----------------------------------------------------------------------------
(* The theorems.                                                            *)

\* When the collector's clock moves forward from tick to tick, every flow row
\* received is stored, buffered or discarded by trim, and the flushed table
\* gives the last state of every process, whatever batches failed, were stored
\* in part or were stored twice.
THEOREM Conserved ==
  ASSUME \A m, n \in Ticks : m < n => TsOf[m] < TsOf[n]
  PROVE Spec => []RowsConserved
<1>1. Inv => RowsConserved
  <2> SUFFICES ASSUME Inv, procs = << >>, NEW p \in Procs \ outdated, latest[p] # 0
               PROVE Final(p) = {<<p, latest[p]>>}
    BY DEF RowsConserved, Inv, TypeInv, RowsInv, FlowsOK
  <2>1. Rows(procs) = {} BY EmptyRows
  <2>2. /\ <<p, latest[p]>> \in procsTable
        /\ \A r \in procsTable : r[2] <= latest[r[1]]
        /\ procsTable \subseteq Procs \X Ticks /\ latest[p] \in 0..MaxTicks
    BY <2>1 DEF Inv, RowsInv, ProcsOK
  <2>3. latest[p] \in Ticks BY <2>2, ClickHouseSinkAssumption DEF Ticks
  <2>t. \A n \in Ticks : TsOf[n] \in Nat BY ClickHouseSinkAssumption
  <2>4. \A r \in procsTable : r[1] = p => /\ r[2] \in Ticks /\ r = <<p, r[2]>> /\ r[2] <= latest[p]
    BY <2>2, SMTT(30)
  <2>5. \A n \in Ticks : n <= latest[p] => TsOf[n] <= TsOf[latest[p]]
    BY <2>3, <2>t, SMTT(30) DEF Ticks
  <2>6. <<p, latest[p]>>[1] = p /\ <<p, latest[p]>>[2] = latest[p] OBVIOUS
  <2>7. <<p, latest[p]>> \in Final(p) BY <2>2, <2>4, <2>5, <2>6 DEF Final
  <2>8. ASSUME NEW r \in Final(p) PROVE r = <<p, latest[p]>>
    <3>1. r \in procsTable /\ r[1] = p /\ TsOf[latest[p]] <= TsOf[r[2]] BY <2>2, <2>6 DEF Final
    <3>2. r[2] \in Ticks /\ r = <<p, r[2]>> /\ r[2] <= latest[p] BY <2>4, <3>1
    <3>3. ~(r[2] < latest[p]) BY <2>3, <2>t, <3>1, <3>2, SMTT(30)
    <3>4. r[2] = latest[p] BY <2>3, <3>2, <3>3, SMTT(30) DEF Ticks
    <3> QED BY <3>2, <3>4
  <2> QED BY <2>7, <2>8
<1> QED BY <1>1, InitInv, InvStep, PTL DEF Spec

\* Trimming empty buffers drops nothing.
LEMMA NothingTrimmed ==
  ASSUME Trimmed(<< >>, << >>)
  PROVE /\ flows' = << >> /\ procs' = << >>
        /\ discarded' = discarded /\ outdated' = outdated
<1>1. ~(Len(<< >>) > MaxRows) BY ClickHouseSinkAssumption, SMTT(30)
<1>2. flows' = << >> /\ procs' = << >> BY <1>1 DEF Trimmed, trim
<1>3. discarded' = discarded \cup ({} \ {}) /\ outdated' = outdated \cup {r[1] : r \in {} \ {}}
  BY <1>2, EmptyRows DEF Trimmed
<1> QED BY <1>2, <1>3

\* A flush discards nothing while ClickHouse answers, and otherwise only what
\* is older than everything it keeps.
LEMMA AttemptTrims ==
  ASSUME NEW fs, NEW ps, NEW rec, NEW lat,
         BufferOK(fs, rec), FlowsOK(flowsTable, fs, rec, discarded),
         ProcsOK(procsTable, ps, lat, outdated), Attempt(fs, ps)
  PROVE /\ up => discarded' = discarded /\ outdated' = outdated
        /\ \A n \in discarded' \ discarded, k \in DOMAIN flows' : n < flows'[k]
<1>0. /\ fs \in Seq(Ticks) /\ ps \in Seq(Procs \X Ticks)
      /\ \A j, k \in DOMAIN fs : j < k => fs[j] < fs[k]
      /\ discarded \subseteq Ticks /\ outdated \subseteq Procs
  BY DEF BufferOK, FlowsOK, ProcsOK
<1>1. CASE FlushAll(fs, ps) BY <1>1, NothingTrimmed DEF FlushAll
<1>2. CASE NoSchema(fs, ps) \/ FlowsFail(fs, ps)
  <2>1. ~up /\ Trimmed(fs, ps) BY <1>2 DEF NoSchema, FlowsFail
  <2> QED BY <1>0, <2>1, TrimmedFacts
<1>3. CASE ProcsFail(fs, ps)
  <2>1. ~up /\ Trimmed(<< >>, ps) BY <1>3 DEF ProcsFail
  <2>2. << >> \in Seq(Ticks) /\ DOMAIN << >> = {} BY EmptySeq, SMTT(30)
  <2> QED BY <1>0, <2>1, <2>2, TrimmedFacts
<1> QED BY <1>1, <1>2, <1>3 DEF Attempt

\* Only the oldest buffered rows are discarded, and only while ClickHouse is
\* down: what max_buffered_rows promises.
THEOREM OldestFirst == Spec => OldestWhileDown
<1> DEFINE A == /\ up => discarded' = discarded /\ outdated' = outdated
                /\ \A n \in discarded' \ discarded, k \in DOMAIN flows' : n < flows'[k]
<1>1. Inv /\ [Next]_vars => [A]_vars
  <2> SUFFICES ASSUME Inv, Next PROVE A OBVIOUS
  <2>1. CASE ReceiveAndFlush
    <3>1. /\ chan # << >> /\ Received(Head(chan))
          /\ Attempt(append_flows(Head(chan)), append_procs(Head(chan)))
      BY <2>1 DEF ReceiveAndFlush
    <3>2. /\ BufferOK(append_flows(Head(chan)), received')
          /\ FlowsOK(flowsTable, append_flows(Head(chan)), received', discarded)
          /\ ProcsOK(procsTable, append_procs(Head(chan)), latest', outdated)
      BY <3>1, AppendedFlows, AppendedProcs
    <3> QED BY <3>1, <3>2, AttemptTrims
  <2>2. CASE Finish
    <3>1. Attempt(flows, procs) BY <2>2 DEF Finish
    <3>2. /\ BufferOK(flows, received) /\ FlowsOK(flowsTable, flows, received, discarded)
          /\ ProcsOK(procsTable, procs, latest, outdated)
      BY DEF Inv, RowsInv
    <3> QED BY <3>1, <3>2, AttemptTrims
  <2>3. CASE ~ReceiveAndFlush /\ ~Finish
    <3>1. discarded' = discarded /\ outdated' = outdated
      BY <2>3 DEF Next, Publish, Quiet, Close, Toggle, Receive, sinkVars
    <3> QED BY <3>1
  <2> QED BY <2>1, <2>2, <2>3
<1> QED BY <1>1, InitInv, InvStep, PTL DEF Spec, OldestWhileDown

\* Once the channel is closed and ClickHouse answers, run() returns only when
\* every tick was taken from the channel and every row is stored.
THEOREM Flushed == Spec => FlushedAtClose
<1> DEFINE A == done' /\ ~done /\ up => /\ chan = << >>
                                        /\ \A n \in received : flowsTable'[n] > 0 \/ n \in discarded
                                        /\ procs' = << >>
<1>1. Inv /\ [Next]_vars => [A]_vars
  <2> SUFFICES ASSUME Inv, Next, done', ~done, up
               PROVE /\ chan = << >>
                     /\ \A n \in received : flowsTable'[n] > 0 \/ n \in discarded
                     /\ procs' = << >>
    OBVIOUS
  <2>1. Finish
    BY DEF Next, Publish, Quiet, Close, Toggle, Receive, ReceiveAndFlush, sinkVars
  <2>2. chan = << >> /\ FlushAll(flows, procs)
    BY <2>1 DEF Finish, Attempt, NoSchema, FlowsFail, ProcsFail
  <2>3. StoreFlows(flows, Len(flows)) /\ Trimmed(<< >>, << >>) BY <2>2 DEF FlushAll
  <2>4. /\ flows \in Seq(Ticks) /\ flowsTable \in [Ticks -> 0..2] /\ received \subseteq Ticks
        /\ \A n \in received : flowsTable[n] > 0 \/ n \in Rows(flows) \/ n \in discarded
    BY DEF Inv, RowsInv, BufferOK, FlowsOK
  <2>5. Len(flows) \in 0..Len(flows) BY <2>4, SMTT(30)
  <2>6. /\ \A n \in Ticks : flowsTable[n] > 0 => flowsTable'[n] > 0
        /\ \A n \in Rows(flows) : flowsTable'[n] > 0
    BY <2>3, <2>4, <2>5, StoreFlowsFacts
  <2> QED BY <2>2, <2>3, <2>4, <2>6, NothingTrimmed
<1> QED BY <1>1, InitInv, InvStep, PTL DEF Spec, FlushedAtClose
=============================================================================
