--------------------------- MODULE LiveStoreProofs ---------------------------
(***************************************************************************)
(* HolesMarked for every number of ticks, callers and buffer sizes.        *)
(*                                                                         *)
(* The loop of #append and the filter of #merge are shown to be what they  *)
(* are for buffers that go forward in time: a part of the incoming ticks   *)
(* joined to the buffer, and a prefix of it.  The invariant then says      *)
(* where the ticks the tab lacks are: on the wire, or among the pending    *)
(* ticks and the series they will be merged with.                          *)
(***************************************************************************)
EXTENDS LiveStore, SequenceTheorems, WellFoundedInduction, NaturalsInduction, TLAPS

\* The provers of a leaf that names none, in the order they are tried.
USE ZenonT(90), SMTT(30)

Message == [hello : BOOLEAN, ts : 0..MaxTick]

Rising(s) == \A j, k \in DOMAIN s : j < k => s[j].ts < s[k].ts
Top(s) == IF s = << >> THEN 0 ELSE s[Len(s)].ts
NoHole(s) == \A k \in DOMAIN s \ {1} : 2 * (s[k].ts - s[k - 1].ts) > 5 => s[k].gap
Times(s) == {s[k].ts : k \in DOMAIN s}
EventTimes(q) == {q[k].ts : k \in {j \in DOMAIN q : ~q[j].hello}}

-----------------------------------------------------------------------------
(* Sequences and naturals.                                                  *)

\* A non-empty set of naturals has a least element.
LEMMA Least ==
  ASSUME NEW T, T \subseteq Nat, T # {}
  PROVE \E n \in T : \A m \in T : n <= m
<1>1. IsWellFoundedOn(OpToRel(<, Nat), Nat)
  BY NatLessThanWellFounded
<1>2. PICK x \in T : \A y \in T : ~(<<y, x>> \in OpToRel(<, Nat))
  BY <1>1, WFMin
<1>3. ASSUME NEW y \in T PROVE x <= y
  <2>1. y < x => <<y, x>> \in OpToRel(<, Nat)
    BY DEF OpToRel
  <2>2. ~(y < x)
    BY <1>2, <2>1
  <2>3. x \in Nat /\ y \in Nat
    OBVIOUS
  <2> QED BY <2>2, <2>3, SMTT(30)
<1> QED BY <1>3

\* The constants are positive.
LEMMA Positive == {MaxTick, MaxUsers, ServerCap, Capacity} \subseteq Nat /\ MaxTick > 0 /\ Capacity > 0 /\ ServerCap > 0
BY LiveStoreAssumption, SMTT(30)

\* A tick has a positive time.
LEMMA TickFields ==
  ASSUME NEW t \in Tick
  PROVE t.ts \in Nat /\ t.ts > 0 /\ t.ts <= MaxTick /\ t.gap \in BOOLEAN
BY Positive, SMTT(30) DEF Tick

\* What a sequence of ticks holds, by index.
LEMMA TickAt ==
  ASSUME NEW s \in Seq(Tick)
  PROVE /\ Len(s) \in Nat /\ DOMAIN s = 1..Len(s)
        /\ \A k \in 1..Len(s) : /\ s[k] \in Tick
                                /\ s[k].ts \in Nat /\ s[k].ts > 0 /\ s[k].ts <= MaxTick
<1>1. Len(s) \in Nat /\ DOMAIN s = 1..Len(s) /\ \A k \in 1..Len(s) : s[k] \in Tick
  BY SMTT(30)
<1> QED BY <1>1, TickFields

\* The last time of a sequence that goes forward is its greatest.
LEMMA TopIsTop ==
  ASSUME NEW s \in Seq(Tick), Rising(s)
  PROVE /\ Top(s) \in Nat /\ Top(s) <= MaxTick
        /\ \A k \in 1..Len(s) : s[k].ts <= Top(s)
        /\ (s = << >>) = (Len(s) = 0)
        /\ (s = << >>) = (Top(s) = 0)
        /\ s # << >> => Top(s) = s[Len(s)].ts
<1>1. (s = << >>) = (Len(s) = 0)
  BY SMTT(30)
<1>2. CASE s = << >>
  BY <1>1, <1>2, Positive, SMTT(30) DEF Top
<1>3. CASE s # << >>
  <2>1. Len(s) \in Nat /\ DOMAIN s = 1..Len(s) /\ Len(s) \in 1..Len(s)
    BY <1>1, <1>3, TickAt, SMTT(30)
  <2>2. Top(s) = s[Len(s)].ts
    BY <1>3 DEF Top
  <2>3. ASSUME NEW k \in 1..Len(s) PROVE s[k].ts <= Top(s)
    BY <2>1, <2>2, <2>3, TickAt, SMTT(30) DEF Rising
  <2>4. Top(s) \in Nat /\ Top(s) > 0 /\ Top(s) <= MaxTick
    BY <2>1, <2>2, TickAt
  <2> QED BY <1>1, <1>3, <2>2, <2>3, <2>4, SMTT(30)
<1> QED BY <1>2, <1>3

\* The times below n are those of a prefix.
LEMMA Split ==
  ASSUME NEW s \in Seq(Tick), Rising(s), NEW n \in Nat
  PROVE \E d \in 0..Len(s) : \A k \in 1..Len(s) : k <= d <=> s[k].ts < n
<1>1. Len(s) \in Nat /\ DOMAIN s = 1..Len(s) /\ \A k \in 1..Len(s) : s[k].ts \in Nat
  BY TickAt
<1> DEFINE T == {k \in 1..Len(s) + 1 : k <= Len(s) => ~(s[k].ts < n)}
<1>2. T \subseteq Nat /\ Len(s) + 1 \in T
  BY <1>1, SMTT(30)
<1>3. PICK e \in T : \A m \in T : e <= m
  <2> HIDE DEF T
  <2> QED BY <1>2, Least
<1>4. e - 1 \in 0..Len(s)
  BY <1>1, SMTT(30)
<1>5. ASSUME NEW k \in 1..Len(s), k <= e - 1 PROVE s[k].ts < n
  BY <1>1, <1>3, <1>5, SMTT(30)
<1>6. ASSUME NEW k \in 1..Len(s), ~(k <= e - 1) PROVE ~(s[k].ts < n)
  <2>1. e \in 1..Len(s) /\ ~(s[e].ts < n) /\ e <= k
    BY <1>1, <1>6, SMTT(30)
  <2>2. e = k \/ s[e].ts < s[k].ts
    BY <1>1, <2>1, SMTT(30) DEF Rising
  <2> QED BY <1>1, <2>1, <2>2, SMTT(30)
<1>7. \A k \in 1..Len(s) : k <= e - 1 <=> s[k].ts < n
  BY <1>5, <1>6
<1> QED BY <1>4, <1>7

\* Two sequences with the same elements are equal.
LEMMA SameSeq ==
  ASSUME NEW S, NEW s \in Seq(S), NEW t \in Seq(S), Len(s) = Len(t),
         \A k \in 1..Len(s) : s[k] = t[k]
  PROVE s = t
BY SMTT(30)

\* Append, by index.
LEMMA AppendAt ==
  ASSUME NEW S, NEW s \in Seq(S), NEW x \in S
  PROVE /\ Append(s, x) \in Seq(S) /\ Len(Append(s, x)) = Len(s) + 1
        /\ \A k \in 1..Len(s) : Append(s, x)[k] = s[k]
        /\ Append(s, x)[Len(s) + 1] = x
        /\ DOMAIN Append(s, x) = 1..Len(s) + 1
BY SMTT(30)

-----------------------------------------------------------------------------
(* The filter of #merge.                                                    *)

Prefix(s, d) == [k \in 1..d |-> s[k]]

\* A prefix, by index.
LEMMA PrefixAt ==
  ASSUME NEW s \in Seq(Tick), NEW d \in 0..Len(s)
  PROVE Prefix(s, d) \in Seq(Tick) /\ Len(Prefix(s, d)) = d /\ \A k \in 1..d : Prefix(s, d)[k] = s[k]
<1>1. Len(s) \in Nat /\ d \in Nat /\ \A k \in 1..d : s[k] \in Tick
  BY SMTT(30)
<1> QED BY <1>1, SMTT(30) DEF Prefix

Lesser(a, b) == IF a <= b THEN a ELSE b

IsKept(f, s, ts) ==
  f = [k \in 0..Len(s) |-> IF k = 0 THEN << >>
                           ELSE IF s[k].ts < ts THEN Append(f[k - 1], s[k]) ELSE f[k - 1]]

\* The filter's steps.
LEMMA KeptAt ==
  ASSUME NEW s, NEW ts, NEW f, IsKept(f, s, ts), NEW k \in 0..Len(s)
  PROVE f[k] = IF k = 0 THEN << >>
               ELSE IF s[k].ts < ts THEN Append(f[k - 1], s[k]) ELSE f[k - 1]
BY DEF IsKept

\* ticks.filter(t => t.ts < first.ts) on a buffer that goes forward is a prefix.
LEMMA BeforeIs ==
  ASSUME NEW s \in Seq(Tick), Rising(s), NEW ts \in Nat
  PROVE \E d \in 0..Len(s) : /\ before(s, ts) = Prefix(s, d)
                             /\ \A k \in 1..Len(s) : k <= d <=> s[k].ts < ts
<1>1. PICK d \in 0..Len(s) : \A k \in 1..Len(s) : k <= d <=> s[k].ts < ts
  BY Split
<1>2. Len(s) \in Nat /\ d \in Nat
  BY SMTT(30)
<1> DEFINE g == [k \in 0..Len(s) |-> Prefix(s, Lesser(k, d))]
<1>3. ASSUME NEW k \in 0..Len(s)
      PROVE g[k] = IF k = 0 THEN << >>
                   ELSE IF s[k].ts < ts THEN Append(g[k - 1], s[k]) ELSE g[k - 1]
  <2>1. CASE k = 0
    <3>1. Lesser(k, d) = 0
      BY <1>2, <2>1, SMTT(30) DEF Lesser
    <3>2. Prefix(s, 0) = << >>
      BY PrefixAt, <1>2, SMTT(30)
    <3> QED BY <2>1, <3>1, <3>2
  <2>2. CASE k # 0
    <3>1. k \in 1..Len(s) /\ k - 1 \in 0..Len(s)
      BY <1>2, <2>2, SMTT(30)
    <3>2. CASE k <= d
      <4>1. Lesser(k, d) = k /\ Lesser(k - 1, d) = k - 1 /\ s[k].ts < ts
        BY <1>1, <1>2, <3>1, <3>2, SMTT(30) DEF Lesser
      <4>2. s[k] \in Tick
        BY <3>1, SMTT(30)
      <4>3. Append(Prefix(s, k - 1), s[k]) = Prefix(s, k)
        <5>1. /\ Prefix(s, k - 1) \in Seq(Tick) /\ Len(Prefix(s, k - 1)) = k - 1
              /\ \A j \in 1..k - 1 : Prefix(s, k - 1)[j] = s[j]
          BY PrefixAt, <3>1
        <5>2. /\ Prefix(s, k) \in Seq(Tick) /\ Len(Prefix(s, k)) = k
              /\ \A j \in 1..k : Prefix(s, k)[j] = s[j]
          BY PrefixAt, <3>1
        <5>3. /\ Append(Prefix(s, k - 1), s[k]) \in Seq(Tick)
              /\ Len(Append(Prefix(s, k - 1), s[k])) = k
              /\ \A j \in 1..k : Append(Prefix(s, k - 1), s[k])[j] = s[j]
          BY <3>1, <4>2, <5>1, AppendAt, SMTT(30)
        <5> QED BY <5>2, <5>3, SameSeq
      <4> QED BY <2>2, <3>1, <4>1, <4>3
    <3>3. CASE ~(k <= d)
      <4>1. Lesser(k, d) = d /\ Lesser(k - 1, d) = d /\ ~(s[k].ts < ts)
        BY <1>1, <1>2, <3>1, <3>3, SMTT(30) DEF Lesser
      <4> QED BY <2>2, <3>1, <4>1
    <3> QED BY <3>2, <3>3
  <2> HIDE DEF g
  <2> QED BY <2>1, <2>2
<1>4. IsKept(g, s, ts)
  <2>1. g = [k \in 0..Len(s) |-> g[k]]
    OBVIOUS
  <2> HIDE DEF g
  <2> QED BY <1>3, <2>1 DEF IsKept
<1> DEFINE f == CHOOSE f : IsKept(f, s, ts)
<1>5. IsKept(f, s, ts)
  <2> HIDE DEF g
  <2> QED BY <1>4
<1>6. before(s, ts) = f[Len(s)]
  BY DEF before, IsKept
<1>7. ASSUME NEW k \in 0..Len(s) PROVE f[k] = g[k]
  <2> HIDE DEF f, g
  <2> DEFINE T == {j \in 0..Len(s) : f[j] # g[j]}
  <2>1. CASE T # {}
    <3>1. T \subseteq Nat
      BY <1>2, SMTT(30)
    <3>2. PICK j \in T : \A m \in T : j <= m
      <4> HIDE DEF T
      <4> QED BY <2>1, <3>1, Least
    <3>3. f[j] = IF j = 0 THEN << >>
                 ELSE IF s[j].ts < ts THEN Append(f[j - 1], s[j]) ELSE f[j - 1]
      <4>1. j \in 0..Len(s)
        OBVIOUS
      <4> QED BY <1>5, <4>1, KeptAt
    <3>4. j # 0 => f[j - 1] = g[j - 1]
      BY <1>2, <3>2, SMTT(30)
    <3>5. f[j] = g[j]
      BY <1>3, <3>3, <3>4, SMTT(30)
    <3> QED BY <3>5
  <2> QED BY <2>1
<1>8. Lesser(Len(s), d) = d
  BY <1>2, SMTT(30) DEF Lesser
<1>9. before(s, ts) = Prefix(s, d)
  <2>1. f[Len(s)] = g[Len(s)]
    <3> HIDE DEF f, g
    <3> QED BY <1>7, <1>2, SMTT(30)
  <2> QED BY <1>2, <1>6, <1>8, <2>1, SMTT(30)
<1> QED BY <1>1, <1>9

-----------------------------------------------------------------------------
(* The loop of #append.                                                     *)

\* The buffer b with the incoming ticks d + 1 to e.
Joined(b, i, d, e) ==
  [j \in 1..Len(b) + (e - d) |-> IF j <= Len(b) THEN b[j] ELSE i[j - Len(b) + d]]

JoinedOK(q, b, i, d, e) ==
  /\ q \in Seq(Tick) /\ Len(q) = Len(b) + (e - d)
  /\ \A j \in 1..Len(b) : q[j] = b[j]
  /\ \A j \in Len(b) + 1..Len(b) + (e - d) : q[j] = i[j - Len(b) + d]

Greater(a, b) == IF a <= b THEN b ELSE a

\* The first d incoming ticks are not newer than the buffer, the others are.
Newer(b, i, d) == \A k \in 1..Len(i) : k <= d <=> i[k].ts < Top(b) + 1

\* The buffer with a part of the incoming ticks, by index.
LEMMA JoinedAt ==
  ASSUME NEW b \in Seq(Tick), NEW i \in Seq(Tick), NEW d \in 0..Len(i), NEW e \in d..Len(i)
  PROVE JoinedOK(Joined(b, i, d, e), b, i, d, e)
<1>1. Len(b) \in Nat /\ Len(i) \in Nat /\ d \in Nat /\ e \in Nat /\ d <= e /\ e <= Len(i)
  BY SMTT(30)
<1>2. /\ \A j \in 1..Len(b) : b[j] \in Tick
      /\ \A j \in 1..Len(i) : i[j] \in Tick
  BY SMTT(30)
<1>3. \A j \in Len(b) + 1..Len(b) + (e - d) : j - Len(b) + d \in 1..Len(i)
  BY <1>1, SMTT(30)
<1>4. \A j \in 1..Len(b) + (e - d) : (IF j <= Len(b) THEN b[j] ELSE i[j - Len(b) + d]) \in Tick
  BY <1>1, <1>2, <1>3, SMTT(30)
<1>5. Len(b) + (e - d) \in Nat
  BY <1>1, SMTT(30)
<1>6. Joined(b, i, d, e) \in Seq(Tick) /\ Len(Joined(b, i, d, e)) = Len(b) + (e - d)
  BY <1>4, <1>5, SMTT(30) DEF Joined
<1> QED BY <1>1, <1>6, SMTT(30) DEF Joined, JoinedOK

\* The last time of the buffer with a part of the incoming ticks.
LEMMA JoinedTop ==
  ASSUME NEW b \in Seq(Tick), NEW i \in Seq(Tick), NEW d \in 0..Len(i), NEW e \in d..Len(i)
  PROVE Top(Joined(b, i, d, e)) = IF e = d THEN Top(b) ELSE i[e].ts
<1> DEFINE q == Joined(b, i, d, e)
<1>1. Len(b) \in Nat /\ Len(i) \in Nat /\ d \in Nat /\ e \in Nat /\ d <= e /\ e <= Len(i)
  BY SMTT(30)
<1>2. /\ q \in Seq(Tick) /\ Len(q) = Len(b) + (e - d)
      /\ \A j \in 1..Len(b) : q[j] = b[j]
      /\ \A j \in Len(b) + 1..Len(b) + (e - d) : q[j] = i[j - Len(b) + d]
  <2>1. JoinedOK(q, b, i, d, e)
    BY JoinedAt
  <2> QED BY <2>1 DEF JoinedOK
<1> HIDE DEF q
<1>3. (q = << >>) = (Len(q) = 0) /\ (b = << >>) = (Len(b) = 0)
  BY <1>2, SMTT(30)
<1>4. CASE e = d
  <2>1. Len(q) = Len(b)
    BY <1>1, <1>2, <1>4, SMTT(30)
  <2>2. CASE Len(b) = 0
    BY <1>3, <1>4, <2>1, <2>2 DEF Top, q
  <2>3. CASE Len(b) # 0
    <3>1. q[Len(q)] = b[Len(b)]
      BY <1>1, <1>2, <2>1, <2>3, SMTT(30)
    <3> QED BY <1>3, <1>4, <2>1, <2>3, <3>1 DEF Top, q
  <2> QED BY <2>2, <2>3
<1>5. CASE e # d
  <2>1. Len(q) # 0 /\ Len(q) \in Len(b) + 1..Len(b) + (e - d) /\ Len(q) - Len(b) + d = e
    BY <1>1, <1>2, <1>5, SMTT(30)
  <2>2. q[Len(q)] = i[e]
    BY <1>2, <2>1
  <2> QED BY <1>3, <1>5, <2>1, <2>2 DEF Top, q
<1> QED BY <1>4, <1>5

IsLong(f, b, i) ==
  f = [k \in 0..Len(i) |-> IF k = 0 THEN b ELSE added(f[k - 1], i[k])]

\* The loop's steps.
LEMMA LongAt ==
  ASSUME NEW b, NEW i, NEW f, IsLong(f, b, i), NEW k \in 0..Len(i)
  PROVE f[k] = IF k = 0 THEN b ELSE added(f[k - 1], i[k])
BY DEF IsLong

\* One tick of the loop.
LEMMA LoopStep ==
  ASSUME NEW b \in Seq(Tick), NEW i \in Seq(Tick), Rising(b), Rising(i),
         NEW d \in 0..Len(i), Newer(b, i, d), NEW k \in 1..Len(i)
  PROVE added(Joined(b, i, d, Greater(k - 1, d)), i[k]) = Joined(b, i, d, Greater(k, d))
<1>1. Len(b) \in Nat /\ Len(i) \in Nat /\ d \in Nat /\ k \in Nat /\ i[k] \in Tick
  BY SMTT(30)
<1>2. i[k].ts \in Nat /\ i[k].ts > 0 /\ Top(b) \in Nat /\ DOMAIN i = 1..Len(i)
  BY <1>1, TickFields, TopIsTop, SMTT(30)
<1>3. CASE k <= d
  <2>1. Greater(k - 1, d) = d /\ Greater(k, d) = d
    BY <1>1, <1>3, SMTT(30) DEF Greater
  <2>2. i[k].ts < Top(b) + 1
    BY <1>3 DEF Newer
  <2> DEFINE q == Joined(b, i, d, d)
  <2>3. Top(q) = Top(b)
    BY <1>1, JoinedTop, SMTT(30)
  <2> HIDE DEF q
  <2>4. q # << >> /\ q[Len(q)].ts = Top(b)
    BY <1>2, <2>2, <2>3, SMTT(30) DEF Top
  <2>5. added(q, i[k]) = q
    BY <1>2, <2>2, <2>4, SMTT(30) DEF added
  <2> QED BY <2>1, <2>5 DEF q
<1>4. CASE ~(k <= d)
  <2>1. Greater(k - 1, d) = k - 1 /\ Greater(k, d) = k /\ k - 1 \in d..Len(i) /\ k \in d..Len(i)
    BY <1>1, <1>4, SMTT(30) DEF Greater
  <2>2. ~(i[k].ts < Top(b) + 1)
    BY <1>4 DEF Newer
  <2> DEFINE q == Joined(b, i, d, k - 1)
  <2>3. Top(q) = IF k - 1 = d THEN Top(b) ELSE i[k - 1].ts
    BY <2>1, JoinedTop
  <2>4. Top(q) < i[k].ts
    <3>1. CASE k - 1 = d
      BY <1>2, <2>2, <2>3, <3>1, SMTT(30)
    <3>2. CASE k - 1 # d
      <4>1. k - 1 \in DOMAIN i /\ k \in DOMAIN i /\ k - 1 < k
        BY <1>1, <1>2, <1>4, <3>2, SMTT(30)
      <4>2. i[k - 1].ts < i[k].ts
        BY <4>1 DEF Rising
      <4> QED BY <2>3, <3>2, <4>2
    <3> QED BY <3>1, <3>2
  <2>5. /\ q \in Seq(Tick) /\ Len(q) = Len(b) + (k - 1 - d)
        /\ \A j \in 1..Len(b) : q[j] = b[j]
        /\ \A j \in Len(b) + 1..Len(b) + (k - 1 - d) : q[j] = i[j - Len(b) + d]
    <3>1. JoinedOK(q, b, i, d, k - 1)
      BY <2>1, JoinedAt
    <3> QED BY <3>1 DEF JoinedOK
  <2> DEFINE r == Joined(b, i, d, k)
  <2>6. /\ r \in Seq(Tick) /\ Len(r) = Len(b) + (k - d)
        /\ \A j \in 1..Len(b) : r[j] = b[j]
        /\ \A j \in Len(b) + 1..Len(b) + (k - d) : r[j] = i[j - Len(b) + d]
    <3>1. JoinedOK(r, b, i, d, k)
      BY <2>1, JoinedAt
    <3> QED BY <3>1 DEF JoinedOK
  <2> HIDE DEF q, r
  <2>7. added(q, i[k]) = Append(q, i[k])
    <3>1. q # << >> => Top(q) = q[Len(q)].ts
      BY DEF Top
    <3>2. Top(q) \in Nat
      <4>1. CASE k - 1 = d
        BY <1>2, <2>3, <4>1
      <4>2. CASE k - 1 # d
        <5>1. k - 1 \in 1..Len(i)
          BY <1>1, <1>4, <4>2, SMTT(30)
        <5> QED BY <2>3, <4>2, <5>1, TickAt
      <4> QED BY <4>1, <4>2
    <3>3. ~(q # << >> /\ i[k].ts <= q[Len(q)].ts)
      BY <1>2, <2>4, <3>1, <3>2, SMTT(30)
    <3> QED BY <3>3 DEF added
  <2>8. /\ Append(q, i[k]) \in Seq(Tick) /\ Len(Append(q, i[k])) = Len(q) + 1
        /\ \A j \in 1..Len(q) : Append(q, i[k])[j] = q[j]
        /\ Append(q, i[k])[Len(q) + 1] = i[k]
    BY <1>1, <2>5, AppendAt, SMTT(30)
  <2>9. Len(Append(q, i[k])) = Len(r) /\ Len(q) + 1 = Len(r)
    BY <1>1, <2>1, <2>5, <2>6, <2>8, SMTT(30)
  <2>len. Len(q) = Len(b) + (k - 1 - d) /\ Len(r) = Len(b) + (k - d)
    BY <2>5, <2>6
  <2>10. ASSUME NEW j \in 1..Len(r) PROVE Append(q, i[k])[j] = r[j]
    <3>1. CASE j = Len(r)
      <4>1. j \in Len(b) + 1..Len(b) + (k - d) /\ j - Len(b) + d = k
        BY <1>1, <1>4, <2>len, <3>1, SMTT(30)
      <4> QED BY <2>6, <2>8, <2>9, <3>1, <4>1
    <3>2. CASE j # Len(r) /\ j <= Len(b)
      <4>1. j \in 1..Len(b) /\ j \in 1..Len(q)
        BY <1>1, <1>4, <2>len, <3>2, SMTT(30)
      <4> QED BY <2>5, <2>6, <2>8, <4>1
    <3>3. CASE j # Len(r) /\ ~(j <= Len(b))
      <4>1. /\ j \in Len(b) + 1..Len(b) + (k - d) /\ j \in Len(b) + 1..Len(b) + (k - 1 - d)
            /\ j \in 1..Len(q)
        BY <1>1, <1>4, <2>len, <3>3, SMTT(30)
      <4> QED BY <2>5, <2>6, <2>8, <4>1
    <3> QED BY <3>1, <3>2, <3>3
  <2>11. Append(q, i[k]) = r
    BY <2>6, <2>8, <2>9, <2>10, SameSeq
  <2> QED BY <2>1, <2>7, <2>11 DEF q, r
<1> QED BY <1>3, <1>4

\* slice(-CAPACITY).
Cut(s) == SubSeq(s, IF Len(s) > Capacity THEN Len(s) - Capacity + 1 ELSE 1, Len(s))

\* #append joins the newer of the incoming ticks and keeps the end.
LEMMA AppendIs ==
  ASSUME NEW b \in Seq(Tick), NEW i \in Seq(Tick), Rising(b), Rising(i)
  PROVE \E d \in 0..Len(i) : Newer(b, i, d) /\ append(b, i) = Cut(Joined(b, i, d, Len(i)))
<1>1. Top(b) + 1 \in Nat
  BY TopIsTop, SMTT(30)
<1>2. PICK d \in 0..Len(i) : Newer(b, i, d)
  BY <1>1, Split DEF Newer
<1>3. Len(b) \in Nat /\ Len(i) \in Nat /\ d \in Nat
  BY SMTT(30)
<1> DEFINE g == [k \in 0..Len(i) |-> Joined(b, i, d, Greater(k, d))]
<1>4. ASSUME NEW k \in 0..Len(i)
      PROVE g[k] = IF k = 0 THEN b ELSE added(g[k - 1], i[k])
  <2>1. CASE k = 0
    <3>1. Greater(k, d) = d /\ d \in d..Len(i)
      BY <1>3, <2>1, SMTT(30) DEF Greater
    <3>2. JoinedOK(Joined(b, i, d, d), b, i, d, d)
      BY <3>1, JoinedAt
    <3>3. Joined(b, i, d, d) \in Seq(Tick) /\ Len(Joined(b, i, d, d)) = Len(b)
      BY <1>3, <3>2, SMTT(30) DEF JoinedOK
    <3>4. \A j \in 1..Len(b) : Joined(b, i, d, d)[j] = b[j]
      BY <3>2 DEF JoinedOK
    <3>5. Joined(b, i, d, d) = b
      BY <3>3, <3>4, SameSeq
    <3> QED BY <2>1, <3>1, <3>5
  <2>2. CASE k # 0
    <3>1. k \in 1..Len(i) /\ k - 1 \in 0..Len(i)
      BY <1>3, <2>2, SMTT(30)
    <3>2. added(Joined(b, i, d, Greater(k - 1, d)), i[k]) = Joined(b, i, d, Greater(k, d))
      BY <1>2, <3>1, LoopStep
    <3>3. added(g[k - 1], i[k]) = g[k]
      BY <3>1, <3>2
    <3> HIDE DEF g
    <3> QED BY <2>2, <3>3
  <2> HIDE DEF g
  <2> QED BY <2>1, <2>2
<1>5. IsLong(g, b, i)
  <2>1. g = [k \in 0..Len(i) |-> g[k]]
    OBVIOUS
  <2> HIDE DEF g
  <2> QED BY <1>4, <2>1 DEF IsLong
<1> DEFINE f == CHOOSE f : IsLong(f, b, i)
<1>6. IsLong(f, b, i)
  <2> HIDE DEF g
  <2> QED BY <1>5
<1>7. append(b, i) = Cut(f[Len(i)])
  BY DEF append, IsLong, Cut
<1>8. ASSUME NEW k \in 0..Len(i) PROVE f[k] = g[k]
  <2> HIDE DEF f, g
  <2> DEFINE T == {j \in 0..Len(i) : f[j] # g[j]}
  <2>1. CASE T # {}
    <3>1. T \subseteq Nat
      BY <1>3, SMTT(30)
    <3>2. PICK j \in T : \A m \in T : j <= m
      <4> HIDE DEF T
      <4> QED BY <2>1, <3>1, Least
    <3>3. f[j] = IF j = 0 THEN b ELSE added(f[j - 1], i[j])
      <4>1. j \in 0..Len(i)
        OBVIOUS
      <4> QED BY <1>6, <4>1, LongAt, SMTT(30)
    <3>4. j # 0 => f[j - 1] = g[j - 1]
      BY <1>3, <3>2, SMTT(30)
    <3>5. f[j] = g[j]
      BY <1>4, <3>3, <3>4
    <3> QED BY <3>5
  <2> QED BY <2>1
<1>9. Greater(Len(i), d) = Len(i)
  BY <1>3, SMTT(30) DEF Greater
<1>10. f[Len(i)] = Joined(b, i, d, Len(i))
  <2>1. f[Len(i)] = g[Len(i)]
    <3> HIDE DEF f, g
    <3> QED BY <1>8, <1>3, SMTT(30)
  <2> HIDE DEF f
  <2> QED BY <1>3, <1>9, <2>1, SMTT(30)
<1> HIDE DEF f, g
<1> QED BY <1>2, <1>7, <1>10

EndOK(q, s, c) ==
  q \in Seq(Tick) /\ Len(q) = Len(s) - c /\ \A k \in 1..Len(s) - c : q[k] = s[k + c]

\* What is left of a sequence after its first c elements.
LEMMA EndAt ==
  ASSUME NEW s \in Seq(Tick), NEW c \in 0..Len(s)
  PROVE EndOK(SubSeq(s, c + 1, Len(s)), s, c)
<1>1. Len(s) \in Nat /\ c \in Nat /\ c <= Len(s) /\ \A k \in 1..Len(s) : s[k] \in Tick
  BY SMTT(30)
<1>2. SUFFICES ASSUME NEW m \in Nat, m = c + 1 PROVE EndOK(SubSeq(s, m, Len(s)), s, c)
  BY <1>1, SMTT(30)
<1> DEFINE q == SubSeq(s, m, Len(s))
<1>3. \A k \in m..Len(s) : s[k] \in Tick
  BY <1>1, <1>2, SMTT(30)
<1>4. /\ q \in Seq(Tick) /\ Len(q) = IF m <= Len(s) THEN Len(s) - m + 1 ELSE 0
      /\ \A k \in 1..Len(s) - m + 1 : q[k] = s[m + k - 1]
  BY <1>1, <1>3, SubSeqProperties, SMTT(30)
<1> HIDE DEF q
<1>5. Len(q) = Len(s) - c
  BY <1>1, <1>2, <1>4, SMTT(30)
<1>6. ASSUME NEW k \in 1..Len(s) - c PROVE q[k] = s[k + c]
  <2>1. k \in 1..Len(s) - m + 1 /\ m + k - 1 = k + c
    BY <1>1, <1>2, SMTT(30)
  <2> QED BY <1>4, <2>1
<1>7. EndOK(q, s, c)
  BY <1>4, <1>5, <1>6 DEF EndOK
<1> QED BY <1>7 DEF q

\* Cutting a buffer keeps its order, its last tick and its marks.
LEMMA CutGood ==
  ASSUME NEW s \in Seq(Tick), Rising(s)
  PROVE /\ Cut(s) \in Seq(Tick) /\ Len(Cut(s)) <= Capacity
        /\ Rising(Cut(s)) /\ Top(Cut(s)) = Top(s)
        /\ NoHole(s) => NoHole(Cut(s))
<1> DEFINE c == IF Len(s) > Capacity THEN Len(s) - Capacity ELSE 0
<1>1. /\ Len(s) \in Nat /\ Capacity \in Nat /\ Capacity > 0 /\ DOMAIN s = 1..Len(s)
      /\ \A k \in 1..Len(s) : s[k] \in Tick
  BY Positive, SMTT(30)
<1>2. c \in 0..Len(s) /\ Len(s) - c <= Capacity /\ (Len(s) > 0 => Len(s) - c > 0)
  BY <1>1, SMTT(30)
<1>3. Cut(s) = SubSeq(s, c + 1, Len(s))
  BY <1>1, SMTT(30) DEF Cut
<1> HIDE DEF c
<1> DEFINE q == Cut(s)
<1>4. /\ q \in Seq(Tick) /\ Len(q) = Len(s) - c
      /\ \A k \in 1..Len(s) - c : q[k] = s[k + c]
  BY <1>2, <1>3, EndAt DEF EndOK
<1> HIDE DEF q
<1>5. /\ DOMAIN q = 1..Len(s) - c /\ Len(s) - c \in Nat /\ c \in Nat
      /\ \A k \in 1..Len(s) - c : k + c \in 1..Len(s)
  BY <1>1, <1>2, <1>4, SMTT(30)
<1>6. Rising(q)
  <2>1. ASSUME NEW j \in DOMAIN q, NEW k \in DOMAIN q, j < k PROVE q[j].ts < q[k].ts
    <3>1. j + c \in DOMAIN s /\ k + c \in DOMAIN s /\ j + c < k + c
      BY <1>1, <1>5, <2>1, SMTT(30)
    <3>2. s[j + c].ts < s[k + c].ts
      BY <3>1 DEF Rising
    <3>3. q[j] = s[j + c] /\ q[k] = s[k + c]
      BY <1>4, <1>5
    <3> QED BY <3>2, <3>3
  <2> QED BY <2>1 DEF Rising
<1>7. Top(q) = Top(s)
  <2>1. (q = << >>) = (Len(q) = 0) /\ (s = << >>) = (Len(s) = 0)
    BY <1>4, SMTT(30)
  <2>2. CASE Len(s) = 0
    BY <1>1, <1>2, <1>4, <2>1, <2>2, SMTT(30) DEF Top
  <2>3. CASE Len(s) # 0
    <3>1. Len(q) # 0 /\ Len(q) \in 1..Len(s) - c /\ Len(q) + c = Len(s)
      <4>1. Len(q) = Len(s) - c
        BY <1>4
      <4>2. c \in Nat /\ Len(s) \in Nat
        BY <1>1, <1>2, SMTT(30)
      <4>3. Len(s) - c > 0
        BY <1>2, <2>3, <4>2, SMTT(30)
      <4> QED BY <4>1, <4>2, <4>3, SMTT(30)
    <3>2. q[Len(q)] = s[Len(s)]
      BY <1>4, <3>1
    <3> QED BY <2>1, <2>3, <3>1, <3>2 DEF Top
  <2> QED BY <2>2, <2>3
<1>8. ASSUME NoHole(s) PROVE NoHole(q)
  <2>1. ASSUME NEW k \in DOMAIN q \ {1}
        PROVE 2 * (q[k].ts - q[k - 1].ts) > 5 => q[k].gap
    <3>1. k \in 1..Len(s) - c /\ k - 1 \in 1..Len(s) - c /\ k + c \in DOMAIN s \ {1} /\ (k - 1) + c = (k + c) - 1
      BY <1>1, <1>5, SMTT(30)
    <3>2. q[k] = s[k + c] /\ q[k - 1] = s[(k + c) - 1]
      BY <1>4, <3>1
    <3>3. 2 * (s[k + c].ts - s[(k + c) - 1].ts) > 5 => s[k + c].gap
      BY <1>8, <3>1 DEF NoHole
    <3> QED BY <3>2, <3>3
  <2> QED BY <2>1 DEF NoHole
<1>9. Len(q) <= Capacity
  BY <1>2, <1>4
<1> QED BY <1>4, <1>6, <1>7, <1>8, <1>9 DEF q

\* A tick that is not next to the buffer's end follows the one before it.
Steady(b, i) == \A k \in DOMAIN i : i[k].ts > Top(b) + 1 => k > 1 /\ i[k - 1].ts + 1 = i[k].ts

\* Joining the newer ticks keeps the order, ends at the newest and, if they are
\* steady, leaves no hole.
LEMMA JoinedGood ==
  ASSUME NEW b \in Seq(Tick), NEW i \in Seq(Tick), Rising(b), Rising(i),
         NEW d \in 0..Len(i), Newer(b, i, d),
         NEW q, q = Joined(b, i, d, Len(i))
  PROVE /\ q \in Seq(Tick) /\ Rising(q) /\ Top(q) = Greater(Top(b), Top(i))
        /\ NoHole(b) /\ Steady(b, i) => NoHole(q)
<1> DEFINE n == Len(b)
<1>1. n \in Nat /\ Len(i) \in Nat /\ d \in Nat /\ d <= Len(i) /\ Len(i) \in d..Len(i)
  BY SMTT(30)
<1>2. /\ q \in Seq(Tick) /\ Len(q) = n + (Len(i) - d)
      /\ \A j \in 1..n : q[j] = b[j]
      /\ \A j \in n + 1..n + (Len(i) - d) : q[j] = i[j - n + d]
  <2>1. JoinedOK(q, b, i, d, Len(i))
    BY <1>1, JoinedAt
  <2> QED BY <2>1 DEF JoinedOK
<1>3. /\ DOMAIN b = 1..n /\ DOMAIN i = 1..Len(i)
      /\ \A k \in 1..n : b[k].ts \in Nat
      /\ \A k \in 1..Len(i) : i[k].ts \in Nat
  BY TickAt
<1>4. DOMAIN q = 1..n + (Len(i) - d)
  BY <1>2, SMTT(30)
<1>5. Top(b) \in Nat /\ Top(i) \in Nat /\ \A k \in 1..n : b[k].ts <= Top(b)
  BY TopIsTop
<1>6. (b = << >>) = (n = 0) /\ (b # << >> => Top(b) = b[n].ts)
  BY TopIsTop
<1>7. (i = << >>) = (Len(i) = 0) /\ (i # << >> => Top(i) = i[Len(i)].ts)
      /\ (i = << >> => Top(i) = 0)
  BY TopIsTop
<1> HIDE DEF n
<1>8. ASSUME NEW j \in DOMAIN q
      PROVE \/ j \in 1..n /\ q[j] = b[j]
            \/ j > n /\ j - n + d \in d + 1..Len(i) /\ j - n + d \in 1..Len(i) /\ q[j] = i[j - n + d]
  <2>1. CASE j <= n
    <3>1. j \in 1..n
      BY <1>1, <1>4, <2>1, SMTT(30)
    <3> QED BY <1>2, <3>1
  <2>2. CASE j > n
    <3>1. j \in n + 1..n + (Len(i) - d) /\ j - n + d \in d + 1..Len(i) /\ j - n + d \in 1..Len(i)
      BY <1>1, <1>4, <2>2, SMTT(30)
    <3> QED BY <1>2, <2>2, <3>1
  <2> QED BY <1>1, <1>4, <2>1, <2>2, SMTT(30)
<1>9. ASSUME NEW m \in d + 1..Len(i) PROVE m \in 1..Len(i) /\ ~(i[m].ts < Top(b) + 1)
  BY <1>1, SMTT(30) DEF Newer
<1>10. Rising(q)
  <2>1. ASSUME NEW j \in DOMAIN q, NEW k \in DOMAIN q, j < k PROVE q[j].ts < q[k].ts
    <3>1. CASE k \in 1..n /\ q[k] = b[k]
      <4>1. j \in 1..n
        BY <1>1, <1>4, <2>1, <3>1, SMTT(30)
      <4>2. q[j] = b[j]
        BY <1>2, <4>1
      <4> QED BY <1>3, <2>1, <3>1, <4>1, <4>2 DEF Rising
    <3>2. CASE k > n /\ k - n + d \in d + 1..Len(i) /\ k - n + d \in 1..Len(i) /\ q[k] = i[k - n + d]
      <4>1. q[k].ts \in Nat /\ ~(q[k].ts < Top(b) + 1)
        BY <1>3, <1>9, <3>2
      <4>2. CASE j \in 1..n /\ q[j] = b[j]
        <5>1. q[j].ts \in Nat /\ q[j].ts <= Top(b)
          BY <1>3, <1>5, <4>2
        <5> QED BY <1>5, <4>1, <5>1, SMTT(30)
      <4>3. CASE j > n /\ j - n + d \in 1..Len(i) /\ q[j] = i[j - n + d]
        <5>1. j - n + d < k - n + d
          BY <1>1, <1>4, <2>1, SMTT(30)
        <5> QED BY <1>3, <3>2, <4>3, <5>1 DEF Rising
      <4> QED BY <1>8, <4>2, <4>3
    <3> QED BY <1>8, <3>1, <3>2
  <2> QED BY <2>1 DEF Rising
<1>11. Top(q) = Greater(Top(b), Top(i))
  <2>1. Top(q) = IF Len(i) = d THEN Top(b) ELSE i[Len(i)].ts
    BY <1>1, JoinedTop
  <2>2. CASE Len(i) = d
    <3>1. Top(i) <= Top(b)
      <4>1. CASE Len(i) = 0
        BY <1>5, <1>7, <4>1, SMTT(30)
      <4>2. CASE Len(i) # 0
        <5>1. Len(i) \in 1..Len(i) /\ Len(i) <= d
          BY <1>1, <2>2, <4>2, SMTT(30)
        <5>2. i[Len(i)].ts < Top(b) + 1
          BY <5>1 DEF Newer
        <5> QED BY <1>3, <1>5, <1>7, <4>2, <5>1, <5>2, SMTT(30)
      <4> QED BY <4>1, <4>2
    <3>2. Greater(Top(b), Top(i)) = Top(b)
      BY <1>5, <3>1, SMTT(30) DEF Greater
    <3> QED BY <2>1, <2>2, <3>2
  <2>3. CASE Len(i) # d
    <3>1. Len(i) \in d + 1..Len(i) /\ Len(i) # 0
      BY <1>1, <2>3, SMTT(30)
    <3>2. ~(i[Len(i)].ts < Top(b) + 1) /\ Top(i) = i[Len(i)].ts
      BY <1>7, <1>9, <3>1
    <3>3. Greater(Top(b), Top(i)) = Top(i)
      BY <1>5, <3>2, SMTT(30) DEF Greater
    <3> QED BY <2>1, <2>3, <3>2, <3>3
  <2> QED BY <2>2, <2>3
<1>12. ASSUME NoHole(b), Steady(b, i) PROVE NoHole(q)
  <2>1. ASSUME NEW k \in DOMAIN q \ {1}
        PROVE 2 * (q[k].ts - q[k - 1].ts) > 5 => q[k].gap
    <3>1. k \in Nat /\ k > 1 /\ k - 1 \in DOMAIN q
      BY <1>1, <1>4, SMTT(30)
    <3>2. CASE k \in 1..n
      <4>1. k - 1 \in 1..n /\ k \in DOMAIN b \ {1}
        BY <1>1, <1>3, <3>1, <3>2, SMTT(30)
      <4>2. q[k] = b[k] /\ q[k - 1] = b[k - 1]
        BY <1>2, <3>2, <4>1
      <4>3. 2 * (b[k].ts - b[k - 1].ts) > 5 => b[k].gap
        BY <1>12, <4>1 DEF NoHole
      <4> QED BY <4>2, <4>3
    <3>3. CASE k \notin 1..n
      <4> DEFINE m == k - n + d
      <4>1. k > n /\ m \in d + 1..Len(i) /\ q[k] = i[m]
        BY <1>8, <3>3
      <4>2. m \in 1..Len(i) /\ ~(i[m].ts < Top(b) + 1) /\ i[m].ts \in Nat
        BY <1>3, <1>9, <4>1
      <4>3. i[m].ts > Top(b) + 1 => m > 1 /\ i[m - 1].ts + 1 = i[m].ts
        BY <1>12, <1>3, <4>2 DEF Steady
      <4>4. q[k - 1].ts \in Nat /\ q[k].ts = q[k - 1].ts + 1
        <5>1. CASE k = n + 1
          <6>1. m = d + 1 /\ n # 0 /\ n \in 1..n /\ k - 1 = n
            BY <1>1, <3>1, <5>1, SMTT(30)
          <6>2. q[k - 1].ts = Top(b)
            BY <1>2, <1>6, <6>1
          <6>3. ~(i[m].ts > Top(b) + 1)
            <7>1. SUFFICES ASSUME i[m].ts > Top(b) + 1 PROVE FALSE
              OBVIOUS
            <7>2. d \in 1..Len(i) /\ i[d].ts + 1 = i[m].ts
              BY <1>1, <4>3, <6>1, <7>1, SMTT(30)
            <7>3. i[d].ts < Top(b) + 1
              BY <1>1, <7>2, SMTT(30) DEF Newer
            <7> QED BY <1>3, <1>5, <7>1, <7>2, <7>3, SMTT(30)
          <6> HIDE DEF m
          <6> QED BY <1>5, <4>1, <4>2, <6>2, <6>3, SMTT(30)
        <5>2. CASE k # n + 1
          <6>1. /\ k - 1 \in n + 1..n + (Len(i) - d) /\ (k - 1) - n + d = m - 1
                /\ m - 1 \in d + 1..Len(i)
            BY <1>1, <1>4, <3>1, <4>1, <5>2, SMTT(30)
          <6>2. q[k - 1] = i[m - 1]
            BY <1>2, <6>1
          <6>3. m - 1 \in 1..Len(i) /\ ~(i[m - 1].ts < Top(b) + 1) /\ i[m - 1].ts \in Nat
            BY <1>3, <1>9, <6>1
          <6>4. i[m - 1].ts < i[m].ts
            BY <1>3, <4>2, <6>3, SMTT(30) DEF Rising
          <6> HIDE DEF m
          <6> QED BY <1>5, <4>1, <4>2, <4>3, <6>2, <6>3, <6>4, SMTT(30)
        <5> QED BY <5>1, <5>2
      <4> QED BY <4>4, SMTT(30)
    <3> QED BY <3>2, <3>3
  <2> QED BY <2>1 DEF NoHole
<1> QED BY <1>2, <1>10, <1>11, <1>12

AppendOK(q, b, i) ==
  /\ q \in Seq(Tick) /\ Len(q) <= Capacity
  /\ Rising(q) /\ Top(q) = Greater(Top(b), Top(i))
  /\ NoHole(b) /\ Steady(b, i) => NoHole(q)

\* What #append promises for a buffer and ticks that go forward in time.
LEMMA AppendGood ==
  ASSUME NEW b \in Seq(Tick), NEW i \in Seq(Tick), Rising(b), Rising(i)
  PROVE AppendOK(append(b, i), b, i)
<1>1. PICK d \in 0..Len(i) : Newer(b, i, d) /\ append(b, i) = Cut(Joined(b, i, d, Len(i)))
  BY AppendIs
<1> DEFINE q == Joined(b, i, d, Len(i))
<1>2. /\ q \in Seq(Tick) /\ Rising(q) /\ Top(q) = Greater(Top(b), Top(i))
      /\ NoHole(b) /\ Steady(b, i) => NoHole(q)
  BY <1>1, JoinedGood
<1> HIDE DEF q
<1>3. /\ Cut(q) \in Seq(Tick) /\ Len(Cut(q)) <= Capacity
      /\ Rising(Cut(q)) /\ Top(Cut(q)) = Top(q)
      /\ NoHole(q) => NoHole(Cut(q))
  BY <1>2, CutGood
<1>4. append(b, i) = Cut(q)
  BY <1>1 DEF q
<1> QED BY <1>2, <1>3, <1>4 DEF AppendOK

-----------------------------------------------------------------------------
(* #merge.                                                                  *)

\* The server misses no tick.
Consecutive(s) == \A k \in DOMAIN s : s[k].ts = s[1].ts + (k - 1)

\* A series without a missing tick goes forward.
LEMMA ConsecutiveRises ==
  ASSUME NEW s \in Seq(Tick), Consecutive(s)
  PROVE Rising(s)
<1>1. DOMAIN s = 1..Len(s) /\ Len(s) \in Nat /\ \A k \in 1..Len(s) : s[k].ts \in Nat
  BY TickAt
<1>2. ASSUME NEW j \in DOMAIN s, NEW k \in DOMAIN s, j < k PROVE s[j].ts < s[k].ts
  <2>1. s[j].ts = s[1].ts + (j - 1) /\ s[k].ts = s[1].ts + (k - 1)
    BY DEF Consecutive
  <2>2. s[1].ts \in Nat /\ j \in Nat /\ k \in Nat
    BY <1>1, SMTT(30)
  <2> QED BY <1>2, <2>1, <2>2, SMTT(30)
<1> QED BY <1>2 DEF Rising

MergedOK(q, p, h, r) ==
  /\ q \in Seq(Tick) /\ Len(q) = Len(p) + Len(r)
  /\ \A j \in 1..Len(p) : q[j] = p[j]
  /\ q[Len(p) + 1] = h
  /\ \A j \in Len(p) + 2..Len(p) + Len(r) : q[j] = r[j - Len(p)]

\* The kept ticks p, a head and the rest of the series r, by index.
LEMMA MergedAt ==
  ASSUME NEW p \in Seq(Tick), NEW h \in Tick, NEW r \in Seq(Tick), r # << >>
  PROVE MergedOK(p \o <<h>> \o Tail(r), p, h, r)
<1> DEFINE a == p \o <<h>>
           t == Tail(r)
<1>1. Len(p) \in Nat /\ Len(r) \in Nat /\ Len(r) > 0
  BY SMTT(30)
<1>2. <<h>> \in Seq(Tick) /\ Len(<<h>>) = 1 /\ <<h>>[1] = h
  BY SMTT(30)
<1>3. /\ a \in Seq(Tick) /\ Len(a) = Len(p) + 1
      /\ \A j \in 1..Len(p) : a[j] = p[j]
      /\ a[Len(p) + 1] = h
  BY <1>1, <1>2, ConcatProperties, SMTT(30)
<1>4. /\ t \in Seq(Tick) /\ Len(t) = Len(r) - 1
      /\ \A j \in 1..Len(r) - 1 : t[j] = r[j + 1]
  BY <1>1, HeadTailProperties
<1> HIDE DEF a, t
<1> DEFINE q == a \o t
<1>5. /\ q \in Seq(Tick) /\ Len(q) = Len(a) + Len(t)
      /\ \A j \in 1..Len(a) + Len(t) : q[j] = IF j <= Len(a) THEN a[j] ELSE t[j - Len(a)]
  BY <1>3, <1>4, ConcatProperties
<1> HIDE DEF q
<1>6. Len(q) = Len(p) + Len(r)
  BY <1>1, <1>3, <1>4, <1>5, SMTT(30)
<1>7. ASSUME NEW j \in 1..Len(p) PROVE q[j] = p[j]
  <2>1. j \in 1..Len(a) + Len(t) /\ j <= Len(a)
    BY <1>1, <1>3, <1>4, SMTT(30)
  <2> QED BY <1>3, <1>5, <2>1
<1>8. q[Len(p) + 1] = h
  <2>1. Len(p) + 1 \in 1..Len(a) + Len(t) /\ Len(p) + 1 <= Len(a)
    BY <1>1, <1>3, <1>4, SMTT(30)
  <2> QED BY <1>3, <1>5, <2>1
<1>9. ASSUME NEW j \in Len(p) + 2..Len(p) + Len(r) PROVE q[j] = r[j - Len(p)]
  <2>1. /\ j \in 1..Len(a) + Len(t) /\ ~(j <= Len(a))
        /\ j - Len(a) \in 1..Len(r) - 1 /\ (j - Len(a)) + 1 = j - Len(p)
    BY <1>1, <1>3, <1>4, SMTT(30)
  <2>2. q[j] = t[j - Len(a)]
    BY <1>5, <2>1
  <2>3. t[j - Len(a)] = r[(j - Len(a)) + 1]
    BY <1>4, <2>1
  <2> QED BY <2>1, <2>2, <2>3
<1>10. q = p \o <<h>> \o Tail(r)
  BY DEF q, a, t
<1> QED BY <1>5, <1>6, <1>7, <1>8, <1>9, <1>10 DEF MergedOK

\* Marking a tick changes nothing else of it.
LEMMA Marked ==
  ASSUME NEW t \in Tick
  PROVE [t EXCEPT !.gap = TRUE] \in Tick /\ [t EXCEPT !.gap = TRUE].ts = t.ts /\ [t EXCEPT !.gap = TRUE].gap
<1> DEFINE u == [t EXCEPT !.gap = TRUE]
<1>1. u.ts = t.ts
  BY DEF Tick
<1>2. u.gap = TRUE
  BY DEF Tick
<1>3. u \in Tick
  BY DEF Tick
<1> QED BY <1>1, <1>2, <1>3

\* What #merge promises for a series of the server: the order, the series' last
\* tick, and a mark where the kept ticks do not reach the series.
LEMMA MergeGood ==
  ASSUME tabTicks \in Seq(Tick), Rising(tabTicks),
         series \in Seq(Tick), series # << >>, Consecutive(series)
  PROVE /\ merge \in Seq(Tick) /\ Rising(merge) /\ Top(merge) = Top(series)
        /\ NoHole(tabTicks) => NoHole(merge)
<1> DEFINE first == series[1]
           l == Len(series)
<1>1. /\ l \in Nat /\ l > 0 /\ DOMAIN series = 1..l /\ first \in Tick /\ first.ts \in Nat
      /\ Len(tabTicks) \in Nat /\ DOMAIN tabTicks = 1..Len(tabTicks)
      /\ \A k \in 1..Len(tabTicks) : tabTicks[k] \in Tick /\ tabTicks[k].ts \in Nat
  <2>1. l \in Nat /\ l > 0 /\ 1 \in 1..l
    BY SMTT(30)
  <2> QED BY <2>1, TickAt
<1>2. PICK d \in 0..Len(tabTicks) :
        /\ before(tabTicks, first.ts) = Prefix(tabTicks, d)
        /\ \A k \in 1..Len(tabTicks) : k <= d <=> tabTicks[k].ts < first.ts
  BY <1>1, BeforeIs
<1> DEFINE p == Prefix(tabTicks, d)
           h == IF p # << >> /\ 2 * (first.ts - p[Len(p)].ts) > 5
                THEN [first EXCEPT !.gap = TRUE] ELSE first
<1>3. p \in Seq(Tick) /\ Len(p) = d /\ \A k \in 1..d : p[k] = tabTicks[k]
  BY PrefixAt
<1>4. d \in Nat /\ (p = << >>) = (d = 0) /\ d <= Len(tabTicks)
  BY <1>1, <1>3, SMTT(30)
<1>5. merge = p \o <<h>> \o Tail(series)
  BY <1>2 DEF merge
<1> HIDE DEF p
<1>6. /\ h \in Tick /\ h.ts = first.ts
      /\ d # 0 /\ 2 * (first.ts - p[d].ts) > 5 => h.gap
  <2> HIDE DEF first
  <2>1. [first EXCEPT !.gap = TRUE] \in Tick /\ [first EXCEPT !.gap = TRUE].ts = first.ts /\ [first EXCEPT !.gap = TRUE].gap
    BY <1>1, Marked
  <2> QED BY <1>1, <1>3, <1>4, <2>1
<1> HIDE DEF h
<1> DEFINE q == merge
<1>7. /\ q \in Seq(Tick) /\ Len(q) = d + l
      /\ \A j \in 1..d : q[j] = p[j]
      /\ q[d + 1] = h
      /\ \A j \in d + 2..d + l : q[j] = series[j - d]
  <2>1. MergedOK(q, p, h, series)
    BY <1>3, <1>5, <1>6, MergedAt
  <2> QED BY <1>3, <2>1 DEF MergedOK
<1> HIDE DEF q
<1>8. DOMAIN q = 1..d + l
  BY <1>1, <1>4, <1>7, SMTT(30)
<1>9. ASSUME NEW j \in 1..d
      PROVE /\ j \in DOMAIN tabTicks /\ q[j] = tabTicks[j] /\ tabTicks[j].ts \in Nat
            /\ tabTicks[j].ts < first.ts
  <2>1. j \in 1..Len(tabTicks) /\ j <= d
    BY <1>1, <1>4, SMTT(30)
  <2> QED BY <1>1, <1>2, <1>3, <1>7, <2>1
<1>10. ASSUME NEW j \in d + 1..d + l
       PROVE j - d \in 1..l /\ q[j].ts = first.ts + (j - d - 1)
  <2>1. j - d \in 1..l /\ j \in Nat
    BY <1>1, <1>4, SMTT(30)
  <2>2. CASE j = d + 1
    <3>1. j - d - 1 = 0
      BY <1>4, <2>2, SMTT(30)
    <3> QED BY <1>1, <1>6, <1>7, <2>1, <2>2, <3>1, SMTT(30)
  <2>3. CASE j # d + 1
    <3>1. j \in d + 2..d + l
      BY <1>1, <1>4, <2>1, <2>3, SMTT(30)
    <3>2. q[j] = series[j - d]
      BY <1>7, <3>1
    <3>3. series[j - d].ts = first.ts + ((j - d) - 1)
      BY <1>1, <2>1 DEF Consecutive
    <3> QED BY <2>1, <3>2, <3>3
  <2> QED BY <2>2, <2>3
<1> HIDE DEF first, l
<1>11. Rising(q)
  <2>1. ASSUME NEW j \in DOMAIN q, NEW k \in DOMAIN q, j < k PROVE q[j].ts < q[k].ts
    <3>1. j \in Nat /\ k \in Nat /\ j >= 1 /\ k <= d + l
      BY <1>1, <1>4, <1>8, SMTT(30)
    <3>2. CASE k <= d
      <4>1. j \in 1..d /\ k \in 1..d
        BY <1>4, <2>1, <3>1, <3>2, SMTT(30)
      <4> QED BY <1>9, <2>1, <4>1 DEF Rising
    <3>3. CASE ~(k <= d) /\ j <= d
      <4>1. j \in 1..d /\ k \in d + 1..d + l
        BY <1>1, <1>4, <3>1, <3>3, SMTT(30)
      <4>2. q[k].ts = first.ts + (k - d - 1)
        BY <1>10, <4>1
      <4>3. q[j].ts \in Nat /\ q[j].ts < first.ts
        BY <1>9, <4>1
      <4> QED BY <1>1, <1>4, <3>1, <3>3, <4>2, <4>3, SMTT(30)
    <3>4. CASE ~(k <= d) /\ ~(j <= d)
      <4>1. j \in d + 1..d + l /\ k \in d + 1..d + l
        BY <1>1, <1>4, <2>1, <3>1, <3>4, SMTT(30)
      <4>2. q[j].ts = first.ts + (j - d - 1) /\ q[k].ts = first.ts + (k - d - 1)
        BY <1>10, <4>1
      <4> QED BY <1>1, <1>4, <2>1, <3>1, <4>2, SMTT(30)
    <3> QED BY <3>2, <3>3, <3>4
  <2> QED BY <2>1 DEF Rising
<1>12. Top(q) = Top(series)
  <2>1. d + l \in d + 1..d + l /\ q # << >> /\ d + l = Len(q)
    <3>1. q \in Seq(Tick) /\ Len(q) = d + l
      BY <1>7
    <3>2. d + l \in d + 1..d + l /\ d + l # 0
      BY <1>1, <1>4, SMTT(30)
    <3> QED BY <3>1, <3>2
  <2>2. Top(q) = first.ts + ((d + l) - d - 1)
    BY <1>10, <2>1 DEF Top
  <2>3. Top(series) = series[l].ts /\ l \in DOMAIN series
    BY <1>1, SMTT(30) DEF Top, l
  <2>4. Top(series) = first.ts + (l - 1)
    BY <2>3 DEF Consecutive, first
  <2> QED BY <1>1, <1>4, <2>2, <2>4, SMTT(30)
<1>13. ASSUME NoHole(tabTicks) PROVE NoHole(q)
  <2>1. ASSUME NEW k \in DOMAIN q \ {1}
        PROVE 2 * (q[k].ts - q[k - 1].ts) > 5 => q[k].gap
    <3>1. k \in Nat /\ k > 1 /\ k <= d + l
      BY <1>1, <1>4, <1>8, SMTT(30)
    <3>2. CASE k <= d
      <4>1. k \in 1..d /\ k - 1 \in 1..d
        BY <1>4, <3>1, <3>2, SMTT(30)
      <4>2. q[k] = tabTicks[k] /\ q[k - 1] = tabTicks[k - 1] /\ k \in DOMAIN tabTicks \ {1}
        BY <1>9, <3>1, <4>1
      <4>3. 2 * (tabTicks[k].ts - tabTicks[k - 1].ts) > 5 => tabTicks[k].gap
        BY <1>13, <4>2 DEF NoHole
      <4> QED BY <4>2, <4>3
    <3>3. CASE k = d + 1
      <4>1. k - 1 = d /\ d # 0 /\ d \in 1..d
        BY <1>4, <3>1, <3>3, SMTT(30)
      <4>2. q[k] = h /\ q[k - 1] = p[d]
        BY <1>7, <3>3, <4>1
      <4> QED BY <1>6, <4>1, <4>2
    <3>4. CASE k > d + 1
      <4>1. k \in d + 1..d + l /\ k - 1 \in d + 1..d + l
        BY <1>1, <1>4, <3>1, <3>4, SMTT(30)
      <4>2. q[k].ts = first.ts + (k - d - 1) /\ q[k - 1].ts = first.ts + ((k - 1) - d - 1)
        BY <1>10, <4>1
      <4> QED BY <1>1, <1>4, <3>1, <4>2, SMTT(30)
    <3> QED BY <1>4, <3>1, <3>2, <3>3, <3>4, SMTT(30)
  <2> QED BY <2>1 DEF NoHole
<1> QED BY <1>7, <1>11, <1>12, <1>13 DEF q

-----------------------------------------------------------------------------
(* The events on their way.                                                 *)

\* A hello comes first, the events follow it in the order of their times, and
\* nothing is newer than the stream.
WireOK(q, n) ==
  /\ \A k \in DOMAIN q : /\ k > 1 => ~q[k].hello
                         /\ q[k].ts <= n
                         /\ ~q[k].hello => q[k].ts > 0
  /\ Rising(q)

Greeted(q) == q = << >> \/ ~q[1].hello

\* What a sequence of messages holds, by index.
LEMMA MessageAt ==
  ASSUME NEW q \in Seq(Message)
  PROVE /\ Len(q) \in Nat /\ DOMAIN q = 1..Len(q) /\ (q = << >>) = (Len(q) = 0)
        /\ \A k \in 1..Len(q) : q[k] \in Message /\ q[k].ts \in Nat
<1>1. Len(q) \in Nat /\ DOMAIN q = 1..Len(q) /\ (q = << >>) = (Len(q) = 0)
      /\ \A k \in 1..Len(q) : q[k] \in Message
  BY SMTT(30)
<1>2. \A x \in Message : x.ts \in Nat
  BY Positive, SMTT(30) DEF Message
<1> QED BY <1>1, <1>2

\* The times of the events.
LEMMA EventAt ==
  ASSUME NEW q \in Seq(Message), NEW m
  PROVE m \in EventTimes(q) <=> \E k \in 1..Len(q) : ~q[k].hello /\ q[k].ts = m
<1>1. DOMAIN q = 1..Len(q)
  BY SMTT(30)
<1> QED BY <1>1 DEF EventTimes

\* An event that is sent.
LEMMA EventSent ==
  ASSUME NEW q \in Seq(Message), NEW n \in 0..MaxTick, n + 1 \in 0..MaxTick, WireOK(q, n)
  PROVE LET r == Append(q, Event(n + 1)) IN
        /\ r \in Seq(Message) /\ WireOK(r, n + 1)
        /\ EventTimes(r) = EventTimes(q) \cup {n + 1}
        /\ r # << >> /\ (q # << >> => r[1] = q[1])
        /\ q = << >> => Greeted(r)
<1> DEFINE x == Event(n + 1)
           r == Append(q, x)
           l == Len(q)
<1>1. x \in Message /\ x.ts = n + 1 /\ ~x.hello /\ n \in Nat
  BY Positive, SMTT(30) DEF Event, Message
<1>2. l \in Nat /\ DOMAIN q = 1..l /\ (q = << >>) = (l = 0) /\ \A k \in 1..l : q[k].ts \in Nat
  BY MessageAt
<1> HIDE DEF x
<1>3. /\ r \in Seq(Message) /\ Len(r) = l + 1 /\ DOMAIN r = 1..l + 1
      /\ \A k \in 1..l : r[k] = q[k]
      /\ r[l + 1] = x
  BY <1>1, AppendAt, SMTT(30)
<1> HIDE DEF r, l
<1>4. \A k \in 1..l : (k > 1 => ~q[k].hello) /\ q[k].ts <= n /\ (~q[k].hello => q[k].ts > 0)
  BY <1>2 DEF WireOK
<1>5. ASSUME NEW k \in DOMAIN r
      PROVE (k > 1 => ~r[k].hello) /\ r[k].ts <= n + 1 /\ (~r[k].hello => r[k].ts > 0)
  <2>1. CASE k \in 1..l
    <3>1. r[k] = q[k] /\ q[k].ts \in Nat
      BY <1>2, <1>3, <2>1
    <3>2. q[k].ts <= n + 1
      BY <1>1, <1>4, <2>1, <3>1, SMTT(30)
    <3> QED BY <1>4, <2>1, <3>1, <3>2
  <2>2. CASE k = l + 1
    BY <1>1, <1>3, <2>2, SMTT(30)
  <2> QED BY <1>2, <1>3, <2>1, <2>2, SMTT(30)
<1>6. ASSUME NEW j \in DOMAIN r, NEW k \in DOMAIN r, j < k PROVE r[j].ts < r[k].ts
  <2>1. j \in 1..l /\ (k \in 1..l \/ k = l + 1)
    BY <1>2, <1>3, <1>6, SMTT(30)
  <2>2. CASE k \in 1..l
    BY <1>2, <1>3, <1>6, <2>1, <2>2 DEF WireOK, Rising
  <2>3. CASE k = l + 1
    <3>1. r[j].ts \in Nat /\ r[j].ts <= n
      BY <1>2, <1>3, <1>4, <2>1
    <3> QED BY <1>1, <1>3, <2>3, <3>1, SMTT(30)
  <2> QED BY <2>1, <2>2, <2>3
<1>7. WireOK(r, n + 1)
  <2>1. Rising(r)
    BY <1>6 DEF Rising
  <2> QED BY <1>5, <2>1 DEF WireOK
<1>8. ASSUME NEW m PROVE m \in EventTimes(r) <=> m \in EventTimes(q) \cup {n + 1}
  <2>1. m \in EventTimes(r) <=> \E k \in 1..l + 1 : ~r[k].hello /\ r[k].ts = m
    BY <1>3, EventAt, SMTT(30)
  <2>2. m \in EventTimes(q) <=> \E k \in 1..l : ~q[k].hello /\ q[k].ts = m
    BY EventAt DEF l
  <2>3. \A k \in 1..l : k \in 1..l + 1
    BY <1>2, SMTT(30)
  <2>4. \A k \in 1..l + 1 : k \in 1..l \/ k = l + 1
    BY <1>2, SMTT(30)
  <2>5. l + 1 \in 1..l + 1
    BY <1>2, SMTT(30)
  <2> QED BY <1>1, <1>3, <2>1, <2>2, <2>3, <2>4, <2>5
<1>9. EventTimes(r) = EventTimes(q) \cup {n + 1}
  BY <1>8
<1>10. r # << >> /\ (q # << >> => r[1] = q[1]) /\ (q = << >> => Greeted(r))
  <2>1. r # << >>
    BY <1>2, <1>3, SMTT(30)
  <2>2. ASSUME q # << >> PROVE r[1] = q[1]
    BY <1>2, <1>3, <2>2, SMTT(30)
  <2>3. ASSUME q = << >> PROVE Greeted(r)
    <3>1. r[1] = x
      BY <1>2, <1>3, <2>3, SMTT(30)
    <3> QED BY <1>1, <3>1 DEF Greeted
  <2> QED BY <2>1, <2>2, <2>3
<1> QED BY <1>3, <1>7, <1>9, <1>10 DEF r, x

TailOK(r, q, n) ==
  /\ r \in Seq(Message) /\ WireOK(r, n) /\ Greeted(r)
  /\ EventTimes(r) \subseteq EventTimes(q)
  /\ q[1].hello => EventTimes(r) = EventTimes(q)
  /\ ~q[1].hello => /\ EventTimes(q) = EventTimes(r) \cup {q[1].ts}
                    /\ \A m \in EventTimes(r) : q[1].ts < m

\* A message that arrives.
LEMMA MessageTaken ==
  ASSUME NEW q \in Seq(Message), NEW n \in Nat, WireOK(q, n), q # << >>
  PROVE TailOK(Tail(q), q, n) /\ Head(q) = q[1]
<1> DEFINE r == Tail(q)
           l == Len(q)
<1>1. l \in Nat /\ l > 0 /\ DOMAIN q = 1..l /\ \A k \in 1..l : q[k].ts \in Nat
  BY MessageAt, SMTT(30)
<1>2. Head(q) = q[1]
  BY SMTT(30)
<1>3. /\ r \in Seq(Message) /\ Len(r) = l - 1
      /\ \A k \in 1..l - 1 : r[k] = q[k + 1]
  BY HeadTailProperties
<1> HIDE DEF r, l
<1>4. DOMAIN r = 1..l - 1 /\ \A k \in 1..l - 1 : k + 1 \in 1..l /\ k + 1 > 1
  BY <1>1, <1>3, SMTT(30)
<1>5. \A k \in 1..l : (k > 1 => ~q[k].hello) /\ q[k].ts <= n /\ (~q[k].hello => q[k].ts > 0)
  BY <1>1 DEF WireOK
<1>6. ASSUME NEW k \in 1..l - 1
      PROVE /\ k + 1 \in 1..l /\ r[k] = q[k + 1] /\ ~r[k].hello /\ r[k].ts <= n /\ r[k].ts > 0
            /\ q[1].ts < r[k].ts
  <2>1. k + 1 \in 1..l /\ k + 1 > 1 /\ r[k] = q[k + 1]
    BY <1>3, <1>4
  <2>2. 1 \in DOMAIN q /\ k + 1 \in DOMAIN q /\ 1 < k + 1
    BY <1>1, <2>1, SMTT(30)
  <2>3. q[1].ts < q[k + 1].ts
    BY <2>2 DEF WireOK, Rising
  <2> QED BY <1>5, <2>1, <2>3
<1>7. Rising(r)
  <2>1. ASSUME NEW j \in DOMAIN r, NEW k \in DOMAIN r, j < k PROVE r[j].ts < r[k].ts
    <3>1. j + 1 \in DOMAIN q /\ k + 1 \in DOMAIN q /\ j + 1 < k + 1
      BY <1>1, <1>4, <2>1, SMTT(30)
    <3>2. q[j + 1].ts < q[k + 1].ts
      BY <3>1 DEF WireOK, Rising
    <3> QED BY <1>3, <1>4, <3>2, SMTT(30)
  <2> QED BY <2>1 DEF Rising
<1>8. WireOK(r, n)
  BY <1>4, <1>6, <1>7 DEF WireOK
<1>9. Greeted(r)
  <2>1. CASE l = 1
    BY <1>3, <2>1, SMTT(30) DEF Greeted
  <2>2. CASE l # 1
    <3>1. 1 \in 1..l - 1
      BY <1>1, <2>2, SMTT(30)
    <3> QED BY <1>6, <3>1 DEF Greeted
  <2> QED BY <2>1, <2>2
<1>10. ASSUME NEW m
       PROVE m \in EventTimes(q) <=> m \in EventTimes(r) \/ (~q[1].hello /\ m = q[1].ts)
  <2>1. m \in EventTimes(r) <=> \E k \in 1..l - 1 : ~r[k].hello /\ r[k].ts = m
    BY <1>3, EventAt, SMTT(30)
  <2>2. m \in EventTimes(q) <=> \E k \in 1..l : ~q[k].hello /\ q[k].ts = m
    BY EventAt DEF l
  <2>3. \A k \in 1..l : k = 1 \/ (k - 1 \in 1..l - 1 /\ (k - 1) + 1 = k)
    BY <1>1, SMTT(30)
  <2>4. 1 \in 1..l
    BY <1>1, SMTT(30)
  <2> QED BY <1>3, <1>6, <2>1, <2>2, <2>3, <2>4, SMTT(30)
<1>11. ASSUME NEW m \in EventTimes(r) PROVE q[1].ts < m
  <2>1. \E k \in 1..l - 1 : ~r[k].hello /\ r[k].ts = m
    BY <1>3, EventAt, SMTT(30)
  <2> QED BY <1>6, <2>1
<1>12. TailOK(r, q, n)
  <2>1. EventTimes(r) \subseteq EventTimes(q)
    BY <1>10
  <2>2. q[1].hello => EventTimes(r) = EventTimes(q)
    BY <1>10
  <2>3. ~q[1].hello => EventTimes(q) = EventTimes(r) \cup {q[1].ts}
    BY <1>10
  <2> QED BY <1>3, <1>8, <1>9, <1>11, <2>1, <2>2, <2>3 DEF TailOK
<1> QED BY <1>2, <1>12 DEF r

\* A connection's first message.
LEMMA HelloSent ==
  ASSUME NEW n \in 0..MaxTick, NEW m \in Nat, n <= m
  PROVE LET q == <<Hello(n)>> IN
        /\ q \in Seq(Message) /\ WireOK(q, m) /\ ~Greeted(q) /\ q[1].ts = n
        /\ EventTimes(q) = {}
<1> DEFINE x == Hello(n)
           q == <<x>>
<1>1. x \in Message /\ x.ts = n /\ x.hello
  BY DEF Hello, Message
<1> HIDE DEF x
<1>2. q \in Seq(Message) /\ Len(q) = 1 /\ DOMAIN q = 1..1 /\ q[1] = x /\ q # << >>
  BY <1>1, SMTT(30)
<1>3. \A k \in 1..1 : k = 1
  BY SMTT(30)
<1> HIDE DEF q
<1>4. WireOK(q, m)
  BY <1>1, <1>2, <1>3, SMTT(30) DEF WireOK, Rising
<1>5. ~Greeted(q)
  BY <1>1, <1>2 DEF Greeted
<1>6. ASSUME NEW e PROVE e \notin EventTimes(q)
  BY <1>1, <1>2, <1>3, EventAt
<1>7. EventTimes(q) = {}
  BY <1>6
<1> QED BY <1>1, <1>2, <1>4, <1>5, <1>7 DEF q, x

\* A connection without a message.
LEMMA NothingSent ==
  /\ << >> \in Seq(Message) /\ EventTimes(<< >>) = {} /\ Greeted(<< >>)
  /\ \A n : WireOK(<< >>, n)
<1>1. << >> \in Seq(Message) /\ DOMAIN << >> = {} /\ EventTimes(<< >>) = {}
  BY SMTT(30) DEF EventTimes
<1>2. \A n : WireOK(<< >>, n)
  BY <1>1 DEF WireOK, Rising
<1> QED BY <1>1, <1>2 DEF Greeted

\* An empty buffer.
LEMMA EmptyBuffer ==
  /\ << >> \in Seq(Tick) /\ Rising(<< >>) /\ Consecutive(<< >>) /\ NoHole(<< >>)
  /\ Top(<< >>) = 0 /\ Times(<< >>) = {} /\ Len(<< >>) = 0
<1>1. << >> \in Seq(Tick) /\ DOMAIN << >> = {} /\ Len(<< >>) = 0 /\ Times(<< >>) = {}
  BY SMTT(30) DEF Times
<1>2. Top(<< >>) = 0
  BY DEF Top
<1> QED BY <1>1, <1>2 DEF Rising, Consecutive, NoHole

\* A tick that waits for the series.
LEMMA Postponed ==
  ASSUME NEW p \in Seq(Tick), Rising(p), NEW t \in Tick, \A m \in Times(p) : m < t.ts
  PROVE LET r == Append(p, t) IN
        r \in Seq(Tick) /\ Rising(r) /\ Times(r) = Times(p) \cup {t.ts}
<1> DEFINE r == Append(p, t)
           l == Len(p)
<1>1. l \in Nat /\ DOMAIN p = 1..l
  BY SMTT(30)
<1>2. /\ r \in Seq(Tick) /\ DOMAIN r = 1..l + 1
      /\ \A k \in 1..l : r[k] = p[k]
      /\ r[l + 1] = t
  BY AppendAt, SMTT(30)
<1> HIDE DEF r, l
<1>3. ASSUME NEW j \in DOMAIN r, NEW k \in DOMAIN r, j < k PROVE r[j].ts < r[k].ts
  <2>1. j \in 1..l /\ (k \in 1..l \/ k = l + 1)
    BY <1>1, <1>2, <1>3, SMTT(30)
  <2>2. CASE k \in 1..l
    BY <1>1, <1>2, <1>3, <2>1, <2>2 DEF Rising
  <2>3. CASE k = l + 1
    <3>1. p[j].ts \in Times(p)
      BY <1>1, <2>1 DEF Times
    <3> QED BY <1>2, <2>1, <2>3, <3>1
  <2> QED BY <2>1, <2>2, <2>3
<1>4. Rising(r)
  BY <1>3 DEF Rising
<1>5. ASSUME NEW m PROVE m \in Times(r) <=> m \in Times(p) \cup {t.ts}
  <2>1. m \in Times(r) <=> \E k \in 1..l + 1 : r[k].ts = m
    BY <1>2 DEF Times
  <2>2. m \in Times(p) <=> \E k \in 1..l : p[k].ts = m
    BY <1>1 DEF Times
  <2>3. \A k \in 1..l : k \in 1..l + 1
    BY <1>1, SMTT(30)
  <2>4. \A k \in 1..l + 1 : k \in 1..l \/ k = l + 1
    BY <1>1, SMTT(30)
  <2>5. l + 1 \in 1..l + 1
    BY <1>1, SMTT(30)
  <2> QED BY <1>2, <2>1, <2>2, <2>3, <2>4, <2>5
<1>6. Times(r) = Times(p) \cup {t.ts}
  BY <1>5
<1> QED BY <1>2, <1>4, <1>6 DEF r

\* A tick by itself.
LEMMA Single ==
  ASSUME NEW t \in Tick
  PROVE <<t>> \in Seq(Tick) /\ Rising(<<t>>) /\ Top(<<t>>) = t.ts /\ \A b : Top(b) \in Nat /\ t.ts <= Top(b) + 1 => Steady(b, <<t>>)
<1> DEFINE q == <<t>>
<1>1. q \in Seq(Tick) /\ Len(q) = 1 /\ DOMAIN q = 1..1 /\ q[1] = t /\ q # << >>
  BY SMTT(30)
<1>2. \A k \in 1..1 : k = 1
  BY SMTT(30)
<1> HIDE DEF q
<1>3. Rising(q)
  BY <1>1, <1>2, SMTT(30) DEF Rising
<1>4. Top(q) = t.ts
  BY <1>1 DEF Top
<1>5. ASSUME NEW b, Top(b) \in Nat, t.ts <= Top(b) + 1 PROVE Steady(b, q)
  <2>1. ASSUME NEW k \in DOMAIN q, q[k].ts > Top(b) + 1 PROVE FALSE
    <3>1. q[k].ts = t.ts
      BY <1>1, <1>2
    <3> QED BY <1>5, <2>1, <3>1, TickFields, SMTT(30)
  <2> QED BY <2>1 DEF Steady
<1> QED BY <1>1, <1>3, <1>4, <1>5 DEF q

\* Waiting ticks without a missing one are steady after the series.
LEMMA WaitingSteady ==
  ASSUME NEW p \in Seq(Tick), Rising(p), NEW b, Top(b) \in Nat,
         \A m \in Times(p) : m > Top(b) + 1 => m - 1 \in Times(p)
  PROVE Steady(b, p)
<1>1. Len(p) \in Nat /\ DOMAIN p = 1..Len(p) /\ \A k \in 1..Len(p) : p[k].ts \in Nat
  BY TickAt
<1>2. ASSUME NEW k \in DOMAIN p, p[k].ts > Top(b) + 1 PROVE k > 1 /\ p[k - 1].ts + 1 = p[k].ts
  <2>1. p[k].ts \in Times(p)
    BY DEF Times
  <2>2. p[k].ts - 1 \in Times(p)
    BY <1>2, <2>1
  <2>3. PICK j \in DOMAIN p : p[j].ts = p[k].ts - 1
    BY <2>2 DEF Times
  <2>4. p[j].ts \in Nat /\ p[k].ts \in Nat /\ j \in Nat /\ k \in Nat /\ j >= 1
    BY <1>1, SMTT(30)
  <2>5. j < k
    <3>1. CASE k < j
      <4>1. p[k].ts < p[j].ts
        BY <3>1 DEF Rising
      <4> QED BY <2>3, <2>4, <4>1, SMTT(30)
    <3>2. CASE k = j
      BY <2>3, <2>4, <3>2, SMTT(30)
    <3> QED BY <2>4, <3>1, <3>2, SMTT(30)
  <2>6. j = k - 1
    <3>1. CASE j < k - 1
      <4>1. k - 1 \in DOMAIN p /\ k - 1 < k
        BY <1>1, <2>4, <2>5, SMTT(30)
      <4>2. p[j].ts < p[k - 1].ts /\ p[k - 1].ts < p[k].ts /\ p[k - 1].ts \in Nat
        BY <1>1, <3>1, <4>1 DEF Rising
      <4> QED BY <2>3, <2>4, <4>2, SMTT(30)
    <3> QED BY <2>4, <2>5, <3>1, SMTT(30)
  <2> QED BY <2>3, <2>4, <2>6, SMTT(30)
<1> QED BY <1>2 DEF Steady

-----------------------------------------------------------------------------
(* The invariant.                                                           *)

Held(p) == IF p = None THEN {} ELSE Times(p)
Complete(from, n, S) == \A m \in from + 1..n : m \in S

\* The EventSource and the timers.
TimerInv ==
  /\ mounted \in 0..MaxUsers
  /\ es \in {"none", "connecting", "open"}
  /\ openEs \in Nat
  /\ Lifecycle
  /\ closeTimer => mounted = 0

\* The types of the rest of the state.
DataType ==
  /\ newest \in 0..MaxTick
  /\ sse \in Seq(Message)
  /\ loadReq \in {"none", "sent", "answered"}
  /\ series \in Seq(Tick)
  /\ tabTicks \in Seq(Tick) /\ Len(tabTicks) <= Capacity
  /\ IF loadReq = "none" THEN pending = None ELSE pending \in Seq(Tick)

\* Only an open connection has messages, and only a hub that follows the
\* stream sends events.
WireInv ==
  /\ WireOK(sse, newest)
  /\ es # "open" => sse = << >>
  /\ es = "open" /\ ~ready => EventTimes(sse) = {}

\* Everything the tab holds is in order and not newer than the stream; what
\* waits for the series came before what is still on its way.
BufferInv ==
  /\ Rising(tabTicks) /\ Top(tabTicks) <= newest
  /\ Consecutive(series) /\ Top(series) <= newest
  /\ pending # None => Rising(pending)
  /\ \A m \in Held(pending) : m <= newest /\ \A e \in EventTimes(sse) : m < e
  /\ loadReq # "none" => newest > 0

\* Where the ticks are that the tab lacks: after hello's tick they are on their
\* way; after the buffer's last one too when nothing is requested; after the
\* last one of an answered request they are on their way or wait for it.
FedInv ==
  ~blind =>
    /\ NoHole(tabTicks)
    /\ loadReq = "answered" =>
         /\ series # << >> /\ Top(tabTicks) <= Top(series)
         /\ \A m \in Held(pending) : m > Top(series) + 1 => m - 1 \in Held(pending)
    /\ es = "open" /\ ready =>
         /\ ~Greeted(sse) => Complete(sse[1].ts, newest, EventTimes(sse))
         /\ Greeted(sse) /\ loadReq = "none" => Complete(Top(tabTicks), newest, EventTimes(sse))
         /\ Greeted(sse) /\ loadReq = "answered" =>
              Complete(Top(series), newest, Held(pending) \cup EventTimes(sse))

Flags ==
  ready \in BOOLEAN /\ blind \in BOOLEAN /\ closeTimer \in BOOLEAN /\ reopenTimer \in BOOLEAN

Inv == Flags /\ TimerInv /\ DataType /\ WireInv /\ BufferInv /\ FedInv

\* The flags, for every step.
LEMMA FlagsStep ==
  ASSUME Flags, [Next]_vars
  PROVE Flags'
<1> USE DEF Flags
<1>1. CASE NewTick \/ onHello \/ onTick \/ Loaded \/ Accept \/ Drop \/ UNCHANGED vars
  <2>1. UNCHANGED <<ready, blind, closeTimer, reopenTimer>>
    BY <1>1 DEF NewTick, onHello, onTick, Loaded, Accept, Drop, vars, serverVars, timers
  <2> QED BY <2>1
<1>2. CASE Backfill
  <2>1. ready' = TRUE /\ UNCHANGED <<closeTimer, reopenTimer>> /\ blind' \in BOOLEAN
    BY <1>2 DEF Backfill, timers
  <2> QED BY <2>1
<1>3. CASE Restart
  BY <1>3 DEF Restart, timers
<1>4. CASE Answer
  <2>1. ready' = ready /\ UNCHANGED <<closeTimer, reopenTimer>> /\ blind' \in BOOLEAN
    BY <1>4 DEF Answer, timers, serverVars
  <2> QED BY <2>1
<1>5. CASE LoadFails
  BY <1>5 DEF LoadFails, timers, serverVars
<1>6. CASE Refused
  BY <1>6 DEF Refused, serverVars
<1>7. CASE ReopenFires
  BY <1>7 DEF ReopenFires, serverVars
<1>8. CASE acquire
  BY <1>8 DEF acquire, serverVars
<1>9. CASE release
  <2>1. closeTimer' \in BOOLEAN /\ ready' = ready /\ blind' = blind /\ reopenTimer' = reopenTimer
    BY <1>9 DEF release, serverVars
  <2> QED BY <2>1
<1>10. CASE close
  BY <1>10 DEF close, serverVars
<1> QED BY <1>1, <1>2, <1>3, <1>4, <1>5, <1>6, <1>7, <1>8, <1>9, <1>10 DEF Next

\* The EventSource and its timers, for every step.
LEMMA TimerStep ==
  ASSUME TimerInv, Flags, [Next]_vars
  PROVE TimerInv'
<1> USE DEF TimerInv, Lifecycle
<1>0. MaxUsers \in Nat
  BY Positive
<1>1. CASE Refused
  BY <1>0, <1>1, SMTT(30) DEF Refused
<1>2. CASE ReopenFires
  <2>1. reopenTimer /\ reopenTimer' = FALSE /\ mounted' = mounted /\ closeTimer' = closeTimer
    BY <1>2 DEF ReopenFires
  <2>2. CASE mounted > 0 /\ es = "none"
    <3>1. es' = "connecting" /\ openEs' = openEs + 1
      BY <1>2, <2>2 DEF ReopenFires, Open
    <3> QED BY <1>0, <2>1, <2>2, <3>1, SMTT(30)
  <2>3. CASE ~(mounted > 0 /\ es = "none")
    <3>1. es' = es /\ openEs' = openEs
      BY <1>2, <2>3 DEF ReopenFires
    <3> QED BY <1>0, <2>1, <2>3, <3>1
  <2> QED BY <2>2, <2>3
<1>3. CASE acquire
  <2>1. /\ mounted < MaxUsers /\ mounted' = mounted + 1
        /\ closeTimer' = FALSE /\ reopenTimer' = reopenTimer
    BY <1>3 DEF acquire
  <2>2. CASE mounted = 0 /\ es = "none"
    <3>1. es' = "connecting" /\ openEs' = openEs + 1
      BY <1>3, <2>2 DEF acquire, Open
    <3> QED BY <1>0, <2>1, <2>2, <3>1, SMTT(30)
  <2>3. CASE ~(mounted = 0 /\ es = "none")
    <3>1. es' = es /\ openEs' = openEs
      BY <1>3, <2>3 DEF acquire
    <3> QED BY <1>0, <2>1, <2>3, <3>1, SMTT(30)
  <2> QED BY <2>2, <2>3
<1>4. CASE release
  <2>1. /\ mounted > 0 /\ mounted' = mounted - 1 /\ closeTimer' = (closeTimer \/ mounted = 1)
        /\ reopenTimer' = reopenTimer /\ es' = es /\ openEs' = openEs
    BY <1>4 DEF release
  <2>2. closeTimer = FALSE
    BY <1>0, <2>1, SMTT(30) DEF Flags
  <2>3. CASE mounted = 1
    <3>1. closeTimer' = TRUE
      BY <2>1, <2>3
    <3> QED BY <1>0, <2>1, <2>3, <3>1, SMTT(30)
  <2>4. CASE mounted # 1
    <3>1. closeTimer' = FALSE
      BY <2>1, <2>2, <2>4
    <3> QED BY <1>0, <2>1, <2>4, <3>1, SMTT(30)
  <2> QED BY <2>3, <2>4
<1>5. CASE close
  <2>1. /\ closeTimer /\ closeTimer' = FALSE /\ es' = "none"
        /\ openEs' = IF es = "none" THEN openEs ELSE openEs - 1
        /\ mounted' = mounted /\ reopenTimer' = reopenTimer
    BY <1>5 DEF close
  <2>2. openEs' = 0 /\ mounted = 0
    BY <2>1, SMTT(30)
  <2> QED BY <1>0, <2>1, <2>2, SMTT(30)
<1>6. CASE Restart \/ Accept \/ Drop
  BY <1>0, <1>6, SMTT(30) DEF Restart, Accept, Drop, timers
<1>7. CASE UNCHANGED <<mounted, es, openEs, timers>>
  BY <1>7 DEF timers
<1>8. CASE NewTick \/ Backfill \/ Answer \/ onHello \/ onTick \/ Loaded \/ LoadFails \/ UNCHANGED vars
  <2>1. UNCHANGED <<mounted, es, openEs, timers>>
    BY <1>8 DEF NewTick, Backfill, Answer, onHello, onTick, Loaded, LoadFails, vars
  <2> QED BY <1>7, <2>1
<1> QED BY <1>1, <1>2, <1>3, <1>4, <1>5, <1>6, <1>8 DEF Next

-----------------------------------------------------------------------------
(* The steps of the server.                                                 *)

Data == DataType /\ WireInv /\ BufferInv /\ FedInv

\* The numbers of the state.
LEMMA Numbers ==
  ASSUME Data
  PROVE /\ newest \in Nat /\ newest <= MaxTick /\ MaxTick \in Nat
        /\ Top(tabTicks) \in Nat /\ Top(series) \in Nat /\ Rising(series)
<1>1. newest \in Nat /\ newest <= MaxTick /\ MaxTick \in Nat
  BY Positive, SMTT(30) DEF Data, DataType
<1>2. Rising(series) /\ Rising(tabTicks) /\ series \in Seq(Tick) /\ tabTicks \in Seq(Tick)
  BY ConsecutiveRises DEF Data, DataType, BufferInv
<1> QED BY <1>1, <1>2, TopIsTop

\* A step of the EventSource or a timer that leaves the connection open, or not
\* open, as it was.
LEMMA EsStep ==
  ASSUME Data, UNCHANGED <<newest, ready, sse, loadReq, series, tabTicks, pending, blind>>,
         es' = es \/ (es # "open" /\ es' # "open")
  PROVE Data'
<1>1. DataType' /\ BufferInv'
  BY DEF Data, DataType, BufferInv
<1>2. WireInv'
  BY DEF Data, WireInv
<1>3. FedInv'
  BY DEF Data, FedInv
<1> QED BY <1>1, <1>2, <1>3 DEF Data

\* A connection that is no more.
LEMMA Disconnected ==
  ASSUME Data, UNCHANGED <<newest, loadReq, series, tabTicks, pending, blind>>,
         es' # "open", sse' = << >>
  PROVE Data'
<1>1. DataType'
  BY NothingSent DEF Data, DataType
<1>2. WireInv'
  BY NothingSent DEF WireInv
<1>3. BufferInv'
  BY NothingSent DEF Data, BufferInv
<1>4. FedInv'
  BY DEF Data, FedInv
<1> QED BY <1>1, <1>2, <1>3, <1>4 DEF Data

\* A connection that is accepted: hello tells the newest tick.
LEMMA AcceptStep ==
  ASSUME Data, Flags, Accept
  PROVE Data'
<1> DEFINE h == IF ready THEN newest ELSE 0
<1>1. /\ UNCHANGED <<newest, ready, loadReq, series, tabTicks, pending, blind>>
      /\ es' = "open" /\ sse' = <<Hello(h)>>
  BY DEF Accept, serverVars, request
<1>2. newest \in Nat /\ MaxTick \in Nat /\ newest <= MaxTick
  BY Numbers
<1>3. h \in 0..MaxTick /\ h \in Nat /\ h <= newest /\ (ready => h = newest)
  BY <1>2, SMTT(30)
<1> HIDE DEF h
<1>4. /\ sse' \in Seq(Message) /\ WireOK(sse', newest) /\ ~Greeted(sse') /\ sse'[1].ts = h
      /\ EventTimes(sse') = {}
  BY <1>1, <1>2, <1>3, HelloSent
<1>5. DataType'
  BY <1>1, <1>4 DEF Data, DataType
<1>6. WireInv'
  BY <1>1, <1>4 DEF WireInv
<1>7. BufferInv'
  BY <1>1, <1>4 DEF Data, BufferInv
<1>8. FedInv'
  <2>1. ready => Complete(sse'[1].ts, newest, EventTimes(sse'))
    BY <1>2, <1>3, <1>4, SMTT(30) DEF Complete
  <2> QED BY <1>1, <1>4, <2>1 DEF Data, FedInv
<1> QED BY <1>5, <1>6, <1>7, <1>8 DEF Data

\* A tick that is sent completes what was complete before it.
LEMMA CompleteNext ==
  ASSUME NEW from \in Nat, NEW n \in Nat, NEW S, NEW T, Complete(from, n, S), S \subseteq T, n + 1 \in T
  PROVE Complete(from, n + 1, T)
<1>1. ASSUME NEW m \in from + 1..n + 1 PROVE m \in T
  <2>1. CASE m = n + 1
    BY <2>1
  <2>2. CASE m # n + 1
    <3>1. m \in from + 1..n
      BY <2>2, SMTT(30)
    <3> QED BY <3>1 DEF Complete
  <2> QED BY <2>1, <2>2
<1> QED BY <1>1 DEF Complete

\* A new tick of the stream.
LEMMA NewTickStep ==
  ASSUME Data, Flags, NewTick
  PROVE Data'
<1>1. /\ UNCHANGED <<ready, es, loadReq, series, tabTicks, pending, blind>>
      /\ newest' = newest + 1 /\ newest < MaxTick
      /\ sse' = IF ready /\ es = "open" THEN Append(sse, Event(newest + 1)) ELSE sse
  BY DEF NewTick, request
<1>2. newest \in Nat /\ MaxTick \in Nat /\ Top(tabTicks) \in Nat /\ Top(series) \in Nat
  BY Numbers
<1>3. newest \in 0..MaxTick /\ newest + 1 \in 0..MaxTick /\ newest <= newest + 1
  BY <1>1, <1>2, SMTT(30)
<1>4. sse \in Seq(Message) /\ WireOK(sse, newest)
  BY DEF Data, DataType, WireInv
<1>5. CASE ready /\ es = "open"
  <2>1. /\ sse' \in Seq(Message) /\ WireOK(sse', newest')
        /\ EventTimes(sse') = EventTimes(sse) \cup {newest + 1}
        /\ sse' # << >> /\ (sse # << >> => sse'[1] = sse[1])
        /\ sse = << >> => Greeted(sse')
    BY <1>1, <1>3, <1>4, <1>5, EventSent
  <2>2. Greeted(sse') <=> Greeted(sse)
    BY <2>1 DEF Greeted
  <2>3. DataType'
    BY <1>1, <1>3, <2>1 DEF Data, DataType
  <2>4. WireInv'
    BY <1>1, <1>5, <2>1 DEF WireInv
  <2>5. BufferInv'
    <3>1. Top(tabTicks) <= newest + 1 /\ Top(series) <= newest + 1
      BY <1>2, SMTT(30) DEF Data, BufferInv
    <3>2. ASSUME NEW m \in Held(pending)
          PROVE m <= newest + 1 /\ \A e \in EventTimes(sse') : m < e
      <4>1. m \in Nat
        <5>1. pending # None /\ pending \in Seq(Tick)
          BY DEF Held, Data, DataType
        <5> QED BY <5>1, TickAt DEF Held, Times
      <4>2. m <= newest /\ \A e \in EventTimes(sse) : m < e
        BY DEF Data, BufferInv
      <4> QED BY <1>2, <2>1, <4>1, <4>2, SMTT(30)
    <3> QED BY <1>1, <1>2, <3>1, <3>2, SMTT(30) DEF Data, BufferInv
  <2>6. FedInv'
    <3>0. /\ EventTimes(sse) \subseteq EventTimes(sse') /\ newest + 1 \in EventTimes(sse')
          /\ Held(pending) \cup EventTimes(sse) \subseteq Held(pending) \cup EventTimes(sse')
          /\ newest + 1 \in Held(pending) \cup EventTimes(sse')
      BY <2>1
    <3>1. ASSUME ~blind PROVE
             /\ ~Greeted(sse) => Complete(sse[1].ts, newest + 1, EventTimes(sse'))
             /\ Greeted(sse) /\ loadReq = "none" => Complete(Top(tabTicks), newest + 1, EventTimes(sse'))
             /\ Greeted(sse) /\ loadReq = "answered" =>
                  Complete(Top(series), newest + 1, Held(pending) \cup EventTimes(sse'))
      <4>1. ~Greeted(sse) => Complete(sse[1].ts, newest + 1, EventTimes(sse'))
        <5>1. SUFFICES ASSUME ~Greeted(sse) PROVE Complete(sse[1].ts, newest + 1, EventTimes(sse'))
          OBVIOUS
        <5>2. sse[1].ts \in Nat
          BY <1>4, <5>1, MessageAt, SMTT(30) DEF Greeted
        <5>3. Complete(sse[1].ts, newest, EventTimes(sse))
          BY <1>5, <3>1, <5>1 DEF Data, FedInv
        <5> QED BY <1>2, <3>0, <5>2, <5>3, CompleteNext
      <4>2. Greeted(sse) /\ loadReq = "none" => Complete(Top(tabTicks), newest + 1, EventTimes(sse'))
        <5>1. SUFFICES ASSUME Greeted(sse), loadReq = "none"
                       PROVE Complete(Top(tabTicks), newest + 1, EventTimes(sse'))
          OBVIOUS
        <5>2. Complete(Top(tabTicks), newest, EventTimes(sse))
          BY <1>5, <3>1, <5>1 DEF Data, FedInv
        <5> QED BY <1>2, <3>0, <5>2, CompleteNext
      <4>3. Greeted(sse) /\ loadReq = "answered" =>
              Complete(Top(series), newest + 1, Held(pending) \cup EventTimes(sse'))
        <5>1. SUFFICES ASSUME Greeted(sse), loadReq = "answered"
                       PROVE Complete(Top(series), newest + 1, Held(pending) \cup EventTimes(sse'))
          OBVIOUS
        <5>2. Complete(Top(series), newest, Held(pending) \cup EventTimes(sse))
          BY <1>5, <3>1, <5>1 DEF Data, FedInv
        <5> QED BY <1>2, <3>0, <5>2, CompleteNext
      <4> QED BY <4>1, <4>2, <4>3
    <3>2. ~Greeted(sse) => sse'[1] = sse[1]
      BY <2>1 DEF Greeted
    <3> QED BY <1>1, <1>5, <2>2, <3>1, <3>2 DEF Data, FedInv
  <2> QED BY <2>3, <2>4, <2>5, <2>6 DEF Data
<1>6. CASE ~(ready /\ es = "open")
  <2>1. sse' = sse
    BY <1>1, <1>6
  <2>2. DataType'
    BY <1>1, <1>3, <2>1 DEF Data, DataType
  <2>3. WireOK(sse, newest + 1)
    <3>1. \A k \in DOMAIN sse : sse[k].ts \in Nat
      BY <1>4, MessageAt
    <3> QED BY <1>2, <1>4, <3>1, SMTT(30) DEF WireOK
  <2>4. WireInv'
    BY <1>1, <2>1, <2>3 DEF Data, WireInv
  <2>5. BufferInv'
    <3>1. Top(tabTicks) <= newest + 1 /\ Top(series) <= newest + 1
      BY <1>2, SMTT(30) DEF Data, BufferInv
    <3>2. ASSUME NEW m \in Held(pending)
          PROVE m <= newest + 1 /\ \A e \in EventTimes(sse) : m < e
      <4>1. m \in Nat
        <5>1. pending # None /\ pending \in Seq(Tick)
          BY DEF Held, Data, DataType
        <5> QED BY <5>1, TickAt DEF Held, Times
      <4>2. m <= newest /\ \A e \in EventTimes(sse) : m < e
        BY DEF Data, BufferInv
      <4> QED BY <1>2, <4>1, <4>2, SMTT(30)
    <3> QED BY <1>1, <1>2, <2>1, <3>1, <3>2, SMTT(30) DEF Data, BufferInv
  <2>6. FedInv'
    BY <1>1, <1>6 DEF Data, FedInv
  <2> QED BY <2>2, <2>4, <2>5, <2>6 DEF Data
<1> QED BY <1>5, <1>6

\* The backfill: a tab that is connected meanwhile sees nothing of it.
LEMMA BackfillStep ==
  ASSUME Data, Flags, Backfill
  PROVE Data'
<1>1. /\ UNCHANGED <<newest, sse, es, loadReq, series, tabTicks, pending>> /\ ready' = TRUE
      /\ blind' = (blind \/ (es = "open" /\ newest > 0)) /\ ~ready
  BY DEF Backfill, request
<1>2. DataType' /\ BufferInv'
  BY <1>1 DEF Data, DataType, BufferInv
<1>3. WireInv'
  BY <1>1 DEF Data, WireInv
<1>4. FedInv'
  <2>1. newest \in Nat /\ Top(tabTicks) \in Nat /\ Top(series) \in Nat /\ sse \in Seq(Message)
    BY Numbers DEF Data, DataType
  <2>2. ~Greeted(sse) => sse[1].ts \in Nat
    BY <2>1, MessageAt, SMTT(30) DEF Greeted
  <2>3. ~blind' => ~blind /\ (es # "open" \/ newest = 0)
    <3>1. ~blind' => ~blind /\ ~(es = "open" /\ newest > 0)
      BY <1>1 DEF Flags
    <3> QED BY <2>1, <3>1, SMTT(30)
  <2>4. \A from \in Nat : \A S : newest = 0 => Complete(from, newest, S)
    BY SMTT(30) DEF Complete
  <2> QED BY <1>1, <2>1, <2>2, <2>3, <2>4 DEF Data, FedInv
<1> QED BY <1>2, <1>3, <1>4 DEF Data

\* hub.series: no tick is missing, and the last one is the newest.
LEMMA SeriesGood ==
  ASSUME newest \in 0..MaxTick
  PROVE /\ Series \in Seq(Tick) /\ Consecutive(Series) /\ Top(Series) \in Nat /\ Top(Series) <= newest
        /\ ready /\ newest > 0 => Series # << >> /\ Top(Series) = newest
<1>1. newest \in Nat /\ MaxTick \in Nat /\ newest <= MaxTick /\ ServerCap \in Nat /\ ServerCap > 0
  BY Positive, SMTT(30)
<1> DEFINE lo == IF newest > ServerCap THEN newest - ServerCap ELSE 0
           l == newest - lo
           s == [k \in 1..l |-> [ts |-> lo + k, gap |-> FALSE]]
<1>2. lo \in Nat /\ l \in Nat /\ lo + l = newest /\ (newest > 0 => l > 0)
  BY <1>1, SMTT(30)
<1>3. Series = IF ready THEN s ELSE << >>
  BY DEF Series
<1>4. CASE ~ready
  <2>1. Series = << >>
    BY <1>3, <1>4
  <2> QED BY <1>1, <1>4, <2>1, EmptyBuffer, SMTT(30)
<1>5. CASE ready
  <2> HIDE DEF lo, l
  <2>1. \A k \in 1..l : [ts |-> lo + k, gap |-> FALSE] \in Tick
    <3>1. \A k \in 1..l : lo + k \in 1..MaxTick
      BY <1>1, <1>2, SMTT(30)
    <3> QED BY <3>1 DEF Tick
  <2>2. s \in Seq(Tick) /\ Len(s) = l /\ DOMAIN s = 1..l
    BY <1>2, <2>1, SMTT(30)
  <2>3. \A k \in 1..l : s[k].ts = lo + k
    OBVIOUS
  <2> HIDE DEF s
  <2>4. Consecutive(s)
    <3>1. ASSUME NEW k \in DOMAIN s PROVE s[k].ts = s[1].ts + (k - 1)
      <4>1. k \in 1..l /\ 1 \in 1..l
        BY <1>2, <2>2, SMTT(30)
      <4> QED BY <1>2, <2>3, <4>1, SMTT(30)
    <3> QED BY <3>1 DEF Consecutive
  <2>5. CASE l = 0
    <3>1. s = << >>
      BY <2>2, <2>5, SMTT(30)
    <3> QED BY <1>1, <1>2, <1>3, <1>5, <2>5, <3>1, EmptyBuffer, SMTT(30)
  <2>6. CASE l # 0
    <3>1. s # << >> /\ l \in 1..l
      BY <1>2, <2>2, <2>6, SMTT(30)
    <3>2. Top(s) = newest
      BY <1>2, <2>2, <2>3, <3>1 DEF Top
    <3> QED BY <1>1, <1>3, <1>5, <2>2, <2>4, <3>1, <3>2, SMTT(30)
  <2> QED BY <2>5, <2>6
<1> QED BY <1>4, <1>5

\* The request is answered.
LEMMA AnswerStep ==
  ASSUME Data, Flags, Answer
  PROVE Data'
<1>1. /\ UNCHANGED <<newest, ready, sse, es, tabTicks, pending>>
      /\ loadReq = "sent" /\ loadReq' = "answered" /\ series' = Series /\ blind' = (blind \/ ~ready)
  BY DEF Answer, serverVars
<1>2. newest \in Nat /\ newest \in 0..MaxTick /\ newest > 0
  BY <1>1, Numbers DEF Data, DataType, BufferInv
<1>3. /\ series' \in Seq(Tick) /\ Consecutive(series') /\ Top(series') \in Nat /\ Top(series') <= newest
      /\ ready => series' # << >> /\ Top(series') = newest
  BY <1>1, <1>2, SeriesGood
<1>4. pending \in Seq(Tick)
  BY <1>1 DEF Data, DataType
<1>5. DataType'
  BY <1>1, <1>3, <1>4 DEF Data, DataType
<1>6. WireInv'
  BY <1>1 DEF Data, WireInv
<1>7. BufferInv'
  BY <1>1, <1>2, <1>3 DEF Data, BufferInv
<1>8. FedInv'
  <2>1. ~blind' => ~blind /\ ready
    BY <1>1 DEF Flags
  <2>2. ASSUME NEW m \in Held(pending) PROVE m \in Nat /\ m <= newest
    <3>1. m \in Nat
      BY <1>4, TickAt DEF Held, Times
    <3> QED BY <3>1 DEF Data, BufferInv
  <2>3. ready => \A m \in Held(pending) : ~(m > Top(series') + 1)
    BY <1>2, <1>3, <2>2, SMTT(30)
  <2>4. ready => \A S : Complete(Top(series'), newest, S)
    BY <1>2, <1>3, SMTT(30) DEF Complete
  <2>5. Top(tabTicks) <= newest
    BY DEF Data, BufferInv
  <2> QED BY <1>1, <1>3, <2>1, <2>3, <2>4, <2>5 DEF Data, FedInv
<1> QED BY <1>5, <1>6, <1>7, <1>8 DEF Data

-----------------------------------------------------------------------------
(* The steps of the tab.                                                    *)

\* What waits for the series.
LEMMA HeldAt ==
  ASSUME Data
  PROVE \A m \in Held(pending) : m \in Nat /\ m <= newest /\ \A e \in EventTimes(sse) : m < e
<1>1. ASSUME NEW m \in Held(pending) PROVE m \in Nat
  <2>1. pending # None /\ pending \in Seq(Tick)
    BY DEF Held, Data, DataType
  <2> QED BY <2>1, TickAt DEF Held, Times
<1> QED BY <1>1 DEF Data, BufferInv

\* hello: either a new request is made, or what hello tells is at hand already.
LEMMA HelloStep ==
  ASSUME Data, Flags, onHello
  PROVE Data'
<1> DEFINE h == sse[1].ts
<1>1. /\ UNCHANGED <<newest, ready, es, tabTicks, blind>>
      /\ es = "open" /\ sse # << >> /\ Head(sse).hello /\ sse' = Tail(sse)
  BY DEF onHello, serverVars
<1>2. newest \in Nat /\ Top(tabTicks) \in Nat /\ Top(series) \in Nat
  BY Numbers
<1>3. sse \in Seq(Message) /\ WireOK(sse, newest)
  BY DEF Data, DataType, WireInv
<1>4. TailOK(sse', sse, newest) /\ Head(sse) = sse[1]
  BY <1>1, <1>2, <1>3, MessageTaken
<1>5. sse' \in Seq(Message) /\ WireOK(sse', newest) /\ Greeted(sse') /\ EventTimes(sse') = EventTimes(sse)
  BY <1>1, <1>4 DEF TailOK
<1>6. h \in Nat /\ h <= newest /\ ~Greeted(sse)
  <2>1. 1 \in DOMAIN sse /\ h \in Nat
    BY <1>1, <1>3, MessageAt, SMTT(30)
  <2>2. h <= newest
    BY <1>3, <2>1 DEF WireOK
  <2> QED BY <1>1, <1>4, <2>1, <2>2 DEF Greeted
<1>7. LastTs = Top(tabTicks)
  BY DEF LastTs, Top
<1>8. WireInv'
  BY <1>1, <1>5 DEF Data, WireInv
<1> HIDE DEF h
<1>9. CASE h # 0 /\ h # LastTs
  <2>1. loadReq' = "sent" /\ series' = << >> /\ pending' = << >>
    BY <1>4, <1>9 DEF onHello, h
  <2>2. << >> # None
    BY EmptyBuffer, LiveStoreAssumption
  <2>3. DataType'
    BY <1>1, <1>5, <2>1, EmptyBuffer DEF Data, DataType
  <2>4. BufferInv'
    <3>1. Held(pending') = {}
      BY <2>1, <2>2, EmptyBuffer DEF Held
    <3> QED BY <1>1, <1>2, <1>6, <1>9, <2>1, <3>1, EmptyBuffer, SMTT(30) DEF Data, BufferInv
  <2>5. FedInv'
    BY <1>1, <1>5, <2>1 DEF Data, FedInv
  <2> QED BY <1>8, <2>3, <2>4, <2>5 DEF Data
<1>10. CASE ~(h # 0 /\ h # LastTs)
  <2>1. UNCHANGED <<loadReq, series, pending>>
    BY <1>4, <1>10 DEF onHello, h, request
  <2>2. DataType'
    BY <1>1, <1>5, <2>1 DEF Data, DataType
  <2>3. BufferInv'
    BY <1>1, <1>5, <2>1 DEF Data, BufferInv
  <2>4. FedInv'
    <3>1. h <= Top(tabTicks)
      BY <1>2, <1>7, <1>10, SMTT(30)
    <3>2. ASSUME ~blind, ready PROVE
            /\ Complete(Top(tabTicks), newest, EventTimes(sse'))
            /\ loadReq = "answered" => Complete(Top(series), newest, Held(pending) \cup EventTimes(sse'))
      <4>1. Complete(h, newest, EventTimes(sse'))
        BY <1>1, <1>5, <1>6, <3>2 DEF Data, FedInv, h
      <4>2. Complete(Top(tabTicks), newest, EventTimes(sse'))
        <5>1. \A m \in Top(tabTicks) + 1..newest : m \in h + 1..newest
          BY <1>2, <1>6, <3>1, SMTT(30)
        <5> QED BY <4>1, <5>1 DEF Complete
      <4>3. ASSUME loadReq = "answered"
            PROVE Complete(Top(series), newest, Held(pending) \cup EventTimes(sse'))
        <5>1. Top(tabTicks) <= Top(series)
          BY <3>2, <4>3 DEF Data, FedInv
        <5>2. \A m \in Top(series) + 1..newest : m \in Top(tabTicks) + 1..newest
          BY <1>2, <5>1, SMTT(30)
        <5> QED BY <4>2, <5>2 DEF Complete
      <4> QED BY <4>2, <4>3
    <3> QED BY <1>1, <1>5, <2>1, <3>2 DEF Data, FedInv
  <2> QED BY <1>8, <2>2, <2>3, <2>4 DEF Data
<1> QED BY <1>9, <1>10

\* A tick event: it waits for the series, or follows the buffer's last tick.
LEMMA TickStep ==
  ASSUME Data, Flags, onTick
  PROVE Data'
<1> DEFINE n == sse[1].ts
           t == [ts |-> n, gap |-> FALSE]
<1>1. /\ UNCHANGED <<newest, ready, es, loadReq, series, blind>>
      /\ es = "open" /\ sse # << >> /\ ~Head(sse).hello /\ sse' = Tail(sse)
  BY DEF onTick, serverVars, request
<1>2. newest \in Nat /\ Top(tabTicks) \in Nat /\ Top(series) \in Nat /\ MaxTick \in Nat /\ newest <= MaxTick
  BY Numbers
<1>3. sse \in Seq(Message) /\ WireOK(sse, newest)
  BY DEF Data, DataType, WireInv
<1>4. TailOK(sse', sse, newest) /\ Head(sse) = sse[1]
  BY <1>1, <1>2, <1>3, MessageTaken
<1>5. /\ sse' \in Seq(Message) /\ WireOK(sse', newest) /\ Greeted(sse')
      /\ EventTimes(sse) = EventTimes(sse') \cup {n}
      /\ \A m \in EventTimes(sse') : n < m
  BY <1>1, <1>4 DEF TailOK
<1>6. n \in Nat /\ n <= newest /\ n > 0 /\ Greeted(sse) /\ n \in EventTimes(sse)
  <2>1. 1 \in DOMAIN sse /\ n \in Nat
    BY <1>1, <1>3, MessageAt, SMTT(30)
  <2>2. n <= newest /\ n > 0
    BY <1>1, <1>3, <1>4, <2>1 DEF WireOK
  <2>3. Greeted(sse)
    BY <1>1, <1>4 DEF Greeted
  <2> QED BY <1>5, <2>1, <2>2, <2>3
<1>7. ready
  BY <1>1, <1>6 DEF Data, WireInv
<1>8. t \in Tick /\ t.ts = n
  <2>1. n \in 1..MaxTick
    BY <1>2, <1>6, SMTT(30)
  <2> QED BY <2>1 DEF Tick
<1>9. WireInv'
  BY <1>1, <1>5, <1>7 DEF WireInv
<1>10. IF pending # None THEN pending' = Append(pending, t) /\ tabTicks' = tabTicks
       ELSE tabTicks' = append(tabTicks, <<t>>) /\ pending' = pending
  <2>1. t = [ts |-> Head(sse).ts, gap |-> FALSE]
    BY <1>4
  <2> HIDE DEF t
  <2> QED BY <2>1 DEF onTick
<1> HIDE DEF n, t
<1>11. CASE pending # None
  <2>1. pending' = Append(pending, t) /\ tabTicks' = tabTicks
    BY <1>10, <1>11
  <2>2. pending \in Seq(Tick) /\ Rising(pending) /\ loadReq # "none"
    BY <1>11 DEF Data, DataType, BufferInv
  <2>3. Held(pending) = Times(pending)
    BY <1>11 DEF Held
  <2>4. \A m \in Times(pending) : m \in Nat /\ m < n
    BY <1>6, <2>3, HeldAt
  <2>5. pending' \in Seq(Tick) /\ Rising(pending') /\ Times(pending') = Times(pending) \cup {n}
    BY <1>8, <2>1, <2>2, <2>4, Postponed
  <2>6. pending' # None /\ Held(pending') = Held(pending) \cup {n}
    BY <2>3, <2>5, LiveStoreAssumption DEF Held
  <2>7. DataType'
    BY <1>1, <1>5, <2>1, <2>2, <2>5 DEF Data, DataType
  <2>8. BufferInv'
    <3>1. ASSUME NEW m \in Held(pending') PROVE m <= newest /\ \A e \in EventTimes(sse') : m < e
      BY <1>5, <1>6, <2>6, HeldAt
    <3> QED BY <1>1, <2>1, <2>5, <2>6, <3>1 DEF Data, BufferInv
  <2>9. FedInv'
    <3>1. ASSUME ~blind, loadReq = "answered"
          PROVE /\ \A m \in Held(pending') : m > Top(series) + 1 => m - 1 \in Held(pending')
                /\ Complete(Top(series), newest, Held(pending') \cup EventTimes(sse'))
      <4>1. Complete(Top(series), newest, Held(pending) \cup EventTimes(sse))
        BY <1>1, <1>6, <1>7, <3>1 DEF Data, FedInv
      <4>2. \A m \in Held(pending) : m > Top(series) + 1 => m - 1 \in Held(pending)
        BY <3>1 DEF Data, FedInv
      <4>3. ASSUME n > Top(series) + 1 PROVE n - 1 \in Held(pending)
        <5>1. n - 1 \in Top(series) + 1..newest
          BY <1>2, <1>6, <4>3, SMTT(30)
        <5>2. n - 1 \in Held(pending) \/ n - 1 \in EventTimes(sse') \/ n - 1 = n
          BY <1>5, <4>1, <5>1 DEF Complete
        <5>3. n - 1 \in EventTimes(sse') => n < n - 1
          BY <1>5
        <5> QED BY <1>6, <5>2, <5>3, SMTT(30)
      <4>4. Complete(Top(series), newest, Held(pending') \cup EventTimes(sse'))
        BY <1>5, <2>6, <4>1 DEF Complete
      <4> QED BY <2>6, <4>2, <4>3, <4>4
    <3> QED BY <1>1, <1>5, <2>1, <2>2, <3>1 DEF Data, FedInv
  <2> QED BY <1>9, <2>7, <2>8, <2>9 DEF Data
<1>12. CASE pending = None
  <2>1. tabTicks' = append(tabTicks, <<t>>) /\ pending' = pending
    BY <1>10, <1>12
  <2>2. loadReq = "none" /\ tabTicks \in Seq(Tick) /\ Rising(tabTicks) /\ Top(tabTicks) <= newest
    BY <1>12, LiveStoreAssumption DEF Data, DataType, BufferInv
  <2>3. /\ <<t>> \in Seq(Tick) /\ Rising(<<t>>) /\ Top(<<t>>) = n
        /\ n <= Top(tabTicks) + 1 => Steady(tabTicks, <<t>>)
    BY <1>2, <1>8, Single
  <2>4. AppendOK(tabTicks', tabTicks, <<t>>)
    BY <2>1, <2>2, <2>3, AppendGood
  <2>5. /\ tabTicks' \in Seq(Tick) /\ Len(tabTicks') <= Capacity
        /\ Rising(tabTicks') /\ Top(tabTicks') = Greater(Top(tabTicks), n)
        /\ NoHole(tabTicks) /\ n <= Top(tabTicks) + 1 => NoHole(tabTicks')
    BY <2>3, <2>4 DEF AppendOK
  <2>6. /\ Top(tabTicks') \in Nat /\ Top(tabTicks') <= newest
        /\ Top(tabTicks) <= Top(tabTicks') /\ n <= Top(tabTicks')
    BY <1>2, <1>6, <2>2, <2>5, SMTT(30) DEF Greater
  <2>7. DataType'
    BY <1>1, <1>5, <2>1, <2>5 DEF Data, DataType
  <2>8. BufferInv'
    <3>1. Held(pending) = {}
      BY <1>12 DEF Held
    <3> QED BY <1>1, <1>12, <2>1, <2>2, <2>5, <2>6, <3>1 DEF Data, BufferInv
  <2>9. FedInv'
    <3>1. ASSUME ~blind PROVE NoHole(tabTicks') /\ Complete(Top(tabTicks'), newest, EventTimes(sse'))
      <4>1. NoHole(tabTicks) /\ Complete(Top(tabTicks), newest, EventTimes(sse))
        BY <1>1, <1>6, <1>7, <2>2, <3>1 DEF Data, FedInv
      <4>2. n <= Top(tabTicks) + 1
        <5>1. SUFFICES ASSUME n > Top(tabTicks) + 1 PROVE FALSE
          BY <1>2, <1>6, SMTT(30)
        <5>2. Top(tabTicks) + 1 \in Top(tabTicks) + 1..newest
          BY <1>2, <1>6, <5>1, SMTT(30)
        <5>3. Top(tabTicks) + 1 \in EventTimes(sse') \/ Top(tabTicks) + 1 = n
          BY <1>5, <4>1, <5>2 DEF Complete
        <5>4. Top(tabTicks) + 1 \in EventTimes(sse') => n < Top(tabTicks) + 1
          BY <1>5
        <5> QED BY <1>2, <1>6, <5>1, <5>3, <5>4, SMTT(30)
      <4>3. ASSUME NEW m \in Top(tabTicks') + 1..newest PROVE m \in EventTimes(sse')
        <5>1. m \in Top(tabTicks) + 1..newest /\ m # n
          BY <1>2, <1>6, <2>6, SMTT(30)
        <5> QED BY <1>5, <4>1, <5>1 DEF Complete
      <4> QED BY <2>5, <4>1, <4>2, <4>3 DEF Complete
    <3> QED BY <1>1, <1>5, <2>1, <2>2, <3>1 DEF FedInv
  <2> QED BY <1>9, <2>7, <2>8, <2>9 DEF Data
<1> QED BY <1>11, <1>12

\* The series arrives: the pending ticks continue it, so nothing is missing
\* after it that is not on its way.
LEMMA LoadedStep ==
  ASSUME Data, Flags, Loaded
  PROVE Data'
<1>1. /\ UNCHANGED <<newest, ready, sse, es, blind>>
      /\ loadReq = "answered" /\ tabTicks' = append(merge, pending)
      /\ loadReq' = "none" /\ series' = << >> /\ pending' = None
  BY DEF Loaded, serverVars
<1>2. newest \in Nat /\ Top(tabTicks) \in Nat /\ Top(series) \in Nat /\ Rising(series)
  BY Numbers
<1>3. /\ series \in Seq(Tick) /\ Consecutive(series) /\ Top(series) <= newest
      /\ tabTicks \in Seq(Tick) /\ Rising(tabTicks) /\ Top(tabTicks) <= newest
      /\ pending \in Seq(Tick) /\ Rising(pending) /\ pending # None
  BY <1>1, LiveStoreAssumption DEF Data, DataType, BufferInv
<1>4. /\ merge \in Seq(Tick) /\ Rising(merge) /\ Top(merge) \in Nat /\ Top(merge) <= newest
      /\ series # << >> => Top(merge) = Top(series)
      /\ series # << >> /\ NoHole(tabTicks) => NoHole(merge)
  <2>1. CASE series = << >>
    <3>1. merge = tabTicks
      BY <2>1 DEF merge
    <3> QED BY <1>2, <1>3, <2>1, <3>1
  <2>2. CASE series # << >>
    <3>1. /\ merge \in Seq(Tick) /\ Rising(merge) /\ Top(merge) = Top(series)
          /\ NoHole(tabTicks) => NoHole(merge)
      BY <1>3, <2>2, MergeGood
    <3> QED BY <1>2, <1>3, <3>1
  <2> QED BY <2>1, <2>2
<1>5. AppendOK(tabTicks', merge, pending)
  BY <1>1, <1>3, <1>4, AppendGood
<1>6. /\ tabTicks' \in Seq(Tick) /\ Len(tabTicks') <= Capacity
      /\ Rising(tabTicks') /\ Top(tabTicks') = Greater(Top(merge), Top(pending))
      /\ NoHole(merge) /\ Steady(merge, pending) => NoHole(tabTicks')
  BY <1>5 DEF AppendOK
<1>7. /\ Top(pending) \in Nat /\ Top(pending) <= newest
      /\ \A m \in Held(pending) : m \in Nat /\ m <= Top(pending)
  <2>1. /\ Top(pending) \in Nat /\ \A k \in 1..Len(pending) : pending[k].ts <= Top(pending)
        /\ (pending = << >>) = (Len(pending) = 0)
        /\ (pending = << >>) = (Top(pending) = 0)
        /\ pending # << >> => Top(pending) = pending[Len(pending)].ts
    BY <1>3, TopIsTop
  <2>2. DOMAIN pending = 1..Len(pending) /\ Len(pending) \in Nat
    BY <1>3, SMTT(30)
  <2>3. Held(pending) = Times(pending)
    BY <1>3 DEF Held
  <2>4. \A m \in Held(pending) : m \in Nat /\ m <= Top(pending)
    BY <2>1, <2>2, <2>3, HeldAt DEF Times
  <2>5. CASE pending = << >>
    BY <1>2, <2>1, <2>4, <2>5, SMTT(30)
  <2>6. CASE pending # << >>
    <3>1. Len(pending) \in DOMAIN pending
      BY <2>1, <2>2, <2>6, SMTT(30)
    <3>2. Top(pending) \in Held(pending)
      BY <2>1, <2>3, <2>6, <3>1 DEF Times
    <3> QED BY <2>1, <2>4, <3>2, HeldAt
  <2> QED BY <2>5, <2>6
<1>8. Top(tabTicks') \in Nat /\ Top(tabTicks') <= newest /\ Top(merge) <= Top(tabTicks') /\ Top(pending) <= Top(tabTicks')
  BY <1>2, <1>4, <1>6, <1>7, SMTT(30) DEF Greater
<1>9. DataType'
  BY <1>1, <1>6, EmptyBuffer DEF Data, DataType
<1>10. WireInv'
  BY <1>1 DEF Data, WireInv
<1>11. BufferInv'
  <2>1. Held(pending') = {}
    BY <1>1 DEF Held
  <2> QED BY <1>1, <1>2, <1>6, <1>8, <2>1, EmptyBuffer, SMTT(30) DEF BufferInv
<1>12. FedInv'
  <2>1. ASSUME ~blind
        PROVE /\ NoHole(tabTicks')
              /\ es = "open" /\ ready /\ Greeted(sse) => Complete(Top(tabTicks'), newest, EventTimes(sse))
    <3>1. series # << >> /\ NoHole(tabTicks) /\ Top(merge) = Top(series)
      BY <1>1, <1>4, <2>1 DEF Data, FedInv
    <3>2. \A m \in Times(pending) : m > Top(merge) + 1 => m - 1 \in Times(pending)
      BY <1>1, <1>3, <2>1, <3>1 DEF Data, FedInv, Held
    <3>3. Steady(merge, pending)
      BY <1>3, <1>4, <3>2, WaitingSteady
    <3>4. NoHole(tabTicks')
      BY <1>4, <1>6, <3>1, <3>3
    <3>5. ASSUME es = "open", ready, Greeted(sse), NEW m \in Top(tabTicks') + 1..newest
          PROVE m \in EventTimes(sse)
      <4>1. Complete(Top(series), newest, Held(pending) \cup EventTimes(sse))
        BY <1>1, <2>1, <3>5 DEF Data, FedInv
      <4>2. m \in Top(series) + 1..newest /\ ~(m <= Top(pending))
        BY <1>2, <1>7, <1>8, <3>1, SMTT(30)
      <4>3. m \in Held(pending) \cup EventTimes(sse)
        BY <4>1, <4>2 DEF Complete
      <4> QED BY <1>7, <4>2, <4>3
    <3> QED BY <3>4, <3>5 DEF Complete
  <2> QED BY <1>1, <2>1 DEF Data, FedInv
<1> QED BY <1>9, <1>10, <1>11, <1>12 DEF Data

\* The request fails.
LEMMA LoadFailsStep ==
  ASSUME Data, Flags, LoadFails
  PROVE Data'
<1>1. /\ UNCHANGED <<newest, ready, sse, es>> /\ blind' = TRUE
      /\ loadReq # "none" /\ tabTicks' = append(tabTicks, pending)
      /\ loadReq' = "none" /\ series' = << >> /\ pending' = None
  BY DEF LoadFails, serverVars
<1>2. newest \in Nat /\ Top(tabTicks) \in Nat
  BY Numbers
<1>3. /\ tabTicks \in Seq(Tick) /\ Rising(tabTicks) /\ Top(tabTicks) <= newest
      /\ pending \in Seq(Tick) /\ Rising(pending) /\ pending # None
  BY <1>1, LiveStoreAssumption DEF Data, DataType, BufferInv
<1>4. AppendOK(tabTicks', tabTicks, pending)
  BY <1>1, <1>3, AppendGood
<1>5. /\ tabTicks' \in Seq(Tick) /\ Len(tabTicks') <= Capacity
      /\ Rising(tabTicks') /\ Top(tabTicks') = Greater(Top(tabTicks), Top(pending))
  BY <1>4 DEF AppendOK
<1>6. Top(pending) \in Nat /\ Top(pending) <= newest
  <2>1. /\ Top(pending) \in Nat
        /\ (pending = << >>) = (Len(pending) = 0)
        /\ (pending = << >>) = (Top(pending) = 0)
        /\ pending # << >> => Top(pending) = pending[Len(pending)].ts
    BY <1>3, TopIsTop
  <2>2. DOMAIN pending = 1..Len(pending) /\ Len(pending) \in Nat
    BY <1>3, SMTT(30)
  <2>3. CASE pending = << >>
    BY <1>2, <2>1, <2>3, SMTT(30)
  <2>4. CASE pending # << >>
    <3>1. Len(pending) \in DOMAIN pending
      BY <2>1, <2>2, <2>4, SMTT(30)
    <3>2. Top(pending) \in Held(pending)
      BY <1>3, <2>1, <2>4, <3>1 DEF Times, Held
    <3> QED BY <2>1, <3>2, HeldAt
  <2> QED BY <2>3, <2>4
<1>7. Top(tabTicks') <= newest
  BY <1>2, <1>3, <1>5, <1>6 DEF Greater
<1>8. DataType'
  BY <1>1, <1>5, EmptyBuffer DEF Data, DataType
<1>9. WireInv'
  BY <1>1 DEF Data, WireInv
<1>10. BufferInv'
  <2>1. Held(pending') = {}
    BY <1>1 DEF Held
  <2> QED BY <1>1, <1>2, <1>5, <1>7, <2>1, EmptyBuffer, SMTT(30) DEF BufferInv
<1>11. FedInv'
  BY <1>1 DEF FedInv
<1> QED BY <1>8, <1>9, <1>10, <1>11 DEF Data

\* #close: everything is forgotten.
LEMMA CloseStep ==
  ASSUME Data, Flags, close
  PROVE Data'
<1>1. /\ UNCHANGED <<newest, ready>> /\ es' = "none" /\ sse' = << >> /\ tabTicks' = << >>
      /\ loadReq' = "none" /\ series' = << >> /\ pending' = None
  BY DEF close, serverVars
<1>2. newest \in Nat
  BY Numbers
<1>3. DataType'
  BY <1>1, EmptyBuffer, NothingSent, Positive, SMTT(30) DEF Data, DataType
<1>4. WireInv'
  BY <1>1, NothingSent DEF WireInv
<1>5. BufferInv'
  <2>1. Held(pending') = {}
    BY <1>1 DEF Held
  <2> QED BY <1>1, <1>2, <2>1, EmptyBuffer, SMTT(30) DEF BufferInv
<1>6. FedInv'
  BY <1>1, EmptyBuffer DEF FedInv
<1> QED BY <1>3, <1>4, <1>5, <1>6 DEF Data

-----------------------------------------------------------------------------
(* The theorem.                                                             *)

\* The invariant holds at the start.
LEMMA InvInit == Init => Inv
<1> SUFFICES ASSUME Init PROVE Inv
  OBVIOUS
<1> USE DEF Init
<1>1. Flags
  BY DEF Flags
<1>2. TimerInv
  BY Positive, SMTT(30) DEF TimerInv, Lifecycle
<1>3. DataType
  BY Positive, EmptyBuffer, NothingSent, SMTT(30) DEF DataType
<1>4. WireInv
  BY NothingSent DEF WireInv
<1>5. BufferInv
  <2>1. Held(pending) = {}
    BY DEF Held
  <2> QED BY <2>1, EmptyBuffer, SMTT(30) DEF BufferInv
<1>6. FedInv
  BY EmptyBuffer DEF FedInv
<1> QED BY <1>1, <1>2, <1>3, <1>4, <1>5, <1>6 DEF Inv

\* Every step keeps the invariant.
LEMMA InvStep == Inv /\ [Next]_vars => Inv'
<1> SUFFICES ASSUME Inv, [Next]_vars PROVE Inv'
  OBVIOUS
<1>1. Data /\ Flags /\ TimerInv
  BY DEF Inv, Data
<1>2. Flags' /\ TimerInv'
  BY <1>1, FlagsStep, TimerStep
<1>3. Data'
  <2>1. CASE NewTick BY <1>1, <2>1, NewTickStep
  <2>2. CASE Backfill BY <1>1, <2>2, BackfillStep
  <2>3. CASE Restart
    <3>1. UNCHANGED <<newest, loadReq, series, tabTicks, pending, blind>> /\ es' # "open" /\ sse' = << >>
      BY <1>1, <2>3 DEF Restart, request, TimerInv
    <3> QED BY <1>1, <3>1, Disconnected
  <2>4. CASE Accept BY <1>1, <2>4, AcceptStep
  <2>5. CASE Drop
    <3>1. UNCHANGED <<newest, loadReq, series, tabTicks, pending, blind>> /\ es' # "open" /\ sse' = << >>
      BY <2>5 DEF Drop, request, serverVars
    <3> QED BY <1>1, <3>1, Disconnected
  <2>6. CASE Answer BY <1>1, <2>6, AnswerStep
  <2>7. CASE onHello BY <1>1, <2>7, HelloStep
  <2>8. CASE onTick BY <1>1, <2>8, TickStep
  <2>9. CASE Loaded BY <1>1, <2>9, LoadedStep
  <2>10. CASE LoadFails BY <1>1, <2>10, LoadFailsStep
  <2>11. CASE close BY <1>1, <2>11, CloseStep
  <2>12. CASE Refused \/ ReopenFires \/ acquire \/ release \/ UNCHANGED vars
    <3>1. UNCHANGED <<newest, ready, sse, loadReq, series, tabTicks, pending, blind>>
      BY <2>12 DEF Refused, ReopenFires, acquire, release, vars, request, serverVars
    <3>2. es' = es \/ (es # "open" /\ es' # "open")
      BY <2>12 DEF Refused, ReopenFires, acquire, release, vars, Open
    <3> QED BY <1>1, <3>1, <3>2, EsStep
  <2> QED BY <2>1, <2>2, <2>3, <2>4, <2>5, <2>6, <2>7, <2>8, <2>9, <2>10, <2>11, <2>12 DEF Next
<1> QED BY <1>2, <1>3 DEF Inv, Data

\* The invariant is what the property needs.
LEMMA InvImplies == Inv => HolesMarked
<1> SUFFICES ASSUME Inv PROVE HolesMarked
  OBVIOUS
<1>1. Data /\ Flags /\ TimerInv
  BY DEF Inv, Data
<1>2. (pending = None) = (loadReq = "none")
  BY <1>1, LiveStoreAssumption DEF Data, DataType
<1>3. TypeOK
  <2>1. /\ newest \in 0..MaxTick
        /\ sse \in Seq([hello : BOOLEAN, ts : 0..MaxTick])
        /\ loadReq \in {"none", "sent", "answered"}
        /\ series \in Seq(Tick)
        /\ tabTicks \in Seq(Tick) /\ Len(tabTicks) <= Capacity
        /\ pending = None \/ pending \in Seq(Tick)
    BY <1>1 DEF Data, DataType, Message
  <2>2. mounted \in 0..MaxUsers /\ es \in {"none", "connecting", "open"} /\ openEs \in Nat
    BY <1>1 DEF TimerInv
  <2> QED BY <1>1, <1>2, <2>1, <2>2 DEF Flags, TypeOK
<1>4. Lifecycle
  BY <1>1 DEF TimerInv
<1>5. \A j, k \in DOMAIN tabTicks : j < k => tabTicks[j].ts < tabTicks[k].ts
  BY <1>1 DEF Data, BufferInv, Rising
<1>6. ~blind => NoSilentHole
  BY <1>1 DEF Data, FedInv, NoHole, NoSilentHole
<1>7. ASSUME ~blind, es = "open", sse = << >>, loadReq = "none", ready PROVE LastTs = newest
  <2>1. Complete(Top(tabTicks), newest, {})
    BY <1>1, <1>7, NothingSent DEF Data, FedInv
  <2>2. newest \in Nat /\ Top(tabTicks) \in Nat /\ Top(tabTicks) <= newest
    BY <1>1, Numbers DEF Data, BufferInv
  <2>3. ~(newest \in Top(tabTicks) + 1..newest)
    BY <2>1 DEF Complete
  <2>4. LastTs = Top(tabTicks)
    BY DEF LastTs, Top
  <2> QED BY <2>2, <2>3, <2>4, SMTT(30)
<1> QED BY <1>3, <1>4, <1>5, <1>6, <1>7 DEF HolesMarked

\* useLive's buffer goes forward in time and hides no hole, and the tab has the
\* newest tick as soon as nothing is under way, for any number of ticks, any
\* sizes of the ring and the buffer, and any number of mounted callers.
THEOREM HolesAreMarked == Spec => []HolesMarked
<1>1. Init => Inv
  BY InvInit
<1>2. Inv /\ [Next]_vars => Inv'
  BY InvStep
<1>3. Inv => HolesMarked
  BY InvImplies
<1> QED BY <1>1, <1>2, <1>3, PTL DEF Spec
=============================================================================
