--------------------------- MODULE LiveHubProofs ----------------------------
(***************************************************************************)
(* Proofs about LiveHub for every value of its constants: what the hub     *)
(* keeps and hands out of the stream, whatever the order of its commands,  *)
(* their failures, and the trimming or loss of the stream.                 *)
(*                                                                         *)
(* The loop over a page or an XREAD is the recursive function in Ingested. *)
(* That it exists, and what it keeps, is proved by a least counterexample: *)
(* every non-empty set of naturals has a least element.                    *)
(***************************************************************************)
EXTENDS LiveHub, WellFoundedInduction, TLAPS

\* The provers of a leaf that names none, in the order they are tried.
USE ZenonT(90), SMTT(30)

Tick == [id : Ids, ts : Int, gap : BOOLEAN]

-----------------------------------------------------------------------------
(* The inductive invariant.                                                 *)

\* The ring r holds the newest of the ticks A accepted from the entries h, in
\* stream order and forward in time.
RingOK(r, A, h) ==
  /\ r \in Seq(Tick) /\ Len(r) <= Capacity
  /\ \A j, k \in DOMAIN r : j < k => r[j].id < r[k].id /\ r[j].ts < r[k].ts
  /\ \A k \in DOMAIN r : r[k].id \in A /\ r[k].ts = h[r[k].id].ts
  /\ A # {} => r # << >>
  /\ \A a \in A : a <= Newest(r).id
  /\ \A a \in A : a >= r[1].id => \E k \in DOMAIN r : r[k].id = a

\* f is the newest part of the ring r.
RecentOK(f, r) ==
  /\ f \in Seq(Ids) /\ Len(f) <= RecentFlows /\ Len(f) <= Len(r)
  /\ \A k \in DOMAIN f : f[k] = r[Len(r) - Len(f) + k].id

\* The ring r marks a break where entries of T are missing, and where the time
\* jumps.
BreaksOK(r, T) ==
  \A k \in DOMAIN r \ {1} :
    /\ \A n \in T : r[k - 1].id < n /\ n < r[k].id => r[k].gap
    /\ 2 * (r[k].ts - r[k - 1].ts) > 5 => r[k].gap

\* Whether entry n of h was taken, or why it was not.
SeenOK(n, A, h) ==
  \/ n \in A
  \/ ~h[n].ok
  \/ \E m \in A : m < n /\ h[n].ts <= h[m].ts

\* Where the reader is, and what that says of its connection and its pages.
PcInv ==
  /\ pc # "top" => up
  /\ pc = "read" => lastId # None
  /\ pc = "backfill" =>
       /\ lastId = None
       /\ entries \in [lo : Ids, hi : Ids]
       /\ entries.lo <= entries.hi /\ entries.hi <= Len(added)
       /\ entries.hi - entries.lo + 1 < Capacity
       /\ first <= entries.hi + 1

\* The reader's position against what it took and against the stream.
PositionInv ==
  /\ lastId = None => accepted = {} /\ trimmed = {}
  /\ lastId # None =>
       /\ lastId <= Len(added) /\ base <= Len(added)
       /\ \A n \in accepted : n <= lastId
       /\ \A n \in 1..first - 1 : n > lastId /\ n > base => n \in trimmed \cup wiped
  /\ \A n \in trimmed : n < first /\ first <= Len(added)

\* A trimmed entry above the ring is still to be marked: the break is pending,
\* or the check that will find it comes first.
PendingInv ==
  ring # << >> => \A n \in trimmed :
    n > Newest(ring).id => pendingGap \/ (pc = "top" /\ n > lastId)

RingInv ==
  /\ RingOK(ring, accepted, added)
  /\ RecentOK(recent, ring)
  /\ BreaksOK(ring, trimmed)

SubInv ==
  sub # None /\ sub.hello # None =>
    /\ sub.hello \in accepted
    /\ Range(sub.heard) = {n \in accepted : n > sub.hello}
    /\ \A j, k \in DOMAIN sub.heard : j < k => sub.heard[j] < sub.heard[k]

Inv ==
  /\ TypeOK
  /\ PcInv
  /\ PositionInv
  /\ PendingInv
  /\ RingInv
  /\ NoneMissed
  /\ SubInv

-----------------------------------------------------------------------------
(* The loop over the entries of a reply.                                    *)

\* A non-empty set of naturals has a least element.
LEMMA Least ==
  ASSUME NEW T, T \subseteq Nat, T # {}
  PROVE \E n \in T : \A m \in T : n <= m
<1>1. IsWellFoundedOn(OpToRel(<, Nat), Nat)
  BY NatLessThanWellFounded
<1>2. PICK x \in T : \A y \in T : ~(<<y, x>> \in OpToRel(<, Nat))
  BY <1>1, WFMin
<1>3. ASSUME NEW y \in T PROVE x <= y
  <2>1. y < x => <<y, x>> \in OpToRel(<, Nat)
    BY DEF OpToRel
  <2>2. ~(y < x)
    BY <1>2, <2>1
  <2>3. x \in Nat /\ y \in Nat
    OBVIOUS
  <2> QED BY <2>2, <2>3, SMTT(30)
<1> QED BY <1>3

Start(r, f) == [ring |-> r, recent |-> f, gap |-> pendingGap, new |-> << >>]

\* s holds the loop's state before the entries lo..hi and after each of them.
IsLoop(s, r, f, lo, hi) ==
  s = [n \in lo - 1..hi |-> IF n < lo THEN Start(r, f) ELSE ingest(s[n - 1], n)]

\* The recursion in Ingested defines a function.
LEMMA LoopExists ==
  ASSUME NEW r, NEW f, NEW lo \in Nat \ {0}, NEW hi \in Nat, lo - 1 <= hi
  PROVE \E s : IsLoop(s, r, f, lo, hi)
<1> DEFINE T == {h \in Nat : lo - 1 <= h /\ ~\E s : IsLoop(s, r, f, lo, h)}
<1>1. CASE T # {}
  <2>1. PICK h \in T : \A m \in T : h <= m
    BY <1>1, Least
  <2>2. CASE h = lo - 1
    <3> DEFINE s == [n \in lo - 1..h |-> Start(r, f)]
    <3>1. \A n \in lo - 1..h : n < lo
      BY <2>2, SMTT(30)
    <3>2. s = [n \in lo - 1..h |-> IF n < lo THEN Start(r, f) ELSE ingest(s[n - 1], n)]
      BY <3>1
    <3>3. IsLoop(s, r, f, lo, h)
      BY <3>2 DEF IsLoop
    <3> QED BY <3>3
  <2>3. CASE h >= lo
    <3>1. h - 1 \in Nat /\ lo - 1 <= h - 1 /\ h - 1 \notin T
      BY <2>1, <2>3, SMTT(30)
    <3>2. PICK s : IsLoop(s, r, f, lo, h - 1)
      BY <3>1
    <3> DEFINE t == [n \in lo - 1..h |-> IF n < h THEN s[n] ELSE ingest(s[h - 1], h)]
    <3>3. \A n \in lo - 1..h - 1 :
            s[n] = IF n < lo THEN Start(r, f) ELSE ingest(s[n - 1], n)
      BY <3>2 DEF IsLoop
    <3>4. h \in Nat
      OBVIOUS
    <3>5. ASSUME NEW n \in lo - 1..h
          PROVE t[n] = IF n < lo THEN Start(r, f) ELSE ingest(t[n - 1], n)
      <4>1. CASE n < lo
        BY <2>3, <3>3, <3>4, <4>1, SMTT(30)
      <4>2. CASE n >= lo
        <5>1. n - 1 \in lo - 1..h /\ n - 1 < h
          BY <3>4, <4>2, SMTT(30)
        <5>2. t[n - 1] = s[n - 1]
          BY <5>1
        <5>3. CASE n < h
          BY <3>3, <3>4, <4>2, <5>2, <5>3, SMTT(30)
        <5>4. CASE n = h
          BY <4>2, <5>2, <5>4, SMTT(30)
        <5> QED BY <3>4, <5>3, <5>4, SMTT(30)
      <4> QED BY <3>4, <4>1, <4>2, SMTT(30)
    <3>6. t = [n \in lo - 1..h |-> IF n < lo THEN Start(r, f) ELSE ingest(t[n - 1], n)]
      BY <3>5
    <3>7. IsLoop(t, r, f, lo, h)
      BY <3>6 DEF IsLoop
    <3> QED BY <3>7
  <2> QED BY <2>2, <2>3, SMTT(30)
<1> QED BY <1>1

\* What Ingested returns is the last state of the loop.
LEMMA IngestedIsLoop ==
  ASSUME NEW r, NEW f, NEW lo \in Nat \ {0}, NEW hi \in Nat, lo - 1 <= hi
  PROVE \E s : IsLoop(s, r, f, lo, hi) /\ Ingested(r, f, lo, hi) = s[hi]
<1> DEFINE s == CHOOSE s : s = [n \in lo - 1..hi |->
                  IF n < lo THEN [ring |-> r, recent |-> f, gap |-> pendingGap, new |-> << >>]
                  ELSE ingest(s[n - 1], n)]
<1>1. Ingested(r, f, lo, hi) = s[hi]
  BY DEF Ingested
<1>2. IsLoop(s, r, f, lo, hi)
  BY LoopExists, SMTT(30) DEF IsLoop, Start
<1> QED BY <1>1, <1>2

-----------------------------------------------------------------------------
(* One entry.                                                               *)

\* q is the buffer r of at most c elements after x was put in.
PushOK(r, x, c, q) ==
  /\ Len(r) < c => q = Append(r, x)
  /\ Len(r) = c => q = Tail(Append(r, x))

\* Putting an element in a buffer drops the oldest one when it is full.
LEMMA Push ==
  ASSUME NEW S, NEW r \in Seq(S), NEW x \in S, NEW c \in Nat \ {0}, Len(r) <= c,
         NEW q, q = IF Len(Append(r, x)) > c THEN Tail(Append(r, x)) ELSE Append(r, x)
  PROVE PushOK(r, x, c, q)
<1>1. Len(Append(r, x)) = Len(r) + 1 /\ Len(r) \in Nat
  BY SMTT(30)
<1> QED BY <1>1, SMTT(30) DEF PushOK

\* Where the elements of the buffer end up: one place further down when the
\* oldest was dropped.
LEMMA PushAt ==
  ASSUME NEW S, NEW r \in Seq(S), NEW x \in S, NEW c \in Nat \ {0}, Len(r) <= c,
         NEW q, PushOK(r, x, c, q)
  PROVE \E d \in {0, 1} :
          /\ d <= Len(r) /\ (d = 1 <=> Len(r) = c)
          /\ q \in Seq(S) /\ Len(q) = Len(r) + 1 - d /\ Len(q) <= c
          /\ \A k \in 1..Len(r) - d : q[k] = r[k + d]
          /\ q[Len(r) + 1 - d] = x
<1>0. Len(r) \in Nat
  BY SMTT(30)
<1>1. CASE Len(r) < c
  <2>1. q = Append(r, x)
    BY <1>1 DEF PushOK
  <2>2. /\ q \in Seq(S) /\ Len(q) = Len(r) + 1
        /\ \A k \in 1..Len(r) : q[k] = r[k]
        /\ q[Len(r) + 1] = x
    BY <2>1, SMTT(30)
  <2> QED BY <1>0, <1>1, <2>2, SMTT(30)
<1>2. CASE Len(r) = c
  <2> DEFINE a == Append(r, x)
  <2>1. q = Tail(a)
    BY <1>2 DEF PushOK
  <2>2. /\ a \in Seq(S) /\ Len(a) = Len(r) + 1 /\ a # << >>
        /\ \A k \in 1..Len(r) : a[k] = r[k]
        /\ a[Len(r) + 1] = x
    BY SMTT(30)
  <2> HIDE DEF a
  <2>3. q \in Seq(S) /\ Len(q) = Len(r) /\ \A k \in 1..Len(r) : q[k] = a[k + 1]
    BY <1>0, <2>1, <2>2, SMTT(30)
  <2>4. \A k \in 1..Len(r) - 1 : q[k] = r[k + 1]
    BY <1>0, <2>2, <2>3, SMTT(30)
  <2>5. q[Len(r)] = x
    BY <1>0, <1>2, <2>2, <2>3, SMTT(30)
  <2> QED BY <1>0, <1>2, <2>3, <2>4, <2>5, SMTT(30)
<1> QED BY <1>0, <1>1, <1>2, SMTT(30)

ShiftOK(lr, lf, lq, lg, k, d, e) == (lq - lg + k) + d = lr - lf + (k + e)

\* Indexes from the end of two sequences that grew by one element each, when d
\* and e elements were dropped in front.
LEMMA Shift ==
  ASSUME NEW lr \in Int, NEW lf \in Int, NEW lq \in Int, NEW lg \in Int,
         NEW k \in Int, NEW d \in Int, NEW e \in Int,
         lq = lr + 1 - d, lg = lf + 1 - e
  PROVE ShiftOK(lr, lf, lq, lg, k, d, e)
  BY SMTT(30) DEF ShiftOK

\* The ring after a tick newer than all it holds.
LEMMA RingPush ==
  ASSUME NEW r, NEW A, NEW h, RingOK(r, A, h), A \subseteq Ids,
         NEW n \in Ids, \A a \in A : a < n,
         NEW x \in Tick, x.id = n, x.ts = h[n].ts,
         r # << >> => Newest(r).ts < x.ts,
         NEW q, PushOK(r, x, Capacity, q)
  PROVE RingOK(q, A \cup {n}, h)
<1>1. r \in Seq(Tick) /\ Len(r) <= Capacity /\ Capacity \in Nat \ {0} /\ MaxId \in Nat
  BY LiveHubAssumption DEF RingOK
<1>2. PICK d \in {0, 1} :
        /\ d <= Len(r) /\ (d = 1 <=> Len(r) = Capacity)
        /\ q \in Seq(Tick) /\ Len(q) = Len(r) + 1 - d /\ Len(q) <= Capacity
        /\ \A k \in 1..Len(r) - d : q[k] = r[k + d]
        /\ q[Len(r) + 1 - d] = x
  BY <1>1, PushAt, SMTT(30)
<1>3. Len(r) \in Nat /\ Len(q) \in Nat /\ DOMAIN r = 1..Len(r) /\ DOMAIN q = 1..Len(q)
  BY <1>1, <1>2, SMTT(30)
<1>4. \A k \in 1..Len(r) : r[k] \in Tick
  BY <1>1, SMTT(30)
<1>5. \A k \in 1..Len(r) : r[k].id \in A /\ r[k].id < n
  BY <1>3 DEF RingOK
<1>6. \A k \in 1..Len(r) : r[k].ts < x.ts
  <2>1. SUFFICES ASSUME NEW k \in 1..Len(r) PROVE r[k].ts < x.ts
    OBVIOUS
  <2>2. Len(r) \in 1..Len(r) /\ r # << >>
    BY <1>1, <1>3, SMTT(30)
  <2>3. r[Len(r)].ts < x.ts
    BY <2>2 DEF Newest
  <2>4. r[k].ts \in Int /\ r[Len(r)].ts \in Int /\ x.ts \in Int
    BY <1>4, <2>2 DEF Tick
  <2>5. k < Len(r) => r[k].ts < r[Len(r)].ts
    BY <1>3, <2>2 DEF RingOK
  <2> QED BY <1>3, <2>3, <2>4, <2>5, SMTT(30)
<1>7. \A k \in DOMAIN q : k # Len(q) => k + d \in 1..Len(r) /\ q[k] = r[k + d]
  BY <1>2, <1>3, SMTT(30)
<1>8. Len(q) \in DOMAIN q /\ q[Len(q)] = x /\ q # << >>
  BY <1>2, <1>3, SMTT(30)
<1>9. ASSUME NEW j \in DOMAIN q, NEW k \in DOMAIN q, j < k
      PROVE q[j].id < q[k].id /\ q[j].ts < q[k].ts
  <2>1. j # Len(q) /\ j + d \in 1..Len(r) /\ q[j] = r[j + d]
    BY <1>3, <1>7, <1>9, SMTT(30)
  <2>2. CASE k = Len(q)
    BY <1>5, <1>6, <1>8, <2>1, <2>2
  <2>3. CASE k # Len(q)
    <3>1. k + d \in 1..Len(r) /\ q[k] = r[k + d] /\ j + d < k + d
      BY <1>3, <1>7, <1>9, <2>3, SMTT(30)
    <3> QED BY <1>3, <2>1, <3>1, SMTT(30) DEF RingOK
  <2> QED BY <2>2, <2>3
<1>10. ASSUME NEW k \in DOMAIN q PROVE q[k].id \in A \cup {n} /\ q[k].ts = h[q[k].id].ts
  <2>1. CASE k = Len(q)
    BY <1>8, <2>1
  <2>2. CASE k # Len(q)
    <3>1. k + d \in 1..Len(r) /\ q[k] = r[k + d]
      BY <1>7, <2>2
    <3> QED BY <1>3, <3>1 DEF RingOK
  <2> QED BY <2>1, <2>2
<1>11. \A a \in A \cup {n} : a <= Newest(q).id
  <2>1. Newest(q).id = n
    BY <1>8 DEF Newest
  <2>2. \A a \in A \cup {n} : a \in Int /\ n \in Int
    BY <1>1, SMTT(30) DEF Ids
  <2> QED BY <2>1, <2>2, SMTT(30)
<1>12. ASSUME NEW a \in A \cup {n}, a >= q[1].id PROVE \E k \in DOMAIN q : q[k].id = a
  <2>1. CASE a = n
    BY <1>8, <2>1
  <2>2. CASE a # n
    <3>1. a \in A /\ a < n /\ a \in Int /\ n \in Int
      BY <1>1, <2>2, SMTT(30) DEF Ids
    <3>2. Len(q) # 1
      BY <1>8, <1>12, <3>1, SMTT(30)
    <3>3. 1 \in DOMAIN q /\ 1 # Len(q) /\ 1 + d \in 1..Len(r) /\ q[1] = r[1 + d] /\ 1 \in 1..Len(r)
      BY <1>3, <1>7, <1>8, <3>2, SMTT(30)
    <3>4. r[1].id <= r[1 + d].id
      <4>1. r[1].id \in Int /\ r[1 + d].id \in Int
        BY <1>1, <1>4, <3>3, SMTT(30) DEF Tick, Ids
      <4>2. d = 1 => r[1].id < r[1 + d].id
        BY <1>3, <3>3, SMTT(30) DEF RingOK
      <4> QED BY <4>1, <4>2, SMTT(30)
    <3>5. r[1].id \in Int /\ r[1 + d].id \in Int
      BY <1>1, <1>4, <3>3, SMTT(30) DEF Tick, Ids
    <3>6. a >= r[1].id
      BY <1>12, <3>1, <3>3, <3>4, <3>5, SMTT(30)
    <3>7. PICK k \in 1..Len(r) : r[k].id = a
      BY <1>3, <3>1, <3>6 DEF RingOK
    <3>8. k >= 1 + d
      <4>1. CASE k < 1 + d
        <5>1. r[k].id < r[1 + d].id
          BY <1>3, <3>3, <4>1 DEF RingOK
        <5> QED BY <1>12, <3>1, <3>3, <3>5, <3>7, <5>1, SMTT(30)
      <4> QED BY <4>1, SMTT(30)
    <3>9. k - d \in DOMAIN q /\ k - d # Len(q)
      BY <1>2, <1>3, <3>8, SMTT(30)
    <3>10. q[k - d] = r[k]
      BY <1>7, <3>9, SMTT(30)
    <3> QED BY <3>7, <3>9, <3>10
  <2> QED BY <2>1, <2>2
<1> QED BY <1>2, <1>8, <1>9, <1>10, <1>11, <1>12 DEF RingOK

\* The newest part of the ring stays its newest part.
LEMMA RecentPush ==
  ASSUME NEW r \in Seq(Tick), Len(r) <= Capacity, NEW f, RecentOK(f, r),
         NEW n \in Ids, NEW x \in Tick, x.id = n,
         NEW q, PushOK(r, x, Capacity, q),
         NEW g, PushOK(f, n, RecentFlows, g)
  PROVE RecentOK(g, q)
<1>1. /\ Capacity \in Nat \ {0} /\ RecentFlows \in Nat \ {0} /\ RecentFlows <= Capacity
      /\ f \in Seq(Ids) /\ Len(f) <= RecentFlows /\ Len(f) <= Len(r)
  BY LiveHubAssumption DEF RecentOK
<1>2. PICK d \in {0, 1} :
        /\ d <= Len(r) /\ (d = 1 <=> Len(r) = Capacity)
        /\ q \in Seq(Tick) /\ Len(q) = Len(r) + 1 - d /\ Len(q) <= Capacity
        /\ \A k \in 1..Len(r) - d : q[k] = r[k + d]
        /\ q[Len(r) + 1 - d] = x
  BY <1>1, PushAt, SMTT(30)
<1>3. PICK e \in {0, 1} :
        /\ e <= Len(f) /\ (e = 1 <=> Len(f) = RecentFlows)
        /\ g \in Seq(Ids) /\ Len(g) = Len(f) + 1 - e /\ Len(g) <= RecentFlows
        /\ \A k \in 1..Len(f) - e : g[k] = f[k + e]
        /\ g[Len(f) + 1 - e] = n
  BY <1>1, PushAt, SMTT(30)
<1>4. /\ Len(r) \in Nat /\ Len(f) \in Nat /\ Len(q) \in Nat /\ Len(g) \in Nat
      /\ DOMAIN f = 1..Len(f) /\ DOMAIN g = 1..Len(g)
  BY <1>1, <1>2, <1>3, SMTT(30)
<1>5. Len(g) <= Len(q)
  BY <1>1, <1>2, <1>3, <1>4, SMTT(30)
<1>6. ASSUME NEW k \in DOMAIN g PROVE g[k] = q[Len(q) - Len(g) + k].id
  <2>1. CASE k = Len(g)
    <3>1. Len(q) - Len(g) + k = Len(r) + 1 - d
      BY <1>2, <1>4, <2>1, SMTT(30)
    <3> QED BY <1>2, <1>3, <2>1, <3>1
  <2>2. CASE k # Len(g)
    <3> DEFINE i == Len(q) - Len(g) + k
               j == k + e
    <3>1. k \in 1..Len(f) - e /\ j \in DOMAIN f /\ i \in 1..Len(r) - d
      BY <1>1, <1>2, <1>3, <1>4, <1>5, <2>2, SMTT(30)
    <3>2. i + d = Len(r) - Len(f) + j
      <4>1. Len(q) = Len(r) + 1 - d /\ Len(g) = Len(f) + 1 - e
        BY <1>2, <1>3
      <4>2. k \in Int /\ d \in Int /\ e \in Int /\ Len(r) \in Int /\ Len(f) \in Int
            /\ Len(q) \in Int /\ Len(g) \in Int
        BY <1>4, SMTT(30)
      <4>3. ShiftOK(Len(r), Len(f), Len(q), Len(g), k, d, e)
        BY <4>1, <4>2, Shift
      <4> QED BY <4>3 DEF ShiftOK
    <3> HIDE DEF i, j
    <3>3. q[i] = r[i + d]
      BY <1>2, <3>1
    <3>4. f[j] = r[Len(r) - Len(f) + j].id
      BY <3>1 DEF RecentOK
    <3>5. g[k] = f[j]
      BY <1>3, <3>1 DEF j
    <3>6. g[k] = q[i].id
      BY <3>2, <3>3, <3>4, <3>5
    <3> QED BY <3>6 DEF i
  <2> QED BY <2>1, <2>2
<1> QED BY <1>3, <1>5, <1>6 DEF RecentOK

\* A tick with its break set where one is due keeps the breaks right.
LEMMA BreaksPush ==
  ASSUME NEW r \in Seq(Tick), Len(r) <= Capacity, NEW T, BreaksOK(r, T),
         NEW x \in Tick, NEW q, PushOK(r, x, Capacity, q),
         r # << >> => \A n \in T : n > Newest(r).id => x.gap,
         r # << >> /\ 2 * (x.ts - Newest(r).ts) > 5 => x.gap,
         T \subseteq Int
  PROVE BreaksOK(q, T)
<1>1. Capacity \in Nat \ {0} /\ MaxId \in Nat
  BY LiveHubAssumption
<1>2. PICK d \in {0, 1} :
        /\ d <= Len(r) /\ (d = 1 <=> Len(r) = Capacity)
        /\ q \in Seq(Tick) /\ Len(q) = Len(r) + 1 - d /\ Len(q) <= Capacity
        /\ \A k \in 1..Len(r) - d : q[k] = r[k + d]
        /\ q[Len(r) + 1 - d] = x
  BY <1>1, PushAt, SMTT(30)
<1>3. Len(r) \in Nat /\ Len(q) \in Nat /\ DOMAIN r = 1..Len(r) /\ DOMAIN q = 1..Len(q)
  BY <1>2, SMTT(30)
<1>4. SUFFICES ASSUME NEW k \in DOMAIN q \ {1}
               PROVE /\ \A n \in T : q[k - 1].id < n /\ n < q[k].id => q[k].gap
                     /\ 2 * (q[k].ts - q[k - 1].ts) > 5 => q[k].gap
  BY DEF BreaksOK
<1>5. k - 1 \in 1..Len(r) - d
  BY <1>2, <1>3, SMTT(30)
<1>6. q[k - 1] = r[k - 1 + d]
  BY <1>2, <1>5
<1>7. CASE k = Len(q)
  <2>1. k - 1 + d = Len(r) /\ Len(r) \in 1..Len(r)
    BY <1>2, <1>3, <1>5, <1>7, SMTT(30)
  <2>2. q[k - 1] = Newest(r) /\ r # << >> /\ q[k] = x
    BY <1>2, <1>3, <1>6, <1>7, <2>1, SMTT(30) DEF Newest
  <2>3. Newest(r).id \in Int
    <3>1. r[Len(r)] \in Tick
      BY <2>1, SMTT(30)
    <3> QED BY <1>1, <3>1, SMTT(30) DEF Newest, Tick, Ids
  <2> QED BY <2>2, <2>3
<1>8. CASE k # Len(q)
  <2> DEFINE i == k + d
  <2>1. i \in DOMAIN r \ {1} /\ k \in 1..Len(r) - d /\ k - 1 + d = i - 1
    BY <1>2, <1>3, <1>5, <1>8, SMTT(30)
  <2>2. q[k] = r[i]
    BY <1>2, <2>1
  <2>3. q[k - 1] = r[i - 1]
    BY <1>6, <2>1
  <2> HIDE DEF i
  <2> QED BY <2>1, <2>2, <2>3 DEF BreaksOK
<1> QED BY <1>7, <1>8

\* The elements of a sequence.
LEMMA ElementOf ==
  ASSUME NEW S, NEW q \in Seq(S), NEW k \in 1..Len(q)
  PROVE q[k] \in S
  BY SMTT(30)

\* a is r with x at its end.
AppendOK(S, r, x, a) ==
  /\ a \in Seq(S) /\ Len(r) \in Nat /\ Len(a) = Len(r) + 1
  /\ DOMAIN a = 1..Len(r) + 1 /\ DOMAIN r = 1..Len(r)
  /\ a[Len(r) + 1] = x
  /\ \A k \in 1..Len(r) : a[k] = r[k]
  /\ Range(a) = Range(r) \cup {x}

\* Appending to a sequence.
LEMMA AppendAt ==
  ASSUME NEW S, NEW r \in Seq(S), NEW x \in S
  PROVE AppendOK(S, r, x, Append(r, x))
<1> DEFINE a == Append(r, x)
<1>1. /\ a \in Seq(S) /\ Len(r) \in Nat /\ Len(a) = Len(r) + 1
      /\ DOMAIN a = 1..Len(r) + 1 /\ DOMAIN r = 1..Len(r)
      /\ a[Len(r) + 1] = x
      /\ \A k \in 1..Len(r) : a[k] = r[k]
  BY SMTT(30)
<1> HIDE DEF a
<1>2. \A k \in DOMAIN a : k = Len(r) + 1 \/ k \in DOMAIN r
  BY <1>1, SMTT(30)
<1>3. Len(r) + 1 \in DOMAIN a /\ \A k \in DOMAIN r : k \in DOMAIN a
  BY <1>1, SMTT(30)
<1>4. \A y \in Range(a) : y \in Range(r) \cup {x}
  BY <1>1, <1>2 DEF Range
<1>5. \A y \in Range(r) : y \in Range(a)
  BY <1>1, <1>3 DEF Range
<1>6. x \in Range(a)
  BY <1>1, <1>3 DEF Range
<1>7. Range(a) = Range(r) \cup {x}
  BY <1>4, <1>5, <1>6
<1>8. AppendOK(S, r, x, a)
  BY <1>1, <1>7 DEF AppendOK
<1> QED BY <1>8 DEF a

\* The loop's state s after the entries up to n, when it began with the ticks
\* A accepted and the entries T trimmed unread, all before lo.
LoopOK(s, n, A, T, lo) ==
  /\ s.gap \in BOOLEAN
  /\ s.new \in Seq(Ids)
  /\ \A k \in DOMAIN s.new : lo <= s.new[k] /\ s.new[k] <= n
  /\ \A j, k \in DOMAIN s.new : j < k => s.new[j] < s.new[k]
  /\ RingOK(s.ring, A \cup Range(s.new), added)
  /\ RecentOK(s.recent, s.ring)
  /\ BreaksOK(s.ring, T)
  /\ s.ring # << >> => \A t \in T : t > Newest(s.ring).id => s.gap
  /\ \A m \in lo..n : SeenOK(m, A \cup Range(s.new), added)

\* #ingest keeps the ring, #recent and the breaks right, and either takes the
\* entry or has a reason to skip it.
LEMMA IngestStep ==
  ASSUME added \in Seq([ts : Int, ok : BOOLEAN]), Len(added) <= MaxId,
         NEW A \in SUBSET Ids, NEW T \in SUBSET Ids, NEW lo \in Nat \ {0},
         \A a \in A : a < lo, \A t \in T : t < lo,
         NEW n \in lo..Len(added), NEW s, LoopOK(s, n - 1, A, T, lo)
  PROVE LoopOK(ingest(s, n), n, A, T, lo)
<1> DEFINE e == added[n]
           B == A \cup Range(s.new)
           prev == Newest(s.ring)
           empty == s.ring = << >>
           gap == s.gap \/ (~empty /\ 2 * (e.ts - prev.ts) > 5)
           x == [id |-> n, ts |-> e.ts, gap |-> gap]
           long == Append(s.ring, x)
           flows == Append(s.recent, n)
           q == IF Len(long) > Capacity THEN Tail(long) ELSE long
           g == IF Len(flows) > RecentFlows THEN Tail(flows) ELSE flows
           new == Append(s.new, n)
           skip == ~e.ok \/ (~empty /\ e.ts <= prev.ts)
<1>1. /\ Capacity \in Nat \ {0} /\ RecentFlows \in Nat \ {0} /\ MaxId \in Nat
      /\ Len(added) \in Nat /\ n \in Ids /\ n \in 1..Len(added) /\ n \in Nat /\ n >= lo
  BY LiveHubAssumption, SMTT(30) DEF Ids
<1>2. e.ts \in Int /\ e.ok \in BOOLEAN
  <2>1. e \in [ts : Int, ok : BOOLEAN]
    BY <1>1, ElementOf
  <2> QED BY <2>1
<1>3. ingest(s, n) = IF skip THEN s ELSE [ring |-> q, recent |-> g, gap |-> FALSE, new |-> new]
  BY DEF ingest
<1>4. /\ s.gap \in BOOLEAN /\ s.new \in Seq(Ids)
      /\ RingOK(s.ring, B, added) /\ RecentOK(s.recent, s.ring) /\ BreaksOK(s.ring, T)
      /\ s.ring \in Seq(Tick) /\ Len(s.ring) <= Capacity
      /\ s.recent \in Seq(Ids) /\ Len(s.recent) <= RecentFlows
  BY DEF LoopOK, RingOK, RecentOK
<1>5. \A k \in DOMAIN s.new : s.new[k] \in Ids /\ lo <= s.new[k] /\ s.new[k] < n
  <2>1. SUFFICES ASSUME NEW k \in DOMAIN s.new
                 PROVE s.new[k] \in Ids /\ lo <= s.new[k] /\ s.new[k] < n
    OBVIOUS
  <2>2. s.new[k] \in Ids
    BY <1>4, SMTT(30)
  <2>3. lo <= s.new[k] /\ s.new[k] <= n - 1
    BY DEF LoopOK
  <2>4. s.new[k] \in Int
    BY <1>1, <2>2, SMTT(30) DEF Ids
  <2> QED BY <1>1, <2>2, <2>3, <2>4, SMTT(30)
<1>6. B \subseteq Ids /\ \A a \in B : a < n
  <2>1. \A a \in Range(s.new) : a \in Ids /\ a < n
    BY <1>5 DEF Range
  <2>2. \A a \in A : a \in Ids /\ a < n
    BY <1>1, SMTT(30) DEF Ids
  <2> QED BY <2>1, <2>2
<1>7. ~empty => Len(s.ring) \in DOMAIN s.ring /\ prev \in Tick /\ prev.id \in B /\ prev.ts = added[prev.id].ts
                /\ prev.ts \in Int /\ prev.id \in Ids
  <2>1. ASSUME ~empty PROVE Len(s.ring) \in DOMAIN s.ring
    BY <1>4, <2>1, SMTT(30)
  <2>2. ASSUME ~empty PROVE prev \in Tick
    BY <1>4, <2>1, <2>2, SMTT(30) DEF Newest
  <2>3. ASSUME ~empty PROVE prev.id \in B /\ prev.ts = added[prev.id].ts
    BY <1>4, <2>1, <2>3 DEF Newest, RingOK
  <2> QED BY <2>1, <2>2, <2>3 DEF Tick
<1>8. CASE skip
  <2>1. ingest(s, n) = s
    BY <1>3, <1>8
  <2>2. SeenOK(n, B, added)
    <3>1. CASE ~e.ok
      BY <3>1 DEF SeenOK
    <3>2. CASE ~empty /\ e.ts <= prev.ts
      BY <1>6, <1>7, <3>2 DEF SeenOK
    <3> QED BY <1>8, <3>1, <3>2
  <2>3. \A m \in lo..n : SeenOK(m, B, added)
    <3>1. \A m \in lo..n : m = n \/ m \in lo..n - 1
      BY <1>1, SMTT(30)
    <3>2. \A m \in lo..n - 1 : SeenOK(m, B, added)
      BY DEF LoopOK
    <3> QED BY <2>2, <3>1, <3>2
  <2>4. \A k \in DOMAIN s.new : lo <= s.new[k] /\ s.new[k] <= n
    BY <1>1, <1>5, SMTT(30) DEF Ids
  <2>5. LoopOK(s, n, A, T, lo)
    BY <2>3, <2>4 DEF LoopOK
  <2> QED BY <2>1, <2>5
<1>9. CASE ~skip
  <2> DEFINE t == [ring |-> q, recent |-> g, gap |-> FALSE, new |-> new]
  <2>1. ingest(s, n) = t
    BY <1>3, <1>9
  <2>2. gap \in BOOLEAN
    BY <1>4
  <2> HIDE DEF gap
  <2>3. x \in Tick /\ x.id = n /\ x.ts = e.ts /\ x.gap = gap
    BY <1>1, <1>2, <2>2 DEF Tick
  <2>4. ~empty => prev.ts < x.ts
    BY <1>2, <1>7, <1>9, <2>3, SMTT(30)
  <2>5. ~empty => (\A m \in T : m > prev.id => x.gap) /\ (2 * (x.ts - prev.ts) > 5 => x.gap)
    BY <2>3 DEF gap, LoopOK
  <2> HIDE DEF x
  <2>6. PushOK(s.ring, x, Capacity, q)
    BY <1>1, <1>4, <2>3, Push
  <2>7. PushOK(s.recent, n, RecentFlows, g)
    BY <1>1, <1>4, Push
  <2> HIDE DEF q, g, e
  <2>8. RingOK(q, B \cup {n}, added)
    <3> HIDE DEF B
    <3> QED BY <1>1, <1>4, <1>6, <2>3, <2>4, <2>6, RingPush DEF e
  <2>9. RecentOK(g, q)
    BY <1>1, <1>4, <2>3, <2>6, <2>7, RecentPush
  <2>10. BreaksOK(q, T)
    <3>1. T \subseteq Int
      BY <1>1, SMTT(30) DEF Ids
    <3> QED BY <1>4, <2>3, <2>5, <2>6, <3>1, BreaksPush
  <2>11. /\ new \in Seq(Ids) /\ Len(new) = Len(s.new) + 1 /\ Len(s.new) \in Nat
         /\ DOMAIN new = 1..Len(s.new) + 1 /\ DOMAIN s.new = 1..Len(s.new)
         /\ new[Len(s.new) + 1] = n
         /\ \A k \in DOMAIN s.new : new[k] = s.new[k]
         /\ Range(new) = Range(s.new) \cup {n}
    <3>1. AppendOK(Ids, s.new, n, new)
      BY <1>1, <1>4, AppendAt
    <3> QED BY <3>1 DEF AppendOK
  <2> HIDE DEF new
  <2>12. \A k \in DOMAIN new : k = Len(s.new) + 1 \/ k \in DOMAIN s.new
    BY <2>11, SMTT(30)
  <2>14. A \cup Range(new) = B \cup {n}
    BY <2>11
  <2>15. \A k \in DOMAIN new : lo <= new[k] /\ new[k] <= n
    <3>1. SUFFICES ASSUME NEW k \in DOMAIN new PROVE lo <= new[k] /\ new[k] <= n
      OBVIOUS
    <3>2. CASE k = Len(s.new) + 1
      BY <1>1, <2>11, <3>2, SMTT(30)
    <3>3. CASE k \in DOMAIN s.new
      <4>1. new[k] = s.new[k]
        BY <2>11, <3>3
      <4>2. lo <= s.new[k] /\ s.new[k] < n /\ s.new[k] \in Ids
        BY <1>5, <3>3
      <4>3. s.new[k] \in Int
        BY <1>1, <4>2, SMTT(30) DEF Ids
      <4> QED BY <1>1, <4>1, <4>2, <4>3, SMTT(30)
    <3> QED BY <2>12, <3>2, <3>3
  <2>16. \A j, k \in DOMAIN new : j < k => new[j] < new[k]
    <3>1. SUFFICES ASSUME NEW j \in DOMAIN new, NEW k \in DOMAIN new, j < k
                   PROVE new[j] < new[k]
      OBVIOUS
    <3>2. j \in DOMAIN s.new
      BY <2>11, <3>1, SMTT(30)
    <3>3. CASE k = Len(s.new) + 1
      BY <1>5, <2>11, <3>2, <3>3
    <3>4. CASE k \in DOMAIN s.new
      BY <2>11, <3>1, <3>2, <3>4 DEF LoopOK
    <3> QED BY <2>12, <3>3, <3>4
  <2>17. \A m \in T : ~(m > Newest(q).id)
    <3>1. n <= Newest(q).id
      BY <2>8 DEF RingOK
    <3>2. Newest(q).id \in Int
      <4>1. q \in Seq(Tick) /\ q # << >>
        BY <2>8 DEF RingOK
      <4>2. Newest(q) \in Tick
        BY <4>1, SMTT(30) DEF Newest
      <4> QED BY <1>1, <4>2, SMTT(30) DEF Tick, Ids
    <3>3. \A m \in T : m \in Int /\ m < n
      BY <1>1, SMTT(30) DEF Ids
    <3> QED BY <1>1, <3>1, <3>2, <3>3, SMTT(30)
  <2>18. \A m \in lo..n : SeenOK(m, B \cup {n}, added)
    <3>1. \A m \in lo..n : m = n \/ m \in lo..n - 1
      BY <1>1, SMTT(30)
    <3>2. \A m \in lo..n - 1 : SeenOK(m, B, added)
      BY DEF LoopOK
    <3> HIDE DEF B
    <3>3. \A m \in lo..n - 1 : SeenOK(m, B \cup {n}, added)
      BY <3>2 DEF SeenOK
    <3>4. SeenOK(n, B \cup {n}, added)
      BY DEF SeenOK
    <3> QED BY <3>1, <3>3, <3>4
  <2>19. t.ring = q /\ t.recent = g /\ t.gap = FALSE /\ t.new = new
    OBVIOUS
  <2> HIDE DEF t, B
  <2>20. LoopOK(t, n, A, T, lo)
    BY <2>8, <2>9, <2>10, <2>11, <2>14, <2>15, <2>16, <2>17, <2>18, <2>19 DEF LoopOK
  <2> QED BY <2>1, <2>20
<1> QED BY <1>8, <1>9

\* The whole loop, by the least entry after which it would go wrong.
LEMMA LoopKeeps ==
  ASSUME added \in Seq([ts : Int, ok : BOOLEAN]), Len(added) <= MaxId, pendingGap \in BOOLEAN,
         NEW A \in SUBSET Ids, NEW T \in SUBSET Ids, NEW lo \in Nat \ {0},
         \A a \in A : a < lo, \A t \in T : t < lo,
         NEW hi \in Nat, lo - 1 <= hi, hi <= Len(added),
         NEW r, NEW f, RingOK(r, A, added), RecentOK(f, r), BreaksOK(r, T),
         r # << >> => \A t \in T : t > Newest(r).id => pendingGap
  PROVE LoopOK(Ingested(r, f, lo, hi), hi, A, T, lo)
<1>1. PICK s : IsLoop(s, r, f, lo, hi) /\ Ingested(r, f, lo, hi) = s[hi]
  BY IngestedIsLoop
<1> DEFINE Bad == {n \in Nat : n \in lo - 1..hi /\ ~LoopOK(s[n], n, A, T, lo)}
<1>2. LoopOK(Start(r, f), lo - 1, A, T, lo)
  <2> DEFINE t == Start(r, f)
  <2>1. t.ring = r /\ t.recent = f /\ t.gap = pendingGap /\ t.new = << >>
    BY DEF Start
  <2> HIDE DEF t
  <2>2. t.new \in Seq(Ids) /\ DOMAIN t.new = {}
    BY <2>1, SMTT(30)
  <2>3. A \cup Range(t.new) = A
    BY <2>2 DEF Range
  <2>4. lo..lo - 1 = {}
    BY SMTT(30)
  <2>5. LoopOK(t, lo - 1, A, T, lo)
    BY <2>1, <2>2, <2>3, <2>4 DEF LoopOK
  <2> QED BY <2>5 DEF t
<1>3. \A n \in lo - 1..hi : s[n] = IF n < lo THEN Start(r, f) ELSE ingest(s[n - 1], n)
  BY <1>1 DEF IsLoop
<1>4. CASE Bad # {}
  <2>1. PICK n \in Bad : \A m \in Bad : n <= m
    BY <1>4, Least
  <2>2. CASE n < lo
    <3>1. n = lo - 1 /\ s[n] = Start(r, f)
      BY <1>3, <2>1, <2>2, SMTT(30)
    <3> QED BY <1>2, <2>1, <3>1
  <2>3. CASE n >= lo
    <3>1. n - 1 \in lo - 1..hi /\ n - 1 \in Nat /\ ~(n <= n - 1)
      BY <2>1, <2>3, SMTT(30)
    <3>2. LoopOK(s[n - 1], n - 1, A, T, lo)
      BY <2>1, <3>1
    <3>3. n \in lo..Len(added)
      BY <2>1, <2>3, SMTT(30)
    <3>4. LoopOK(ingest(s[n - 1], n), n, A, T, lo)
      BY <3>2, <3>3, IngestStep
    <3>5. s[n] = ingest(s[n - 1], n)
      BY <1>3, <2>1, <2>3, SMTT(30)
    <3> QED BY <2>1, <3>4, <3>5
  <2> QED BY <2>1, <2>2, <2>3, SMTT(30)
<1>5. CASE Bad = {}
  BY <1>1, <1>5, SMTT(30)
<1> QED BY <1>4, <1>5

-----------------------------------------------------------------------------
(* The invariant holds initially and every step keeps it.                   *)

Entry == [ts : Int, ok : BOOLEAN]

\* The types the arithmetic below needs.
LEMMA Types ==
  ASSUME TypeOK
  PROVE /\ {MaxId, MaxLen, Capacity, RecentFlows, Page, Count} \subseteq Nat \ {0}
        /\ added \in Seq(Entry) /\ Len(added) \in Nat /\ Len(added) <= MaxId
        /\ first \in Nat /\ 1 <= first /\ first <= Len(added) + 1 /\ Len(added) - first < MaxLen
        /\ lastId # None => lastId \in Nat
        /\ base \in Nat
        /\ Ids \subseteq Nat
<1>1. added \in Seq(Entry) /\ Len(added) <= MaxId
  BY DEF TypeOK, Entry
<1>2. Len(added) \in Nat
  BY <1>1, SMTT(30)
<1>3. {MaxId, MaxLen, Capacity, RecentFlows, Page, Count} \subseteq Nat \ {0}
  BY LiveHubAssumption
<1>4. Ids \subseteq Nat
  BY <1>3, SMTT(30) DEF Ids
<1>5. first \in 1..Len(added) + 1 /\ Len(added) - first < MaxLen
  BY DEF TypeOK
<1> QED BY <1>1, <1>2, <1>3, <1>4, <1>5, SMTT(30) DEF TypeOK

\* A ring over no tick is empty, and an empty ring is right.
LEMMA EmptyRing ==
  ASSUME NEW h
  PROVE /\ RingOK(<< >>, {}, h) /\ RecentOK(<< >>, << >>)
        /\ \A T : BreaksOK(<< >>, T)
        /\ \A r : RingOK(r, {}, h) => r = << >>
<1>1. {Capacity, RecentFlows} \subseteq Nat
  BY LiveHubAssumption
<1>2. RingOK(<< >>, {}, h)
  BY <1>1, SMTT(30) DEF RingOK
<1>3. RecentOK(<< >>, << >>)
  BY <1>1, SMTT(30) DEF RecentOK
<1>4. \A T : BreaksOK(<< >>, T)
  BY SMTT(30) DEF BreaksOK
<1>5. ASSUME NEW r, RingOK(r, {}, h) PROVE r = << >>
  <2>1. r \in Seq(Tick) /\ DOMAIN r = {}
    BY <1>5 DEF RingOK
  <2> QED BY <2>1, SMTT(30)
<1> QED BY <1>2, <1>3, <1>4, <1>5

\* The ring depends on the entries only through those it took.
LEMMA RingExtends ==
  ASSUME NEW r, NEW A, NEW g, NEW h, RingOK(r, A, g), \A n \in A : h[n] = g[n]
  PROVE RingOK(r, A, h)
  BY DEF RingOK

\* The hub starts without ticks.
LEMMA InitInv == Init => Inv
<1> SUFFICES ASSUME Init PROVE Inv
  OBVIOUS
<1> USE DEF Init
<1>1. {MaxId, MaxLen, Capacity, RecentFlows} \subseteq Nat \ {0}
  BY LiveHubAssumption
<1>2. added \in Seq([ts : Int, ok : BOOLEAN]) /\ Len(added) = 0
  BY SMTT(30)
<1>3. ring \in Seq([id : Ids, ts : Int, gap : BOOLEAN]) /\ Len(ring) = 0
  BY SMTT(30)
<1>4. recent \in Seq(Ids) /\ Len(recent) = 0
  BY SMTT(30)
<1>5. TypeOK
  <2>1. first \in 1..Len(added) + 1 /\ Len(added) - first < MaxLen /\ Len(added) <= MaxId
    BY <1>1, <1>2, SMTT(30)
  <2>2. Len(ring) <= Capacity /\ Len(recent) <= RecentFlows
    BY <1>1, <1>3, <1>4, SMTT(30)
  <2> QED BY <1>2, <1>3, <1>4, <2>1, <2>2 DEF TypeOK
<1>6. PcInv /\ PositionInv /\ PendingInv /\ NoneMissed /\ SubInv
  BY DEF PcInv, PositionInv, PendingInv, NoneMissed, SubInv
<1>7. RingInv
  BY EmptyRing DEF RingInv
<1> QED BY <1>5, <1>6, <1>7 DEF Inv

\* XADD: what it trims unread is above all the hub took, and is accounted for.
LEMMA AddStep ==
  ASSUME Inv, NEW step \in Steps \cup {None}, Add(step)
  PROVE Inv'
<1> DEFINE n == Len(added) + 1
           last == IF added = << >> THEN 0 ELSE Newest(added).ts
           e == [ts |-> IF step = None THEN last ELSE last + step, ok |-> step # None]
           oldest == IF n - first < MaxLen THEN first ELSE n - MaxLen + 1
           lost == {m \in first..oldest - 1 : m > Position}
<1>1. /\ n <= MaxId
      /\ pc # "top" => lost = {}
      /\ added' = Append(added, e)
      /\ first' = oldest
      /\ trimmed' = trimmed \cup lost
      /\ UNCHANGED <<up, wiped, pc, entries, ring, recent, lastId, resync, pendingGap, sub, accepted, base>>
  BY DEF Add, history
<1>2. TypeOK /\ PcInv /\ PositionInv /\ PendingInv /\ RingInv /\ NoneMissed /\ SubInv
  BY DEF Inv
<1>3. /\ MaxId \in Nat \ {0} /\ MaxLen \in Nat \ {0}
      /\ added \in Seq(Entry) /\ Len(added) \in Nat /\ Len(added) <= MaxId
      /\ first \in Nat /\ 1 <= first /\ first <= Len(added) + 1 /\ Len(added) - first < MaxLen
      /\ lastId # None => lastId \in Nat
      /\ base \in Nat /\ Ids \subseteq Nat
  BY <1>2, Types
<1>4. e \in Entry
  <2>1. last \in Int
    <3>1. CASE added # << >>
      <4>1. Len(added) \in 1..Len(added)
        BY <1>3, <3>1, SMTT(30)
      <4>2. added[Len(added)] \in Entry
        BY <1>3, <4>1, ElementOf
      <4> QED BY <3>1, <4>2 DEF Newest, Entry
    <3> QED BY <3>1, SMTT(30)
  <2>2. step # None => step \in Int
    BY LiveHubAssumption
  <2> HIDE DEF last
  <2>3. (IF step = None THEN last ELSE last + step) \in Int
    BY <2>1, <2>2, SMTT(30)
  <2> QED BY <2>3 DEF Entry
<1> HIDE DEF e
<1>5. /\ added' \in Seq(Entry) /\ Len(added') = n
      /\ \A m \in 1..Len(added) : added'[m] = added[m]
  <2>1. AppendOK(Entry, added, e, Append(added, e))
    BY <1>3, <1>4, AppendAt
  <2> QED BY <1>1, <2>1 DEF AppendOK
<1>6. /\ oldest \in Nat /\ first <= oldest /\ oldest <= n /\ n - oldest < MaxLen
      /\ n \in Nat
  <2>1. n \in Nat /\ first <= n /\ n - first <= MaxLen
    BY <1>3, SMTT(30)
  <2>2. CASE n - first < MaxLen
    BY <1>3, <2>1, <2>2, SMTT(30)
  <2>3. CASE ~(n - first < MaxLen)
    <3>1. oldest = n - MaxLen + 1
      BY <2>3
    <3> QED BY <1>3, <2>1, <2>3, <3>1, SMTT(30)
  <2> QED BY <2>2, <2>3
<1>7. lost \subseteq first..oldest - 1 /\ \A m \in lost : m > Position
  OBVIOUS
<1>8. \A m \in first..oldest - 1 : m \in Nat /\ m <= MaxId /\ m \in Ids /\ (m > Position => m \in lost)
  BY <1>3, <1>6, SMTT(30) DEF Ids
<1> HIDE DEF lost, oldest
<1>9. ASSUME NEW m \in lost
      PROVE /\ m \in Ids /\ m \in Nat /\ m >= first /\ m < first'
            /\ pc = "top" /\ lastId # None /\ m > lastId
  <2>1. m \in first..oldest - 1 /\ m > Position /\ pc = "top"
    BY <1>1, <1>7
  <2>2. m \in Nat /\ m <= MaxId /\ m \in Ids
    BY <1>8, <2>1
  <2>3. lastId # None
    BY <1>3, <2>1, <2>2, SMTT(30) DEF Position
  <2>4. m > lastId
    BY <2>1, <2>3 DEF Position
  <2> QED BY <1>1, <1>3, <1>6, <2>1, <2>2, <2>3, <2>4, SMTT(30)
<1>10. TypeOK'
  <2>1. added' \in Seq([ts : Int, ok : BOOLEAN]) /\ Len(added') <= MaxId
    BY <1>1, <1>5 DEF Entry
  <2>2. first' \in 1..Len(added') + 1 /\ Len(added') - first' < MaxLen
    BY <1>1, <1>3, <1>5, <1>6, SMTT(30)
  <2>3. trimmed' \subseteq Ids
    BY <1>1, <1>2, <1>9 DEF TypeOK
  <2> QED BY <1>1, <1>2, <2>1, <2>2, <2>3 DEF TypeOK
<1>11. PcInv'
  <2>1. ASSUME pc = "backfill" PROVE first' <= entries.hi + 1 /\ entries.hi <= Len(added')
    <3>1. entries.hi \in Ids /\ entries.hi <= Len(added) /\ first <= entries.hi + 1
      BY <1>2, <2>1 DEF PcInv
    <3>2. entries.hi \in Nat
      BY <1>3, <3>1
    <3>3. \A m \in first..oldest - 1 : m <= entries.hi
      BY <1>1, <1>8, <2>1, <3>2, SMTT(30) DEF Position
    <3>4. oldest > first => oldest - 1 \in first..oldest - 1
      BY <1>3, <1>6, SMTT(30)
    <3> QED BY <1>1, <1>3, <1>5, <1>6, <3>1, <3>2, <3>3, <3>4, SMTT(30)
  <2> QED BY <1>1, <1>2, <2>1 DEF PcInv
<1>12. PositionInv'
  <2>1. lastId = None => lost = {}
    BY <1>9
  <2>2. lastId # None => lastId <= Len(added') /\ base <= Len(added')
    BY <1>2, <1>3, <1>5, SMTT(30) DEF PositionInv
  <2>3. ASSUME lastId # None, NEW m \in 1..first' - 1, m > lastId, m > base
        PROVE m \in trimmed' \cup wiped
    <3>1. CASE m < first
      BY <1>1, <1>2, <1>3, <2>3, <3>1, SMTT(30) DEF PositionInv
    <3>2. CASE m >= first
      <4>1. m \in first..oldest - 1
        BY <1>1, <1>3, <1>6, <3>2, SMTT(30)
      <4>2. Position = lastId
        BY <1>2, <2>3 DEF Position, PcInv
      <4> QED BY <1>1, <1>8, <2>3, <4>1, <4>2
    <3> QED BY <1>3, <3>1, <3>2, SMTT(30)
  <2>4. \A m \in trimmed' : m < first' /\ first' <= Len(added')
    <3>1. \A m \in trimmed : m \in Nat /\ m < first
      BY <1>2, <1>3 DEF TypeOK, PositionInv
    <3>2. \A m \in trimmed : m < first'
      BY <1>1, <1>3, <1>6, <3>1, SMTT(30)
    <3>3. first' <= Len(added')
      BY <1>1, <1>5, <1>6
    <3> QED BY <1>1, <1>9, <3>2, <3>3
  <2>5. lastId = None => accepted = {} /\ trimmed' = {}
    BY <1>1, <1>2, <2>1 DEF PositionInv
  <2>6. lastId # None => \A m \in accepted : m <= lastId
    BY <1>2 DEF PositionInv
  <2> QED BY <1>1, <2>2, <2>3, <2>4, <2>5, <2>6 DEF PositionInv
<1>13. PendingInv'
  BY <1>1, <1>2, <1>9 DEF PendingInv
<1>14. \A m \in accepted : m \in 1..Len(added) /\ added'[m] = added[m]
  <2>1. SUFFICES ASSUME NEW m \in accepted PROVE m \in 1..Len(added)
    BY <1>5
  <2>2. m \in Ids /\ m \in Nat /\ lastId # None /\ m <= lastId /\ lastId <= Len(added)
    BY <1>2, <1>3 DEF PositionInv, TypeOK
  <2> QED BY <1>3, <2>2, SMTT(30) DEF Ids
<1>15. RingInv'
  <2>1. RingOK(ring, accepted, added')
    <3>1. RingOK(ring, accepted, added)
      BY <1>2 DEF RingInv
    <3> QED BY <1>14, <3>1, RingExtends
  <2>2. BreaksOK(ring, trimmed')
    <3>1. BreaksOK(ring, trimmed)
      BY <1>2 DEF RingInv
    <3>2. \A k \in DOMAIN ring : \A m \in lost : ~(m < ring[k].id)
      <4>1. SUFFICES ASSUME NEW k \in DOMAIN ring, NEW m \in lost PROVE ~(m < ring[k].id)
        OBVIOUS
      <4>2. ring[k].id \in accepted
        BY <1>2 DEF RingInv, RingOK
      <4>3. ring[k].id \in Nat /\ ring[k].id <= lastId
        BY <1>2, <1>9, <1>14, <4>2, SMTT(30) DEF PositionInv
      <4> QED BY <1>3, <1>9, <4>3, SMTT(30)
    <3> QED BY <1>1, <3>1, <3>2 DEF BreaksOK
  <2> QED BY <1>1, <1>2, <2>1, <2>2 DEF RingInv
<1>16. NoneMissed'
  <2>1. SUFFICES ASSUME lastId # None, NEW m \in base + 1..lastId
                 PROVE \/ m \in accepted \cup trimmed' \cup wiped
                       \/ ~added'[m].ok
                       \/ \E a \in accepted : a < m /\ added'[m].ts <= added'[a].ts
    BY <1>1 DEF NoneMissed
  <2>2. \/ m \in accepted \cup trimmed \cup wiped
        \/ ~added[m].ok
        \/ \E a \in accepted : a < m /\ added[m].ts <= added[a].ts
    BY <1>2, <2>1 DEF NoneMissed
  <2>3. m \in 1..Len(added)
    BY <1>2, <1>3, <2>1, SMTT(30) DEF PositionInv
  <2> QED BY <1>1, <1>5, <1>14, <2>2, <2>3
<1>17. SubInv'
  BY <1>1, <1>2 DEF SubInv
<1> QED BY <1>10, <1>11, <1>12, <1>13, <1>15, <1>16, <1>17 DEF Inv

\* The connection comes or goes, a command fails, someone subscribes: the
\* ring and the stream stay as they are.
LEMMA QuietStep ==
  ASSUME Inv, Connect \/ Disconnect \/ Subscribe \/ \E lost \in BOOLEAN : Fail(lost)
  PROVE Inv'
<1>1. TypeOK /\ PcInv /\ PositionInv /\ PendingInv /\ RingInv /\ NoneMissed /\ SubInv
  BY DEF Inv
<1>2. CASE Connect
  <2>1. up' = TRUE /\ UNCHANGED <<added, first, trimmed, wiped, pc, entries, ring, recent, lastId,
                                  resync, pendingGap, sub, accepted, base>>
    BY <1>2 DEF Connect, history
  <2> QED BY <1>1, <2>1
        DEF Inv, TypeOK, PcInv, PositionInv, PendingInv, RingInv, NoneMissed, SubInv
<1>3. CASE Disconnect
  <2>1. up' = FALSE /\ pc = "top"
        /\ UNCHANGED <<added, first, trimmed, wiped, pc, entries, ring, recent, lastId,
                       resync, pendingGap, sub, accepted, base>>
    BY <1>3 DEF Disconnect, history
  <2> QED BY <1>1, <2>1 DEF Inv, TypeOK, PcInv, PositionInv, PendingInv, RingInv, NoneMissed, SubInv
<1>4. CASE \E lost \in BOOLEAN : Fail(lost)
  <2>1. up' \in BOOLEAN /\ pc' = "top" /\ pc # "top" /\ resync' = TRUE /\ entries' = None
        /\ UNCHANGED <<added, first, trimmed, wiped, ring, recent, lastId, pendingGap, sub, accepted, base>>
    BY <1>4 DEF Fail, history
  <2>2. TypeOK'
    BY <1>1, <2>1 DEF TypeOK
  <2>3. PcInv' /\ PositionInv'
    BY <1>1, <2>1 DEF PcInv, PositionInv
  <2>4. PendingInv'
    BY <1>1, <2>1 DEF PendingInv
  <2>5. RingInv' /\ NoneMissed' /\ SubInv'
    BY <1>1, <2>1 DEF RingInv, NoneMissed, SubInv
  <2> QED BY <2>2, <2>3, <2>4, <2>5 DEF Inv
<1>5. CASE Subscribe
  <2> DEFINE hello == IF ring = << >> THEN None ELSE Newest(ring).id
  <2>1. sub' = [hello |-> hello, heard |-> << >>]
        /\ UNCHANGED <<added, first, up, trimmed, wiped, pc, entries, ring, recent, lastId, resync,
                       pendingGap, accepted, base>>
    BY <1>5 DEF Subscribe, history, redisVars
  <2>2. RingOK(ring, accepted, added) /\ accepted \subseteq Ids
    BY <1>1 DEF RingInv, TypeOK
  <2>3. ring # << >> => Newest(ring).id \in accepted
    <3>1. ASSUME ring # << >> PROVE Len(ring) \in DOMAIN ring
      BY <2>2, <3>1, SMTT(30) DEF RingOK
    <3> QED BY <2>2, <3>1 DEF RingOK, Newest
  <2>4. \A m \in accepted : m <= Newest(ring).id
    BY <2>2 DEF RingOK
  <2>5. hello \in Ids \cup {None}
    BY <2>2, <2>3
  <2>6. hello # None => hello \in accepted /\ \A m \in accepted : ~(m > hello)
    <3>1. ASSUME hello # None PROVE hello = Newest(ring).id /\ hello \in accepted
      BY <2>3, <3>1
    <3>2. \A m \in Ids : m \in Int
      BY <1>1, Types, SMTT(30)
    <3> HIDE DEF hello
    <3> QED BY <2>2, <2>4, <3>1, <3>2, SMTT(30)
  <2> HIDE DEF hello
  <2>7. sub' \in [hello : Ids \cup {None}, heard : Seq(Ids)] /\ sub'.hello = hello /\ sub'.heard = << >>
    BY <2>1, <2>5, SMTT(30)
  <2>8. TypeOK'
    BY <1>1, <2>1, <2>7 DEF TypeOK
  <2>9. SubInv'
    <3>1. Range(sub'.heard) = {} /\ DOMAIN sub'.heard = {}
      BY <2>7, SMTT(30) DEF Range
    <3>2. hello # None => {m \in accepted : m > hello} = {}
      BY <2>6
    <3> QED BY <2>1, <2>6, <2>7, <3>1, <3>2 DEF SubInv
  <2>10. PcInv' /\ PositionInv' /\ PendingInv' /\ RingInv' /\ NoneMissed'
    BY <1>1, <2>1 DEF PcInv, PositionInv, PendingInv, RingInv, NoneMissed
  <2> QED BY <2>8, <2>9, <2>10 DEF Inv
<1> QED BY <1>2, <1>3, <1>4, <1>5

\* Redis loses the stream: what the hub had not read is accounted for.
LEMMA WipeStep ==
  ASSUME Inv, Wipe
  PROVE Inv'
<1>1. TypeOK /\ PcInv /\ PositionInv /\ PendingInv /\ RingInv /\ NoneMissed /\ SubInv
  BY DEF Inv
<1>2. /\ ~up /\ first <= Len(added)
      /\ first' = Len(added) + 1
      /\ wiped' = wiped \cup trimmed \cup first..Len(added)
      /\ trimmed' = {}
      /\ UNCHANGED <<added, up, pc, entries, ring, recent, lastId, resync, pendingGap, sub, accepted, base>>
  BY DEF Wipe, history
<1>3. /\ MaxId \in Nat \ {0} /\ MaxLen \in Nat \ {0} /\ Len(added) \in Nat /\ Len(added) <= MaxId
      /\ first \in Nat /\ 1 <= first /\ first <= Len(added) + 1
      /\ lastId # None => lastId \in Nat
      /\ base \in Nat /\ Ids \subseteq Nat
  BY <1>1, Types
<1>4. TypeOK'
  <2>1. first' \in 1..Len(added') + 1 /\ Len(added') - first' < MaxLen
    BY <1>2, <1>3, SMTT(30)
  <2>2. first..Len(added) \subseteq Ids
    BY <1>3, SMTT(30) DEF Ids
  <2>3. wiped' \subseteq Ids /\ trimmed' \subseteq Ids
    BY <1>1, <1>2, <2>2 DEF TypeOK
  <2> QED BY <1>1, <1>2, <2>1, <2>3 DEF TypeOK
<1>5. PcInv'
  BY <1>1, <1>2 DEF PcInv
<1>6. PositionInv'
  <2>1. ASSUME lastId # None, NEW m \in 1..first' - 1, m > lastId, m > base
        PROVE m \in trimmed' \cup wiped'
    <3>1. CASE m < first
      BY <1>1, <1>2, <1>3, <2>1, <3>1, SMTT(30) DEF PositionInv
    <3>2. CASE m >= first
      BY <1>2, <1>3, <3>2, SMTT(30)
    <3> QED BY <1>3, <3>1, <3>2, SMTT(30)
  <2> QED BY <1>1, <1>2, <2>1 DEF PositionInv
<1>7. PendingInv' /\ RingInv' /\ NoneMissed' /\ SubInv'
  BY <1>1, <1>2 DEF PendingInv, RingInv, BreaksOK, NoneMissed, SubInv
<1> QED BY <1>4, <1>5, <1>6, <1>7 DEF Inv

\* #checkTrimmed finds every entry that was trimmed above the hub's position.
LEMMA CheckStep ==
  ASSUME Inv, checkTrimmed
  PROVE Inv'
<1>1. TypeOK /\ PcInv /\ PositionInv /\ PendingInv /\ RingInv /\ NoneMissed /\ SubInv
  BY DEF Inv
<1>2. /\ up /\ pc = "top" /\ lastId # None
      /\ pendingGap' = (pendingGap \/ (first <= Len(added) /\ first > lastId))
      /\ resync' = FALSE
      /\ pc' = "read"
      /\ UNCHANGED <<added, first, up, trimmed, wiped, entries, ring, recent, lastId, sub, accepted, base>>
  BY DEF checkTrimmed, history, redisVars
<1>3. pendingGap \in BOOLEAN /\ pendingGap' \in BOOLEAN
  BY <1>1, <1>2 DEF TypeOK
<1>4. TypeOK'
  BY <1>1, <1>2, <1>3 DEF TypeOK
<1>5. PcInv' /\ PositionInv' /\ RingInv' /\ NoneMissed' /\ SubInv'
  BY <1>1, <1>2 DEF PcInv, PositionInv, RingInv, NoneMissed, SubInv
<1>6. PendingInv'
  <2>1. SUFFICES ASSUME ring # << >>, NEW m \in trimmed, m > Newest(ring).id PROVE pendingGap'
    BY <1>2 DEF PendingInv
  <2>2. pendingGap \/ m > lastId
    BY <1>1, <2>1 DEF PendingInv
  <2>3. m < first /\ first <= Len(added)
    BY <1>1 DEF PositionInv
  <2>4. m \in Nat /\ first \in Nat /\ lastId \in Nat
    BY <1>1, <1>2, Types DEF TypeOK
  <2>5. m > lastId => first > lastId
    BY <2>3, <2>4, SMTT(30)
  <2> QED BY <1>2, <1>3, <2>2, <2>3, <2>5
<1> QED BY <1>4, <1>5, <1>6 DEF Inv

PageOK(lo, hi) ==
  /\ lo \in Nat /\ hi \in Nat /\ 1 <= lo /\ lo - 1 <= hi
  /\ hi <= Len(added) /\ first <= hi + 1
  /\ hi - lo + 1 <= Capacity

\* The pages read so far are an interval of ids that ends at or after the
\* oldest entry, and never more than the ring can hold; a full page adds to it.
LEMMA PageFacts ==
  ASSUME TypeOK, PcInv, pc # "read"
  PROVE /\ PageOK(Loaded.lo - PageLength, Loaded.hi)
        /\ ~(PageLength < PageCount) => Loaded.lo - PageLength <= Loaded.hi
<1>1. /\ Capacity \in Nat \ {0} /\ Page \in Nat \ {0} /\ MaxId \in Nat
      /\ Len(added) \in Nat /\ first \in Nat /\ 1 <= first /\ first <= Len(added) + 1
      /\ Ids \subseteq Nat
  BY Types
<1> DEFINE l == Loaded.lo
           h == Loaded.hi
<1>2. /\ l \in Nat /\ h \in Nat /\ 1 <= l /\ l <= h + 1 /\ h <= Len(added) /\ first <= h + 1
      /\ h - l + 1 < Capacity
  <2>1. CASE pc = "backfill"
    <3>1. /\ Loaded = entries /\ entries \in [lo : Ids, hi : Ids]
          /\ entries.lo <= entries.hi /\ entries.hi <= Len(added)
          /\ entries.hi - entries.lo + 1 < Capacity
          /\ first <= entries.hi + 1
      BY <2>1 DEF PcInv, Loaded
    <3>2. l \in Ids /\ h \in Ids
      BY <3>1
    <3>3. l \in Nat /\ h \in Nat /\ 1 <= l
      BY <1>1, <3>2, SMTT(30) DEF Ids
    <3> HIDE DEF l, h
    <3>4. l <= h /\ h <= Len(added) /\ h - l + 1 < Capacity /\ first <= h + 1
      BY <3>1 DEF l, h
    <3> QED BY <3>3, <3>4, SMTT(30)
  <2>2. CASE pc # "backfill"
    <3>1. l = Len(added) + 1 /\ h = Len(added)
      BY <2>2 DEF Loaded
    <3> HIDE DEF l, h
    <3> QED BY <1>1, <3>1, SMTT(30)
  <2> QED BY <2>1, <2>2
<1> DEFINE c == PageCount
           p == PageLength
<1>3. c = Shorter(Page, Capacity - (h - l + 1)) /\ p = IF l > first THEN Shorter(l - first, c) ELSE 0
  BY DEF PageCount, PageLength
<1> HIDE DEF l, h, c, p
<1>4. c \in Nat /\ 1 <= c /\ c <= Capacity - (h - l + 1)
  BY <1>1, <1>2, <1>3, SMTT(30) DEF Shorter
<1>5. p \in Nat /\ p <= c /\ l - p >= 1
  <2>1. CASE l > first
    BY <1>1, <1>2, <1>3, <1>4, <2>1, SMTT(30) DEF Shorter
  <2>2. CASE ~(l > first)
    BY <1>1, <1>2, <1>3, <1>4, <2>2, SMTT(30)
  <2> QED BY <2>1, <2>2
<1>6. PageOK(l - p, h)
  <2>1. l - p \in Nat /\ l - p - 1 <= h
    BY <1>2, <1>5, SMTT(30)
  <2>2. h - (l - p) + 1 <= Capacity
    BY <1>1, <1>2, <1>4, <1>5, SMTT(30)
  <2> QED BY <1>2, <1>5, <2>1, <2>2 DEF PageOK
<1>7. ~(p < c) => l - p <= h
  BY <1>2, <1>4, <1>5, SMTT(30)
<1> QED BY <1>6, <1>7 DEF l, h, c, p

\* A page of the backfill; the last one fills the ring.
LEMMA BackfillStep ==
  ASSUME Inv, BackfillPage
  PROVE Inv'
<1> DEFINE lo == Loaded.lo - PageLength
           hi == Loaded.hi
           s == Ingested(<< >>, << >>, lo, hi)
           done == PageLength < PageCount \/ hi - lo + 1 >= Capacity
<1>1. TypeOK /\ PcInv /\ PositionInv /\ PendingInv /\ RingInv /\ NoneMissed /\ SubInv
  BY DEF Inv
<1>2. /\ up /\ pc # "read" /\ lastId = None
      /\ UNCHANGED <<added, first, up, trimmed, wiped, sub>>
  BY DEF BackfillPage, redisVars
<1>3. done => /\ ring' = s.ring /\ recent' = s.recent
              /\ pendingGap' = s.gap
              /\ accepted' = Range(s.new)
              /\ lastId' = startId(lo, hi)
              /\ base' = lo - 1
              /\ resync' = FALSE
              /\ entries' = None
              /\ pc' = "read"
  BY DEF BackfillPage
<1>4. ~done => /\ entries' = [lo |-> lo, hi |-> hi]
               /\ pc' = "backfill"
               /\ UNCHANGED <<ring, recent, lastId, resync, pendingGap, accepted, base>>
  BY DEF BackfillPage, history
<1>5. /\ MaxId \in Nat \ {0} /\ Capacity \in Nat \ {0} /\ Len(added) \in Nat /\ Len(added) <= MaxId
      /\ first \in Nat /\ Ids \subseteq Nat
  BY <1>1, Types
<1>6. /\ PageOK(lo, hi)
      /\ ~(PageLength < PageCount) => lo <= hi
  BY <1>1, <1>2, PageFacts
<1>7. accepted = {} /\ trimmed = {}
  BY <1>1, <1>2 DEF PositionInv
<1>8. sub # None => sub.hello = None
  BY <1>1, <1>7 DEF SubInv
<1>9. CASE done
  <2> HIDE DEF lo, hi
  <2>1. lo \in Nat \ {0} /\ hi \in Nat /\ lo - 1 <= hi /\ hi <= Len(added) /\ first <= hi + 1
    BY <1>6, SMTT(30) DEF PageOK
  <2>2. LoopOK(s, hi, {}, {}, lo)
    <3>1. added \in Seq([ts : Int, ok : BOOLEAN]) /\ Len(added) <= MaxId /\ pendingGap \in BOOLEAN
      BY <1>1 DEF TypeOK
    <3>2. RingOK(<< >>, {}, added) /\ RecentOK(<< >>, << >>) /\ BreaksOK(<< >>, {})
      BY EmptyRing
    <3> QED BY <2>1, <3>1, <3>2, LoopKeeps
  <2> HIDE DEF s
  <2>3. {} \cup Range(s.new) = accepted'
    BY <1>3, <1>9
  <2>4. /\ s.gap \in BOOLEAN /\ s.new \in Seq(Ids)
        /\ \A k \in DOMAIN s.new : lo <= s.new[k] /\ s.new[k] <= hi
        /\ RingOK(s.ring, accepted', added)
        /\ RecentOK(s.recent, s.ring)
        /\ BreaksOK(s.ring, {})
        /\ \A m \in lo..hi : SeenOK(m, accepted', added)
    BY <2>2, <2>3 DEF LoopOK
  <2>5. \A m \in accepted' : m \in Ids /\ lo <= m /\ m <= hi
    <3>1. \A k \in DOMAIN s.new : s.new[k] \in Ids
      BY <2>4, SMTT(30)
    <3> QED BY <1>3, <1>9, <2>4, <3>1, SMTT(30) DEF Range
  <2>6. lastId' = (IF lo > hi THEN 0 ELSE hi) /\ lastId' # None /\ lastId' \in Nat
    BY <1>3, <1>9, <2>1, LiveHubAssumption, SMTT(30) DEF startId
  <2>7. RingInv'
    BY <1>2, <1>3, <1>7, <1>9, <2>4 DEF RingInv
  <2>8. TypeOK'
    <3>1. ring' \in Seq([id : Ids, ts : Int, gap : BOOLEAN]) /\ Len(ring') <= Capacity
      BY <2>7 DEF RingInv, RingOK, Tick
    <3>2. recent' \in Seq(Ids) /\ Len(recent') <= RecentFlows
      BY <2>7 DEF RingInv, RecentOK
    <3>3. lastId' \in Ids \cup {0, None} /\ base' \in Ids \cup {0}
      BY <1>3, <1>5, <1>9, <2>1, <2>6, SMTT(30) DEF Ids
    <3>4. accepted' \subseteq Ids
      BY <2>5
    <3>5. pc' = "read" /\ entries' = None /\ resync' = FALSE /\ pendingGap' \in BOOLEAN
      BY <1>3, <1>9, <2>4
    <3> QED BY <1>1, <1>2, <3>1, <3>2, <3>3, <3>4, <3>5 DEF TypeOK
  <2>9. PcInv'
    BY <1>2, <1>3, <1>9, <2>6 DEF PcInv
  <2>10. PositionInv'
    <3>1. lastId' <= Len(added) /\ base' <= Len(added)
      BY <1>3, <1>5, <1>9, <2>1, <2>6, SMTT(30)
    <3>2. \A m \in accepted' : m <= lastId'
      <4>1. \A m \in accepted' : m \in Nat /\ lo <= m /\ m <= hi
        BY <1>5, <2>5
      <4>2. lo > hi => \A m \in Nat : ~(lo <= m /\ m <= hi)
        BY <2>1, SMTT(30)
      <4> QED BY <2>6, <4>1, <4>2
    <3>3. \A m \in 1..first - 1 : ~(m > lastId' /\ m > base')
      BY <1>3, <1>5, <1>9, <2>1, <2>6, SMTT(30)
    <3> QED BY <1>2, <1>7, <2>6, <3>1, <3>2, <3>3 DEF PositionInv
  <2>11. PendingInv'
    BY <1>2, <1>7 DEF PendingInv
  <2>12. NoneMissed'
    <3>1. \A m \in base' + 1..lastId' : m \in lo..hi
      BY <1>3, <1>9, <2>1, <2>6, SMTT(30)
    <3> QED BY <1>2, <2>4, <3>1 DEF NoneMissed, SeenOK
  <2>13. SubInv'
    BY <1>2, <1>8 DEF SubInv
  <2> QED BY <2>7, <2>8, <2>9, <2>10, <2>11, <2>12, <2>13 DEF Inv
<1>10. CASE ~done
  <2>1. lo <= hi /\ ~(hi - lo + 1 >= Capacity)
    BY <1>6, <1>10
  <2> HIDE DEF lo, hi, s
  <2>2. /\ lo \in Nat /\ hi \in Nat /\ 1 <= lo /\ hi <= Len(added) /\ first <= hi + 1
        /\ hi - lo + 1 < Capacity
    BY <1>5, <1>6, <2>1, SMTT(30) DEF PageOK
  <2>3. lo \in Ids /\ hi \in Ids
    BY <1>5, <2>1, <2>2, SMTT(30) DEF Ids
  <2>4. entries' \in [lo : Ids, hi : Ids] /\ entries'.lo = lo /\ entries'.hi = hi
    BY <1>4, <1>10, <2>3, SMTT(30)
  <2>5. TypeOK'
    BY <1>1, <1>2, <1>4, <1>10, <2>4 DEF TypeOK
  <2>6. PcInv'
    BY <1>2, <1>4, <1>10, <2>1, <2>2, <2>4 DEF PcInv
  <2>7. PendingInv'
    BY <1>2, <1>7 DEF PendingInv
  <2>8. PositionInv' /\ RingInv' /\ NoneMissed' /\ SubInv'
    BY <1>1, <1>2, <1>4, <1>10 DEF PositionInv, RingInv, NoneMissed, SubInv
  <2> QED BY <2>5, <2>6, <2>7, <2>8 DEF Inv
<1> QED BY <1>9, <1>10

\* c is u followed by v.
ConcatOK(S, u, v, c) ==
  /\ c \in Seq(S) /\ Len(u) \in Nat /\ DOMAIN c \subseteq Nat \ {0} /\ DOMAIN u = 1..Len(u)
  /\ \A k \in DOMAIN c : \/ k \in DOMAIN u /\ c[k] = u[k]
                         \/ k - Len(u) \in DOMAIN v /\ c[k] = v[k - Len(u)]
  /\ \A k \in DOMAIN u : k \in DOMAIN c /\ c[k] = u[k]
  /\ Range(c) = Range(u) \cup Range(v)

\* Concatenating two sequences.
LEMMA ConcatAt ==
  ASSUME NEW S, NEW u \in Seq(S), NEW v \in Seq(S)
  PROVE ConcatOK(S, u, v, u \o v)
<1> DEFINE c == u \o v
<1>1. /\ c \in Seq(S) /\ Len(u) \in Nat /\ Len(v) \in Nat
      /\ DOMAIN c = 1..Len(u) + Len(v) /\ DOMAIN u = 1..Len(u) /\ DOMAIN v = 1..Len(v)
      /\ \A k \in 1..Len(u) + Len(v) : c[k] = IF k <= Len(u) THEN u[k] ELSE v[k - Len(u)]
  BY SMTT(30)
<1> HIDE DEF c
<1>2. \A k \in DOMAIN c : \/ k \in DOMAIN u /\ c[k] = u[k]
                          \/ k - Len(u) \in DOMAIN v /\ c[k] = v[k - Len(u)]
  <2> SUFFICES ASSUME NEW k \in DOMAIN c
               PROVE \/ k \in DOMAIN u /\ c[k] = u[k]
                     \/ k - Len(u) \in DOMAIN v /\ c[k] = v[k - Len(u)]
    OBVIOUS
  <2>1. k \in 1..Len(u) + Len(v)
    BY <1>1
  <2>2. CASE k <= Len(u)
    <3>1. k \in DOMAIN u
      BY <1>1, <2>1, <2>2, SMTT(30)
    <3> QED BY <1>1, <2>1, <2>2, <3>1
  <2>3. CASE ~(k <= Len(u))
    <3>1. k - Len(u) \in DOMAIN v
      BY <1>1, <2>1, <2>3, SMTT(30)
    <3> QED BY <1>1, <2>1, <2>3, <3>1
  <2> QED BY <2>2, <2>3
<1>3. \A k \in DOMAIN u : k \in DOMAIN c /\ c[k] = u[k]
  BY <1>1, SMTT(30)
<1>4. ASSUME NEW k \in DOMAIN v PROVE k + Len(u) \in DOMAIN c /\ c[k + Len(u)] = v[k]
  <2> DEFINE i == k + Len(u)
  <2>1. i \in 1..Len(u) + Len(v) /\ ~(i <= Len(u)) /\ i - Len(u) = k
    BY <1>1, SMTT(30)
  <2> HIDE DEF i
  <2>2. i \in DOMAIN c /\ c[i] = v[k]
    BY <1>1, <2>1
  <2> QED BY <2>2 DEF i
<1>5. Range(c) = Range(u) \cup Range(v)
  <2>1. \A x \in Range(c) : x \in Range(u) \cup Range(v)
    BY <1>2 DEF Range
  <2>2. \A x \in Range(u) : x \in Range(c)
    BY <1>3 DEF Range
  <2>3. \A x \in Range(v) : x \in Range(c)
    BY <1>4 DEF Range
  <2> QED BY <2>1, <2>2, <2>3
<1>6. DOMAIN c \subseteq Nat \ {0}
  BY <1>1, SMTT(30)
<1>7. ConcatOK(S, u, v, c)
  BY <1>1, <1>2, <1>3, <1>5, <1>6 DEF ConcatOK
<1> QED BY <1>7 DEF c

\* An XREAD: what it skips was trimmed, what it returns goes through the loop,
\* and the subscriber hears what the loop takes.
LEMMA ReadStep ==
  ASSUME Inv, readOnce
  PROVE Inv'
<1> DEFINE lo == Unread
           hi == LastRead
           s == Ingested(ring, recent, lo, hi)
<1>1. TypeOK /\ PcInv /\ PositionInv /\ PendingInv /\ RingInv /\ NoneMissed /\ SubInv
  BY DEF Inv
<1>2. /\ up /\ pc = "read" /\ lo <= Len(added)
      /\ ring' = s.ring /\ recent' = s.recent
      /\ pendingGap' = s.gap
      /\ accepted' = accepted \cup Range(s.new)
      /\ sub' = IF sub = None THEN None ELSE [sub EXCEPT !.heard = @ \o s.new]
      /\ lastId' = hi
      /\ UNCHANGED <<added, first, up, trimmed, wiped, pc, entries, resync, base>>
  BY DEF readOnce, redisVars
<1>3. lastId # None
  BY <1>1, <1>2 DEF PcInv
<1>4. /\ MaxId \in Nat \ {0} /\ Count \in Nat \ {0} /\ Len(added) \in Nat /\ Len(added) <= MaxId
      /\ first \in Nat /\ 1 <= first /\ lastId \in Nat /\ base \in Nat /\ Ids \subseteq Nat
  BY <1>1, <1>3, Types
<1>5. lo \in Nat /\ lo >= first /\ lo > lastId /\ (lo = first \/ lo = lastId + 1)
  BY <1>4, SMTT(30) DEF Unread
<1>6. hi = Shorter(Len(added), lo + Count - 1)
  BY DEF LastRead
<1> HIDE DEF lo, hi, s
<1>7. hi \in Nat /\ lo <= hi /\ hi <= Len(added)
  BY <1>2, <1>4, <1>5, <1>6, SMTT(30) DEF Shorter
<1>8. \A m \in accepted : m \in Ids /\ m \in Nat /\ m <= lastId /\ m < lo
  BY <1>1, <1>3, <1>4, <1>5, SMTT(30) DEF PositionInv, TypeOK
<1>9. \A m \in trimmed : m \in Ids /\ m \in Nat /\ m < lo
  BY <1>1, <1>4, <1>5, SMTT(30) DEF PositionInv, TypeOK
<1>10. LoopOK(s, hi, accepted, trimmed, lo)
  <2>1. added \in Seq([ts : Int, ok : BOOLEAN]) /\ Len(added) <= MaxId /\ pendingGap \in BOOLEAN
    BY <1>1 DEF TypeOK
  <2>2. RingOK(ring, accepted, added) /\ RecentOK(recent, ring) /\ BreaksOK(ring, trimmed)
    BY <1>1 DEF RingInv
  <2>3. ring # << >> => \A m \in trimmed : m > Newest(ring).id => pendingGap
    BY <1>1, <1>2 DEF PendingInv
  <2>4. accepted \in SUBSET Ids /\ trimmed \in SUBSET Ids
    BY <1>1 DEF TypeOK
  <2>5. lo \in Nat \ {0} /\ lo - 1 <= hi
    BY <1>4, <1>5, <1>7, SMTT(30)
  <2> QED BY <1>7, <1>8, <1>9, <2>1, <2>2, <2>3, <2>4, <2>5, LoopKeeps DEF s
<1>11. /\ s.gap \in BOOLEAN /\ s.new \in Seq(Ids)
       /\ \A k \in DOMAIN s.new : lo <= s.new[k] /\ s.new[k] <= hi
       /\ \A j, k \in DOMAIN s.new : j < k => s.new[j] < s.new[k]
       /\ RingOK(s.ring, accepted', added)
       /\ RecentOK(s.recent, s.ring)
       /\ BreaksOK(s.ring, trimmed)
       /\ s.ring # << >> => \A t \in trimmed : t > Newest(s.ring).id => s.gap
       /\ \A m \in lo..hi : SeenOK(m, accepted', added)
  BY <1>2, <1>10 DEF LoopOK
<1>12. \A k \in DOMAIN s.new : s.new[k] \in Ids
  BY <1>11, SMTT(30)
<1>13. \A m \in Range(s.new) : m \in Ids /\ lo <= m /\ m <= hi
  BY <1>11, <1>12 DEF Range
<1>14. RingInv'
  BY <1>2, <1>11 DEF RingInv
<1>15. lastId' = hi /\ lastId' # None
  BY <1>2, <1>7, LiveHubAssumption, SMTT(30)
<1>16. /\ sub = None => sub' = None
       /\ sub # None => /\ sub \in [hello : Ids \cup {None}, heard : Seq(Ids)]
                        /\ sub.heard \in Seq(Ids)
                        /\ sub' = [hello |-> sub.hello, heard |-> sub.heard \o s.new]
  BY <1>1, <1>2 DEF TypeOK
<1>17. TypeOK'
  <2>1. ring' \in Seq([id : Ids, ts : Int, gap : BOOLEAN]) /\ Len(ring') <= Capacity
    BY <1>14 DEF RingInv, RingOK, Tick
  <2>2. recent' \in Seq(Ids) /\ Len(recent') <= RecentFlows
    BY <1>14 DEF RingInv, RecentOK
  <2>3. lastId' \in Ids
    BY <1>2, <1>4, <1>5, <1>7, SMTT(30) DEF Ids
  <2>4. accepted' \subseteq Ids
    BY <1>2, <1>8, <1>13
  <2>5. sub' = None \/ sub' \in [hello : Ids \cup {None}, heard : Seq(Ids)]
    <3>1. CASE sub = None
      BY <1>16, <3>1
    <3>2. CASE sub # None
      <4>1. sub.heard \o s.new \in Seq(Ids) /\ sub.hello \in Ids \cup {None}
        BY <1>11, <1>16, <3>2, SMTT(30)
      <4> DEFINE c == sub.heard \o s.new
                 hello == sub.hello
      <4>2. sub' = [hello |-> hello, heard |-> c]
        BY <1>16, <3>2
      <4> HIDE DEF c, hello
      <4> QED BY <4>1, <4>2 DEF c, hello
    <3> QED BY <3>1, <3>2
  <2> QED BY <1>1, <1>2, <1>11, <2>1, <2>2, <2>3, <2>4, <2>5 DEF TypeOK
<1>18. PcInv'
  BY <1>1, <1>2, <1>15 DEF PcInv
<1>19. PositionInv'
  <2>1. lastId' <= Len(added) /\ base <= Len(added)
    BY <1>1, <1>3, <1>7, <1>15 DEF PositionInv
  <2>2. \A m \in accepted' : m <= lastId'
    BY <1>2, <1>4, <1>5, <1>7, <1>8, <1>13, <1>15, SMTT(30)
  <2>3. \A m \in 1..first - 1 : ~(m > lastId')
    BY <1>4, <1>5, <1>7, <1>15, SMTT(30)
  <2>4. \A m \in trimmed : m < first /\ first <= Len(added)
    BY <1>1 DEF PositionInv
  <2> QED BY <1>2, <1>15, <2>1, <2>2, <2>3, <2>4 DEF PositionInv
<1>20. PendingInv'
  BY <1>2, <1>11 DEF PendingInv
<1>21. NoneMissed'
  <2>1. SUFFICES ASSUME NEW m \in base + 1..hi
                 PROVE m \in trimmed \cup wiped \/ SeenOK(m, accepted', added)
    BY <1>2 DEF NoneMissed, SeenOK
  <2>2. m \in Nat /\ m > base /\ m <= hi
    BY <1>4, <1>7, SMTT(30)
  <2>3. CASE m <= lastId
    <3>1. m \in base + 1..lastId
      BY <1>4, <2>2, <2>3, SMTT(30)
    <3>2. m \in trimmed \cup wiped \/ SeenOK(m, accepted, added)
      BY <1>1, <1>3, <3>1 DEF NoneMissed, SeenOK
    <3> QED BY <1>2, <3>2 DEF SeenOK
  <2>4. CASE m > lastId /\ m < lo
    <3>1. m \in 1..first - 1
      BY <1>4, <1>5, <2>2, <2>4, SMTT(30)
    <3> QED BY <1>1, <1>3, <2>2, <2>4, <3>1 DEF PositionInv
  <2>5. CASE m >= lo
    BY <1>5, <1>7, <1>11, <2>2, <2>5, SMTT(30)
  <2> QED BY <1>4, <1>5, <2>2, <2>3, <2>4, <2>5, SMTT(30)
<1>22. SubInv'
  <2>1. SUFFICES ASSUME sub' # None, sub'.hello # None
                 PROVE /\ sub'.hello \in accepted'
                       /\ Range(sub'.heard) = {m \in accepted' : m > sub'.hello}
                       /\ \A j, k \in DOMAIN sub'.heard : j < k => sub'.heard[j] < sub'.heard[k]
    BY DEF SubInv
  <2> DEFINE c == sub.heard \o s.new
             hello == sub.hello
  <2>2. sub # None /\ sub'.hello = hello /\ sub'.heard = c /\ sub.heard \in Seq(Ids)
    <3>1. sub # None /\ sub.heard \in Seq(Ids)
      BY <1>16, <2>1
    <3>2. sub' = [hello |-> hello, heard |-> c]
      BY <1>16, <3>1
    <3> HIDE DEF c, hello
    <3>3. sub'.hello = hello /\ sub'.heard = c
      BY <3>2
    <3> QED BY <3>1, <3>3
  <2>3. /\ hello \in accepted
        /\ Range(sub.heard) = {m \in accepted : m > hello}
        /\ \A j, k \in DOMAIN sub.heard : j < k => sub.heard[j] < sub.heard[k]
    <3>1. sub # None /\ sub.hello # None
      BY <2>1, <2>2
    <3> QED BY <1>1, <3>1 DEF SubInv
  <2>4. ConcatOK(Ids, sub.heard, s.new, c)
    BY <1>11, <2>2, ConcatAt
  <2> HIDE DEF c
  <2>5. /\ Len(sub.heard) \in Nat /\ DOMAIN c \subseteq Nat \ {0} /\ DOMAIN sub.heard = 1..Len(sub.heard)
        /\ \A k \in DOMAIN c : \/ k \in DOMAIN sub.heard /\ c[k] = sub.heard[k]
                               \/ k - Len(sub.heard) \in DOMAIN s.new /\ c[k] = s.new[k - Len(sub.heard)]
    BY <2>4 DEF ConcatOK
  <2>6. \A k \in DOMAIN sub.heard : k \in DOMAIN c /\ c[k] = sub.heard[k]
    BY <2>4 DEF ConcatOK
  <2>8. Range(c) = Range(sub.heard) \cup Range(s.new)
    BY <2>4 DEF ConcatOK
  <2>9. \A m \in Range(s.new) : m > hello
    <3>1. hello \in Nat /\ hello < lo
      BY <1>8, <2>3
    <3>2. \A m \in Range(s.new) : m \in Nat /\ lo <= m
      BY <1>4, <1>13
    <3> QED BY <1>5, <3>1, <3>2, SMTT(30)
  <2>10. Range(c) = {m \in accepted' : m > hello}
    <3> HIDE DEF hello
    <3> QED BY <1>2, <2>3, <2>8, <2>9
  <2>11. ASSUME NEW j \in DOMAIN c, NEW k \in DOMAIN c, j < k PROVE c[j] < c[k]
    <3>1. CASE k \in DOMAIN sub.heard
      <4>1. j \in DOMAIN sub.heard
        BY <2>5, <2>11, <3>1, SMTT(30)
      <4> QED BY <2>3, <2>6, <2>11, <3>1, <4>1
    <3>2. CASE j \in DOMAIN sub.heard /\ k \notin DOMAIN sub.heard
      <4>1. c[j] = sub.heard[j] /\ sub.heard[j] \in Range(sub.heard)
        BY <2>6, <3>2 DEF Range
      <4>2. c[j] \in accepted
        BY <2>3, <4>1
      <4>3. k - Len(sub.heard) \in DOMAIN s.new /\ c[k] = s.new[k - Len(sub.heard)]
        BY <2>5, <3>2
      <4>4. c[k] \in Range(s.new)
        BY <4>3 DEF Range
      <4>5. c[j] \in Nat /\ c[j] < lo /\ c[k] \in Nat /\ lo <= c[k]
        BY <1>4, <1>8, <1>13, <4>2, <4>4
      <4> QED BY <1>5, <4>5, SMTT(30)
    <3>3. CASE j \notin DOMAIN sub.heard
      <4> DEFINE a == j - Len(sub.heard)
                 b == k - Len(sub.heard)
      <4>1. k \notin DOMAIN sub.heard
        BY <2>5, <2>11, <3>3, SMTT(30)
      <4>2. a \in DOMAIN s.new /\ b \in DOMAIN s.new /\ c[j] = s.new[a] /\ c[k] = s.new[b]
        BY <2>5, <3>3, <4>1
      <4>3. a < b
        BY <2>5, <2>11, SMTT(30)
      <4> HIDE DEF a, b
      <4> QED BY <1>11, <4>2, <4>3
    <3> QED BY <3>1, <3>2, <3>3
  <2>12. hello \in accepted'
    BY <1>2, <2>3
  <2> QED BY <2>2, <2>10, <2>11, <2>12
<1> QED BY <1>14, <1>17, <1>18, <1>19, <1>20, <1>21, <1>22 DEF Inv

\* Every step keeps the invariant.
LEMMA InvStep == Inv /\ [Next]_vars => Inv'
<1> SUFFICES ASSUME Inv, [Next]_vars PROVE Inv'
  OBVIOUS
<1>1. CASE UNCHANGED vars
  <2>1. UNCHANGED <<added, first, up, trimmed, wiped, pc, entries, ring, recent, lastId, resync,
                    pendingGap, sub, accepted, base>>
    BY <1>1 DEF vars, redisVars, history
  <2>2. TypeOK' /\ PcInv' /\ PositionInv'
    BY <2>1 DEF Inv, TypeOK, PcInv, PositionInv
  <2>3. PendingInv' /\ RingInv' /\ NoneMissed' /\ SubInv'
    BY <2>1 DEF Inv, PendingInv, RingInv, NoneMissed, SubInv
  <2> QED BY <2>2, <2>3 DEF Inv
<1>2. CASE \E step \in Steps \cup {None} : Add(step)
  BY <1>2, AddStep
<1>3. CASE Connect \/ Disconnect \/ Subscribe \/ \E lost \in BOOLEAN : Fail(lost)
  BY <1>3, QuietStep
<1>4. CASE Wipe
  BY <1>4, WipeStep
<1>5. CASE BackfillPage
  BY <1>5, BackfillStep
<1>6. CASE checkTrimmed
  BY <1>6, CheckStep
<1>7. CASE readOnce
  BY <1>7, ReadStep
<1> QED BY <1>1, <1>2, <1>3, <1>4, <1>5, <1>6, <1>7 DEF Next

-----------------------------------------------------------------------------
(* What holds of the hub.                                                   *)

\* From the backfill on the reader skips no entry of the stream: NoneMissed,
\* for every size of the stream, the ring, a page and an XREAD.
THEOREM Followed == Spec => []NoneMissed
<1>1. Inv => NoneMissed
  BY DEF Inv
<1> QED BY <1>1, InitInv, InvStep, PTL DEF Spec

\* The ring is in order, complete at its new end, and marks every break:
\* GapHonest.
THEOREM Honest == Spec => []GapHonest
<1>1. Inv => GapHonest
  <2> SUFFICES ASSUME Inv PROVE GapHonest
    OBVIOUS
  <2>1. TypeOK /\ RingOK(ring, accepted, added) /\ RecentOK(recent, ring) /\ BreaksOK(ring, trimmed)
    BY DEF Inv, RingInv
  <2>2. {n \in accepted : ring = << >> \/ n >= ring[1].id} = {ring[k].id : k \in DOMAIN ring}
    <3>1. \A k \in DOMAIN ring : ring[k].id \in accepted /\ ring[k].id >= ring[1].id
      <4>1. SUFFICES ASSUME NEW k \in DOMAIN ring
                     PROVE ring[k].id \in accepted /\ ring[k].id >= ring[1].id
        OBVIOUS
      <4>2. ring \in Seq(Tick) /\ k \in 1..Len(ring) /\ 1 \in DOMAIN ring /\ k \in Nat
        BY <2>1, SMTT(30) DEF RingOK
      <4>3. ring[k] \in Tick /\ ring[1] \in Tick
        BY <4>2, SMTT(30)
      <4>4. ring[k].id \in Int /\ ring[1].id \in Int
        BY <2>1, <4>3, Types, SMTT(30) DEF Tick
      <4>5. 1 < k => ring[1].id < ring[k].id
        BY <2>1, <4>2 DEF RingOK
      <4>6. k = 1 \/ 1 < k
        BY <4>2, SMTT(30)
      <4> QED BY <2>1, <4>4, <4>5, <4>6, SMTT(30) DEF RingOK
    <3>2. \A n \in accepted : ring # << >> /\ (n >= ring[1].id => \E k \in DOMAIN ring : ring[k].id = n)
      BY <2>1 DEF RingOK
    <3> QED BY <3>1, <3>2
  <2>3. recent = [k \in DOMAIN recent |-> ring[Len(ring) - Len(recent) + k].id]
    BY <2>1, SMTT(30) DEF RecentOK
  <2>4. \A j, k \in DOMAIN ring : j < k => ring[j].id < ring[k].id /\ ring[j].ts < ring[k].ts
    BY <2>1 DEF RingOK
  <2> QED BY <2>1, <2>2, <2>3, <2>4 DEF GapHonest, BreaksOK
<1> QED BY <1>1, InitInv, InvStep, PTL DEF Spec

\* A subscriber hears every tick after the one hello named, once and in order:
\* FeedComplete.
THEOREM Fed == Spec => []FeedComplete
<1>1. Inv => FeedComplete
  BY DEF Inv, SubInv, FeedComplete
<1> QED BY <1>1, InitInv, InvStep, PTL DEF Spec
=============================================================================
