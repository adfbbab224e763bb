-------------------------- MODULE RdnsStripProofs --------------------------
(***************************************************************************)
(* Proofs about two parts of the dashboard, for every value of their       *)
(* constants: names from reverse DNS are fresh, and the health strip       *)
(* counts every dropped sample.                                            *)
(***************************************************************************)
EXTENDS Rdns, HealthStrip, WellFoundedInduction, NaturalsInduction, TLAPS

\* The provers of a leaf that names none, in the order they are tried.
USE ZenonT(90), SMTT(30)

\* A set of numbers that is not empty has a least one.
LEMMA Least ==
  ASSUME NEW T, T \subseteq Nat, T # {}
  PROVE \E n \in T : \A m \in T : n <= m
<1>1. IsWellFoundedOn(OpToRel(<, Nat), Nat)
  BY NatLessThanWellFounded
<1>2. PICK x \in T : \A y \in T : ~(<<y, x>> \in OpToRel(<, Nat))
  BY <1>1, WFMin
<1>3. ASSUME NEW y \in T PROVE x <= y
  <2>1. y < x => <<y, x>> \in OpToRel(<, Nat)
    BY DEF OpToRel
  <2>2. ~(y < x)
    BY <1>2, <2>1
  <2>3. x \in Nat /\ y \in Nat
    OBVIOUS
  <2> QED BY <2>2, <2>3, SMTT(30)
<1> QED BY <1>3

-----------------------------------------------------------------------------
(***************************************************************************)
(* Names from reverse DNS are fresh: NamesFresh, for any addresses, size   *)
(* and age of the cache and limits of a request.                           *)
(*                                                                         *)
(* The loop over the addresses is a recursive function; that it exists, and*)
(* what it leaves, is shown by a least counterexample.  The invariant adds *)
(* to NamesFresh that an entry expires TTL_MS after it was resolved, and   *)
(* that the lookups running under the number of the waiting request are    *)
(* exactly those it still waits for, which holds because numbers are not   *)
(* used twice.                                                             *)
(***************************************************************************)

(* The cache.                                                               *)

NameSet == Nat \cup {Nothing}

\* An entry expires TTL_MS after it was resolved.
Entries == {e \in [ip : Ips, name : NameSet, at : Nat, exp : Nat] : e.exp = e.at + TTL_MS}

\* No two entries are of one address.
Single(map) == \A i, j \in 1 .. Len(map) : map[i].ip = map[j].ip => i = j

GoodMap(map) == map \in Seq(Entries) /\ Single(map) /\ Len(map) <= CACHE_SIZE

\* The fields of an entry.
LEMMA EntryFields ==
  ASSUME NEW e \in Entries
  PROVE e.ip \in Ips /\ e.name \in NameSet /\ e.at \in Nat /\ e.exp = e.at + TTL_MS
BY DEF Entries

\* The place of an address in the cache is that of its entry.
LEMMA PlaceOK ==
  ASSUME NEW map \in Seq(Entries), NEW ip, Has(map, ip)
  PROVE Place(map, ip) \in 1 .. Len(map) /\ map[Place(map, ip)].ip = ip
<1>1. DOMAIN map = 1 .. Len(map)
  BY SMTT(30)
<1>2. \E i \in DOMAIN map : map[i].ip = ip
  BY DEF Has
<1>3. Place(map, ip) \in DOMAIN map /\ map[Place(map, ip)].ip = ip
  BY <1>2 DEF Place
<1> QED BY <1>1, <1>3

\* Map.delete leaves the other entries.
WithoutOK(map, ip) ==
  /\ Without(map, ip) \in Seq(Entries) /\ Single(Without(map, ip))
  /\ \A k \in 1 .. Len(Without(map, ip)) : Without(map, ip)[k].ip # ip
  /\ Len(Without(map, ip)) <= Len(map)
  /\ Has(map, ip) => Len(Without(map, ip)) = Len(map) - 1

\* Taking an address out leaves the other entries, in their order.
LEMMA WithoutGood ==
  ASSUME NEW map \in Seq(Entries), Single(map), NEW ip
  PROVE WithoutOK(map, ip)
<1>1. DOMAIN map = 1 .. Len(map) /\ Len(map) \in Nat
  BY SMTT(30)
<1>2. CASE ~Has(map, ip)
  <2>1. Without(map, ip) = map
    BY <1>2 DEF Without
  <2>2. \A k \in 1 .. Len(map) : map[k].ip # ip
    BY <1>1, <1>2 DEF Has
  <2>3. Len(map) <= Len(map)
    BY <1>1, SMTT(30)
  <2> QED BY <1>2, <2>1, <2>2, <2>3 DEF WithoutOK
<1>3. CASE Has(map, ip)
  <2> DEFINE p == Place(map, ip)
  <2> DEFINE at(k) == IF k < p THEN k ELSE k + 1
  <2> DEFINE w == [k \in 1 .. Len(map) - 1 |-> map[at(k)]]
  <2>1. Without(map, ip) = w
    BY <1>3 DEF Without
  <2>2. p \in 1 .. Len(map) /\ map[p].ip = ip
    BY <1>3, PlaceOK
  <2> HIDE DEF p
  <2>3. ASSUME NEW k \in 1 .. Len(map) - 1 PROVE at(k) \in 1 .. Len(map) /\ at(k) # p
    BY <1>1, <2>2, SMTT(30)
  <2>4. ASSUME NEW j \in 1 .. Len(map) - 1, NEW k \in 1 .. Len(map) - 1, at(j) = at(k) PROVE j = k
    BY <1>1, <2>2, <2>4, SMTT(30)
  <2> HIDE DEF at
  <2>5. Len(map) - 1 \in Nat
    BY <1>1, <2>2, SMTT(30)
  <2>6. w \in Seq(Entries) /\ Len(w) = Len(map) - 1
    <3>1. \A k \in 1 .. Len(map) - 1 : map[at(k)] \in Entries
      BY <1>1, <2>3, SMTT(30)
    <3> QED BY <2>5, <3>1, SMTT(30)
  <2>7. \A k \in 1 .. Len(map) - 1 : w[k] = map[at(k)]
    OBVIOUS
  <2> HIDE DEF w
  <2>8. ASSUME NEW i \in 1 .. Len(w), NEW j \in 1 .. Len(w), w[i].ip = w[j].ip PROVE i = j
    <3>1. i \in 1 .. Len(map) - 1 /\ j \in 1 .. Len(map) - 1
      BY <2>6
    <3>2. at(i) = at(j)
      BY <2>3, <2>7, <2>8, <3>1 DEF Single
    <3> QED BY <2>4, <3>1, <3>2
  <2>9. ASSUME NEW k \in 1 .. Len(w) PROVE w[k].ip # ip
    <3>1. k \in 1 .. Len(map) - 1
      BY <2>6
    <3> QED BY <2>2, <2>3, <2>7, <3>1 DEF Single
  <2>10. Len(w) <= Len(map)
    BY <1>1, <2>6, SMTT(30)
  <2>11. WithoutOK(map, ip)
    BY <2>1, <2>6, <2>8, <2>9, <2>10 DEF WithoutOK, Single
  <2> QED BY <2>11
<1> QED BY <1>2, <1>3

\* An entry put at the end.
LEMMA AppendGood ==
  ASSUME NEW map \in Seq(Entries), Single(map), NEW e \in Entries,
         \A k \in 1 .. Len(map) : map[k].ip # e.ip
  PROVE Append(map, e) \in Seq(Entries) /\ Single(Append(map, e)) /\ Len(Append(map, e)) = Len(map) + 1
<1> DEFINE a == Append(map, e)
<1>1. /\ a \in Seq(Entries) /\ Len(a) = Len(map) + 1 /\ Len(map) \in Nat /\ a[Len(map) + 1] = e
      /\ \A k \in 1 .. Len(map) : a[k] = map[k]
  BY SMTT(30)
<1> HIDE DEF a
<1>2. ASSUME NEW i \in 1 .. Len(a), NEW j \in 1 .. Len(a), a[i].ip = a[j].ip PROVE i = j
  <2>1. i \in 1 .. Len(map) \/ i = Len(map) + 1
    BY <1>1, SMTT(30)
  <2>2. j \in 1 .. Len(map) \/ j = Len(map) + 1
    BY <1>1, SMTT(30)
  <2> QED BY <1>1, <1>2, <2>1, <2>2 DEF Single
<1>3. Single(a)
  BY <1>2 DEF Single
<1> QED BY <1>1, <1>3 DEF a

\* The last entries.
LEMMA LastGood ==
  ASSUME NEW map \in Seq(Entries), Single(map), NEW n \in Nat, n < Len(map)
  PROVE /\ SubSeq(map, Len(map) - n + 1, Len(map)) \in Seq(Entries)
        /\ Single(SubSeq(map, Len(map) - n + 1, Len(map)))
        /\ Len(SubSeq(map, Len(map) - n + 1, Len(map))) = n
<1> DEFINE s == SubSeq(map, Len(map) - n + 1, Len(map))
<1> DEFINE d == Len(map) - n
<1>1. /\ Len(map) \in Nat /\ d \in Nat /\ s \in Seq(Entries) /\ Len(s) = n
      /\ \A k \in 1 .. n : s[k] = map[d + k]
  BY SMTT(30)
<1>2. \A k \in 1 .. n : d + k \in 1 .. Len(map)
  BY <1>1, SMTT(30)
<1>3. \A i, j \in 1 .. n : d + i = d + j => i = j
  BY <1>1, SMTT(30)
<1> HIDE DEF s, d
<1>4. ASSUME NEW i \in 1 .. Len(s), NEW j \in 1 .. Len(s), s[i].ip = s[j].ip PROVE i = j
  <2>1. i \in 1 .. n /\ j \in 1 .. n
    BY <1>1
  <2>2. s[i] = map[d + i] /\ s[j] = map[d + j]
    BY <1>1, <2>1
  <2>3. d + i = d + j
    BY <1>2, <1>4, <2>1, <2>2 DEF Single
  <2> QED BY <1>3, <2>1, <2>3
<1>5. Single(s)
  BY <1>4 DEF Single
<1> QED BY <1>1, <1>5 DEF s

\* Lru.get keeps the cache good.
LEMMA GetGood ==
  ASSUME NEW map, GoodMap(map), NEW ip, NEW t
  PROVE GoodMap(Get(map, ip, t))
<1>1. map \in Seq(Entries) /\ Single(map) /\ Len(map) <= CACHE_SIZE
  BY DEF GoodMap
<1>2. WithoutOK(map, ip)
  BY <1>1, WithoutGood
<1> DEFINE w == Without(map, ip)
<1>3. /\ w \in Seq(Entries) /\ Single(w) /\ \A k \in 1 .. Len(w) : w[k].ip # ip
      /\ Len(w) <= Len(map) /\ (Has(map, ip) => Len(w) = Len(map) - 1)
  BY <1>2 DEF WithoutOK
<1> HIDE DEF w
<1>4. Len(map) \in Nat /\ Len(w) \in Nat /\ CACHE_SIZE \in Nat
  BY <1>1, <1>3, RdnsAssumption, SMTT(30)
<1>5. CASE IsHit(map, ip, t)
  <2>1. Has(map, ip)
    BY <1>5 DEF IsHit
  <2> DEFINE e == map[Place(map, ip)]
  <2>2. Place(map, ip) \in 1 .. Len(map) /\ e.ip = ip
    BY <1>1, <2>1, PlaceOK
  <2>3. e \in Entries
    BY <1>1, <2>2, SMTT(30)
  <2>4. Get(map, ip, t) = Append(w, e)
    BY <1>5 DEF Get, Hit, w
  <2> HIDE DEF e
  <2>5. Append(w, e) \in Seq(Entries) /\ Single(Append(w, e)) /\ Len(Append(w, e)) = Len(w) + 1
    BY <1>3, <2>2, <2>3, AppendGood
  <2>6. Len(w) + 1 <= CACHE_SIZE
    BY <1>1, <1>3, <1>4, <2>1, SMTT(30)
  <2> QED BY <2>4, <2>5, <2>6 DEF GoodMap
<1>6. CASE ~IsHit(map, ip, t)
  <2>1. Get(map, ip, t) = w
    BY <1>6 DEF Get, w
  <2>2. Len(w) <= CACHE_SIZE
    BY <1>1, <1>3, <1>4, SMTT(30)
  <2> QED BY <1>3, <2>1, <2>2 DEF GoodMap
<1> QED BY <1>5, <1>6

\* Lru.set keeps the cache good.
LEMMA SetGood ==
  ASSUME NEW map, GoodMap(map), NEW ip \in Ips, NEW name \in NameSet, NEW t \in Nat
  PROVE GoodMap(Set(map, ip, name, t))
<1>1. map \in Seq(Entries) /\ Single(map) /\ Len(map) <= CACHE_SIZE
  BY DEF GoodMap
<1> DEFINE w == Without(map, ip)
<1> DEFINE e == [ip |-> ip, name |-> name, at |-> t, exp |-> t + TTL_MS]
<1> DEFINE all == Append(w, e)
<1>2. w \in Seq(Entries) /\ Single(w) /\ \A k \in 1 .. Len(w) : w[k].ip # ip
  <2>1. WithoutOK(map, ip)
    BY <1>1, WithoutGood
  <2> QED BY <2>1 DEF WithoutOK
<1>3. e \in Entries /\ e.ip = ip
  BY RdnsAssumption, SMTT(30) DEF Entries
<1>4. Set(map, ip, name, t) = IF Len(all) > CACHE_SIZE THEN SubSeq(all, Len(all) - CACHE_SIZE + 1, Len(all)) ELSE all
  BY DEF Set
<1> HIDE DEF w, e
<1>5. all \in Seq(Entries) /\ Single(all)
  BY <1>2, <1>3, AppendGood
<1> HIDE DEF all
<1>6. Len(all) \in Nat /\ CACHE_SIZE \in Nat
  BY <1>5, RdnsAssumption, SMTT(30)
<1>7. CASE Len(all) > CACHE_SIZE
  <2> DEFINE s == SubSeq(all, Len(all) - CACHE_SIZE + 1, Len(all))
  <2>1. CACHE_SIZE < Len(all) /\ CACHE_SIZE <= CACHE_SIZE
    BY <1>6, <1>7, SMTT(30)
  <2>2. s \in Seq(Entries) /\ Single(s) /\ Len(s) = CACHE_SIZE
    BY <1>5, <1>6, <2>1, LastGood
  <2>3. Set(map, ip, name, t) = s
    BY <1>4, <1>7
  <2> HIDE DEF s
  <2> QED BY <2>1, <2>2, <2>3 DEF GoodMap
<1>8. CASE ~(Len(all) > CACHE_SIZE)
  <2>1. Len(all) <= CACHE_SIZE
    BY <1>6, <1>8, SMTT(30)
  <2> QED BY <1>4, <1>5, <1>8, <2>1 DEF GoodMap
<1> QED BY <1>7, <1>8

-----------------------------------------------------------------------------
(* The loop over the addresses asked for.                                   *)

NameFns == UNION {[D -> [name : NameSet, at : Nat]] : D \in SUBSET Ips}

\* names[ip] = name
NamedOK(names, ip, name, t) ==
  /\ Named(names, ip, name, t) \in NameFns
  /\ DOMAIN Named(names, ip, name, t) = DOMAIN names \cup {ip}
  /\ Named(names, ip, name, t)[ip] = [name |-> name, at |-> t]
  /\ \A x \in DOMAIN names : x # ip => Named(names, ip, name, t)[x] = names[x]

\* A name is added to those of the answer and changes no other.
LEMMA NamedGood ==
  ASSUME NEW names \in NameFns, NEW ip \in Ips, NEW name \in NameSet, NEW t \in Nat
  PROVE NamedOK(names, ip, name, t)
<1> DEFINE D == DOMAIN names \cup {ip}
<1> DEFINE v(x) == IF x = ip THEN [name |-> name, at |-> t] ELSE names[x]
<1>1. PICK C \in SUBSET Ips : names \in [C -> [name : NameSet, at : Nat]]
  BY DEF NameFns
<1>2. DOMAIN names = C
  BY <1>1
<1>3. D \in SUBSET Ips
  BY <1>2
<1>4. Named(names, ip, name, t) = [x \in D |-> v(x)]
  BY DEF Named
<1>5. [name |-> name, at |-> t] \in [name : NameSet, at : Nat]
  OBVIOUS
<1>6. \A x \in D : v(x) \in [name : NameSet, at : Nat]
  BY <1>1, <1>2, <1>5
<1>7. [x \in D |-> v(x)] \in [D -> [name : NameSet, at : Nat]]
  BY <1>6
<1>8. [x \in D |-> v(x)] \in NameFns
  BY <1>3, <1>7 DEF NameFns
<1>9. DOMAIN [x \in D |-> v(x)] = D /\ [x \in D |-> v(x)][ip] = [name |-> name, at |-> t]
  OBVIOUS
<1>10. \A y \in DOMAIN names : y # ip => [x \in D |-> v(x)][y] = names[y]
  OBVIOUS
<1> HIDE DEF D, v
<1> QED BY <1>4, <1>8, <1>9, <1>10 DEF NamedOK, D

\* Every name is younger than TTL_MS at t.
Fresh(names, t) == \A ip \in DOMAIN names : names[ip].at > t - TTL_MS

\* The addresses met so far are split into those with a name, those to be looked
\* up and those pending.
AccOK(acc, met, t) ==
  /\ GoodMap(acc.map)
  /\ acc.names \in NameFns /\ Fresh(acc.names, t)
  /\ acc.todo \subseteq Ips /\ acc.pending \subseteq Ips
  /\ DOMAIN acc.names \cup acc.pending \cup acc.todo = met
  /\ DOMAIN acc.names \cap acc.pending = {}
  /\ DOMAIN acc.names \cap acc.todo = {}
  /\ acc.pending \cap acc.todo = {}

\* The loop begins with nothing met.
LEMMA AskingOK ==
  ASSUME NEW map, GoodMap(map), NEW t
  PROVE AccOK(Asking(map), {}, t)
<1>1. /\ Asking(map).map = map /\ Asking(map).names = << >>
      /\ Asking(map).todo = {} /\ Asking(map).pending = {}
  BY DEF Asking
<1>2. DOMAIN << >> = {} /\ << >> \in [{} -> [name : NameSet, at : Nat]]
  BY SMTT(30)
<1>3. << >> \in NameFns
  BY <1>2 DEF NameFns
<1> QED BY <1>1, <1>2, <1>3 DEF AccOK, Fresh

\* One address is met: its name is known, or it is looked up, or left for later.
LEMMA SortingOK ==
  ASSUME NEW acc, NEW met, NEW t \in Nat, AccOK(acc, met, t), NEW ip \in Ips, ip \notin met
  PROVE AccOK(Sorting(acc, ip, t), met \cup {ip}, t)
<1> DEFINE hit == IsHit(acc.map, ip, t)
<1> DEFINE room == Cardinality(acc.todo) < RDNS_MAX_PER_REQUEST
<1> DEFINE e == acc.map[Place(acc.map, ip)]
<1> DEFINE s == Sorting(acc, ip, t)
<1>1. /\ s.map = Get(acc.map, ip, t)
      /\ s.names = IF hit THEN Named(acc.names, ip, e.name, e.at) ELSE acc.names
      /\ s.todo = IF ~hit /\ room THEN acc.todo \cup {ip} ELSE acc.todo
      /\ s.pending = IF ~hit /\ ~room THEN acc.pending \cup {ip} ELSE acc.pending
  BY DEF Sorting
<1>2. GoodMap(acc.map) /\ acc.names \in NameFns /\ Fresh(acc.names, t)
  BY DEF AccOK
<1>3. /\ acc.todo \subseteq Ips /\ acc.pending \subseteq Ips
      /\ DOMAIN acc.names \cup acc.pending \cup acc.todo = met
      /\ DOMAIN acc.names \cap acc.pending = {}
      /\ DOMAIN acc.names \cap acc.todo = {}
      /\ acc.pending \cap acc.todo = {}
  BY DEF AccOK
<1>4. GoodMap(s.map)
  BY <1>1, <1>2, GetGood
<1>5. CASE hit
  <2>1. acc.map \in Seq(Entries) /\ Has(acc.map, ip) /\ e.exp > t
    BY <1>2, <1>5 DEF GoodMap, IsHit
  <2>2. Place(acc.map, ip) \in 1 .. Len(acc.map)
    BY <2>1, PlaceOK
  <2>3. e \in Entries
    BY <2>1, <2>2, SMTT(30)
  <2>4. e.name \in NameSet /\ e.at \in Nat /\ e.exp = e.at + TTL_MS
    BY <2>3, EntryFields
  <2> DEFINE n == Named(acc.names, ip, e.name, e.at)
  <2>5. s.names = n /\ s.todo = acc.todo /\ s.pending = acc.pending
    BY <1>1, <1>5
  <2>6. e.at > t - TTL_MS
    BY <2>1, <2>4, RdnsAssumption, SMTT(30)
  <2> HIDE DEF e, hit, room, s
  <2>7. /\ n \in NameFns /\ DOMAIN n = DOMAIN acc.names \cup {ip}
        /\ n[ip] = [name |-> e.name, at |-> e.at]
        /\ \A x \in DOMAIN acc.names : x # ip => n[x] = acc.names[x]
    <3>1. NamedOK(acc.names, ip, e.name, e.at)
      BY <1>2, <2>4, NamedGood
    <3> QED BY <3>1 DEF NamedOK
  <2> HIDE DEF n
  <2>8. n[ip].at = e.at
    BY <2>7, SMTT(30)
  <2>9. Fresh(n, t)
    <3>1. ASSUME NEW x \in DOMAIN n PROVE n[x].at > t - TTL_MS
      <4>1. CASE x = ip
        BY <2>6, <2>8, <4>1
      <4>2. CASE x # ip
        <5>1. x \in DOMAIN acc.names /\ n[x] = acc.names[x]
          BY <2>7, <4>2
        <5> QED BY <1>2, <5>1 DEF Fresh
      <4> QED BY <4>1, <4>2
    <3> QED BY <3>1 DEF Fresh
  <2>10. /\ DOMAIN n \cup acc.pending \cup acc.todo = met \cup {ip}
         /\ DOMAIN n \cap acc.pending = {} /\ DOMAIN n \cap acc.todo = {}
    BY <1>3, <2>7
  <2> QED BY <1>3, <1>4, <2>5, <2>7, <2>9, <2>10 DEF AccOK, s
<1>6. CASE ~hit /\ room
  <2>1. s.names = acc.names /\ s.todo = acc.todo \cup {ip} /\ s.pending = acc.pending
    BY <1>1, <1>6
  <2> DEFINE T == acc.todo \cup {ip}
  <2>2. /\ T \subseteq Ips
        /\ DOMAIN acc.names \cup acc.pending \cup T = met \cup {ip}
        /\ DOMAIN acc.names \cap T = {} /\ acc.pending \cap T = {}
    BY <1>3
  <2> HIDE DEF T, s, hit, room
  <2> QED BY <1>2, <1>3, <1>4, <2>1, <2>2 DEF AccOK, T, s
<1>7. CASE ~hit /\ ~room
  <2>1. s.names = acc.names /\ s.todo = acc.todo /\ s.pending = acc.pending \cup {ip}
    BY <1>1, <1>7
  <2> DEFINE T == acc.pending \cup {ip}
  <2>2. /\ T \subseteq Ips
        /\ DOMAIN acc.names \cup T \cup acc.todo = met \cup {ip}
        /\ DOMAIN acc.names \cap T = {} /\ T \cap acc.todo = {}
    BY <1>3
  <2> HIDE DEF T, s, hit, room
  <2> QED BY <1>2, <1>3, <1>4, <2>1, <2>2 DEF AccOK, T, s
<1> QED BY <1>5, <1>6, <1>7

\* The states of the loop, up to the n-th address.
Loop(f, map, ips, t, n) ==
  f = [k \in 0 .. n |-> IF k = 0 THEN Asking(map)
                        ELSE IF \E j \in 1 .. k - 1 : ips[j] = ips[k] THEN f[k - 1]
                        ELSE Sorting(f[k - 1], ips[k], t)]

\* The states of the loop exist.
LEMMA LoopExists ==
  ASSUME NEW map, NEW ips, NEW t, NEW N \in Nat
  PROVE \E f : Loop(f, map, ips, t, N)
<1> DEFINE T == {n \in Nat : ~(\E f : Loop(f, map, ips, t, n))}
<1>1. SUFFICES ASSUME T # {} PROVE FALSE
  OBVIOUS
<1>2. PICK n \in T : \A m \in T : n <= m
  BY <1>1, Least
<1>3. n \in Nat /\ ~(\E f : Loop(f, map, ips, t, n))
  BY <1>2
<1>4. CASE n = 0
  <2> DEFINE g == [k \in 0 .. 0 |-> Asking(map)]
  <2>1. \A k \in 0 .. 0 : k = 0
    BY SMTT(30)
  <2>2. Loop(g, map, ips, t, 0)
    BY <2>1 DEF Loop
  <2> QED BY <1>3, <1>4, <2>2
<1>5. CASE n # 0
  <2>1. n - 1 \in Nat /\ ~(n <= n - 1)
    BY <1>3, <1>5, SMTT(30)
  <2>2. n - 1 \notin T
    BY <1>2, <2>1
  <2>3. PICK f : Loop(f, map, ips, t, n - 1)
    BY <2>1, <2>2
  <2> DEFINE next == IF \E j \in 1 .. n - 1 : ips[j] = ips[n] THEN f[n - 1] ELSE Sorting(f[n - 1], ips[n], t)
  <2> DEFINE g == [k \in 0 .. n |-> IF k = n THEN next ELSE f[k]]
  <2> DEFINE val(h, k) == IF k = 0 THEN Asking(map)
                          ELSE IF \E j \in 1 .. k - 1 : ips[j] = ips[k] THEN h[k - 1]
                          ELSE Sorting(h[k - 1], ips[k], t)
  <2>4. \A k \in 0 .. n - 1 : f[k] = val(f, k)
    <3>1. f = [k \in 0 .. n - 1 |-> val(f, k)]
      BY <2>3 DEF Loop
    <3> QED BY <3>1
  <2>5. n - 1 \in 0 .. n /\ n \in 0 .. n /\ n - 1 # n /\ n # 0
    BY <1>3, <1>5, SMTT(30)
  <2>6. g[n] = next /\ g[n - 1] = f[n - 1]
    BY <2>5
  <2>7. \A k \in 0 .. n : k # n => k \in 0 .. n - 1 /\ g[k] = f[k] /\ (k # 0 => g[k - 1] = f[k - 1])
    <3>1. \A k \in 0 .. n : k # n => k \in 0 .. n - 1 /\ (k # 0 => k - 1 \in 0 .. n /\ k - 1 # n)
      BY <1>3, SMTT(30)
    <3> QED BY <3>1
  <2>8. g = [k \in 0 .. n |-> g[k]]
    OBVIOUS
  <2> HIDE DEF g
  <2>9. ASSUME NEW k \in 0 .. n PROVE g[k] = val(g, k)
    <3>1. CASE k = n
      BY <2>5, <2>6, <3>1
    <3>2. CASE k # n
      <4>1. k \in 0 .. n - 1 /\ g[k] = f[k] /\ (k # 0 => g[k - 1] = f[k - 1])
        BY <2>7, <3>2
      <4>2. val(g, k) = val(f, k)
        BY <4>1
      <4> QED BY <2>4, <4>1, <4>2
    <3> QED BY <3>1, <3>2
  <2> HIDE DEF val
  <2>10. g = [k \in 0 .. n |-> val(g, k)]
    BY <2>8, <2>9
  <2>11. Loop(g, map, ips, t, n)
    BY <2>10 DEF Loop, val
  <2> QED BY <1>3, <2>11
<1> QED BY <1>4, <1>5

\* What the loop leaves.
LEMMA SortedOK ==
  ASSUME NEW map, GoodMap(map), NEW ips \in Seq(Ips), NEW t \in Nat
  PROVE AccOK(SortedIps(map, ips, t), {ips[i] : i \in DOMAIN ips}, t)
<1> DEFINE N == Len(ips)
<1> DEFINE f == CHOOSE h : Loop(h, map, ips, t, N)
<1> DEFINE met(k) == {ips[i] : i \in 1 .. k}
<1>1. N \in Nat /\ DOMAIN ips = 1 .. N /\ \A k \in 1 .. N : ips[k] \in Ips
  BY SMTT(30)
<1>2. SortedIps(map, ips, t) = f[N]
  BY DEF SortedIps, Loop
<1> HIDE DEF N
<1>3. Loop(f, map, ips, t, N)
  BY <1>1, LoopExists
<1> HIDE DEF f
<1>4. \A k \in 0 .. N : f[k] = IF k = 0 THEN Asking(map)
                               ELSE IF \E j \in 1 .. k - 1 : ips[j] = ips[k] THEN f[k - 1]
                               ELSE Sorting(f[k - 1], ips[k], t)
  <2> DEFINE val(k) == IF k = 0 THEN Asking(map)
                       ELSE IF \E j \in 1 .. k - 1 : ips[j] = ips[k] THEN f[k - 1]
                       ELSE Sorting(f[k - 1], ips[k], t)
  <2>1. f = [k \in 0 .. N |-> val(k)]
    BY <1>3 DEF Loop
  <2> HIDE DEF val
  <2>2. \A k \in 0 .. N : f[k] = val(k)
    BY <2>1
  <2> QED BY <2>2 DEF val
<1> DEFINE T == {k \in 0 .. N : ~AccOK(f[k], met(k), t)}
<1>5. T = {}
  <2>1. SUFFICES ASSUME T # {} PROVE FALSE
    OBVIOUS
  <2>2. T \subseteq Nat
    BY <1>1, SMTT(30)
  <2>3. PICK k \in T : \A m \in T : k <= m
    BY <2>1, <2>2, Least
  <2>4. k \in 0 .. N /\ ~AccOK(f[k], met(k), t)
    BY <2>3
  <2>5. CASE k = 0
    <3>1. met(0) = {}
      BY SMTT(30)
    <3>2. f[0] = Asking(map)
      BY <1>4, <2>4, <2>5
    <3> HIDE DEF met
    <3> QED BY <2>4, <2>5, <3>1, <3>2, AskingOK
  <2>6. CASE k # 0
    <3>1. k - 1 \in 0 .. N /\ ~(k <= k - 1) /\ k \in 1 .. N
      BY <1>1, <2>4, <2>6, SMTT(30)
    <3>2. AccOK(f[k - 1], met(k - 1), t)
      BY <2>3, <3>1
    <3>3. \A j \in 1 .. k : j = k \/ j \in 1 .. k - 1
      BY <3>1, SMTT(30)
    <3>4. \A j \in 1 .. k - 1 : j \in 1 .. k
      BY <3>1, SMTT(30)
    <3>5. k \in 1 .. k
      BY <3>1, SMTT(30)
    <3>6. met(k) = met(k - 1) \cup {ips[k]}
      BY <3>3, <3>4, <3>5
    <3>7. CASE \E j \in 1 .. k - 1 : ips[j] = ips[k]
      <4>1. f[k] = f[k - 1]
        BY <1>4, <2>4, <2>6, <3>7
      <4>2. met(k - 1) \cup {ips[k]} = met(k - 1)
        BY <3>7
      <4> HIDE DEF met
      <4> QED BY <2>4, <3>2, <3>6, <4>1, <4>2
    <3>8. CASE ~(\E j \in 1 .. k - 1 : ips[j] = ips[k])
      <4>1. f[k] = Sorting(f[k - 1], ips[k], t)
        BY <1>4, <2>4, <2>6, <3>8
      <4>2. ips[k] \notin met(k - 1)
        BY <3>8
      <4>3. ips[k] \in Ips
        BY <1>1, <3>1
      <4> HIDE DEF met
      <4>4. AccOK(Sorting(f[k - 1], ips[k], t), met(k - 1) \cup {ips[k]}, t)
        BY <3>2, <4>2, <4>3, SortingOK
      <4> QED BY <2>4, <3>6, <4>1, <4>4
    <3> QED BY <3>7, <3>8
  <2> QED BY <2>5, <2>6
<1>6. N \in 0 .. N
  BY <1>1, SMTT(30)
<1>7. AccOK(f[N], met(N), t)
  BY <1>5, <1>6
<1> QED BY <1>1, <1>2, <1>7

-----------------------------------------------------------------------------
(* The inductive invariant.                                                 *)

Requests == [id : Nat, at : Nat, asked : SUBSET Ips, todo : SUBSET Ips, done : SUBSET Ips,
             names : NameFns, pending : SUBSET Ips, mine : BOOLEAN]

\* The addresses of a request are split into those with a name, those that wait
\* and those pending; exactly the lookups that wait run under its number.
Split(q) ==
  /\ DOMAIN q.names \cup q.pending \cup q.todo = q.asked
  /\ DOMAIN q.names \cap q.pending = {} /\ q.pending \cap q.todo = {}
  /\ DOMAIN q.names \cap q.todo = q.done

Waits(q, runs) ==
  /\ \A ip \in q.todo \ q.done : [ip |-> ip, id |-> q.id] \in runs
  /\ \A r \in runs : r.id = q.id => r.ip \in q.todo \ q.done

ReqOK(q, runs, n, t) ==
  q \in Requests /\ q.id < n /\ q.at <= t /\ Split(q) /\ Fresh(q.names, q.at) /\ Waits(q, runs)

RdnsInv ==
  /\ rnow \in Nat /\ lookups \in Nat
  /\ running \subseteq [ip : Ips, id : Nat] /\ \A r \in running : r.id < lookups
  /\ GoodMap(lru)
  /\ lookupReq # Nothing => ReqOK(lookupReq, running, lookups, rnow)

\* The invariant holds at the start.
LEMMA RdnsInvInit == RdnsInit => RdnsInv
<1>1. << >> \in Seq(Entries) /\ Len(<< >>) = 0 /\ 0 <= CACHE_SIZE /\ 0 \in Nat
  BY RdnsAssumption, SMTT(30)
<1>2. \A i, j \in 1 .. 0 : i = j
  BY SMTT(30)
<1>3. GoodMap(<< >>)
  BY <1>1, <1>2 DEF GoodMap, Single
<1> QED BY <1>1, <1>3 DEF RdnsInit, RdnsInv

\* A request begins.
LEMMA Begins ==
  ASSUME RdnsInv, NEW ips, NEW mine \in BOOLEAN, lookupUpToAwait(ips, mine)
  PROVE RdnsInv'
<1> DEFINE r == SortedIps(lru, ips, rnow)
<1> DEFINE asked == {ips[i] : i \in DOMAIN ips}
<1> DEFINE new == {[ip |-> ip, id |-> lookups] : ip \in r.todo}
<1> DEFINE q == [id |-> lookups, at |-> rnow, asked |-> asked, todo |-> r.todo,
                 done |-> {}, names |-> r.names, pending |-> r.pending, mine |-> mine]
<1>1. /\ ips \in Seq(Ips) /\ lookups' = lookups + 1 /\ lru' = r.map
      /\ running' = running \cup new /\ lookupReq' = q /\ rnow' = rnow
  BY DEF lookupUpToAwait
<1>2. /\ rnow \in Nat /\ lookups \in Nat /\ GoodMap(lru)
      /\ running \subseteq [ip : Ips, id : Nat] /\ \A x \in running : x.id < lookups
  BY DEF RdnsInv
<1>3. AccOK(r, asked, rnow)
  BY <1>1, <1>2, SortedOK
<1>4. asked \subseteq Ips
  BY <1>1, SMTT(30)
<1> HIDE DEF asked, r
<1>5. /\ GoodMap(r.map) /\ r.names \in NameFns /\ Fresh(r.names, rnow)
      /\ r.todo \subseteq Ips /\ r.pending \subseteq Ips
      /\ DOMAIN r.names \cup r.pending \cup r.todo = asked
      /\ DOMAIN r.names \cap r.pending = {} /\ DOMAIN r.names \cap r.todo = {} /\ r.pending \cap r.todo = {}
  BY <1>3 DEF AccOK
<1>6. lookups + 1 \in Nat /\ lookups < lookups + 1 /\ rnow <= rnow /\ ~(lookups < lookups)
  BY <1>2, SMTT(30)
<1>7. \A n \in Nat : n < lookups => n < lookups + 1
  BY <1>2, SMTT(30)
<1>8. \A x \in new : x.id = lookups /\ x.ip \in r.todo /\ x \in [ip : Ips, id : Nat]
  BY <1>2, <1>5, SMTT(30)
<1>9. \A x \in running : x.id \in Nat
  BY <1>2
<1>10. running' \subseteq [ip : Ips, id : Nat] /\ \A x \in running' : x.id < lookups'
  BY <1>1, <1>2, <1>6, <1>7, <1>8, <1>9
<1>11. /\ q.id = lookups /\ q.at = rnow /\ q.asked = asked /\ q.todo = r.todo /\ q.done = {}
       /\ q.names = r.names /\ q.pending = r.pending
  OBVIOUS
<1>12. {} \subseteq Ips
  OBVIOUS
<1>13. q \in Requests
  BY <1>2, <1>4, <1>5, <1>12 DEF Requests
<1>14. \A ip \in r.todo : [ip |-> ip, id |-> lookups] \in new
  OBVIOUS
<1> HIDE DEF q, new
<1>15. Split(q)
  BY <1>5, <1>11 DEF Split
<1>16. Waits(q, running')
  <2>1. q.todo \ q.done = r.todo
    BY <1>11
  <2> QED BY <1>1, <1>2, <1>6, <1>8, <1>11, <1>14, <2>1 DEF Waits
<1>17. ReqOK(q, running', lookups', rnow')
  BY <1>1, <1>5, <1>6, <1>11, <1>13, <1>15, <1>16 DEF ReqOK
<1> QED BY <1>1, <1>2, <1>5, <1>6, <1>10, <1>17 DEF RdnsInv

\* What the end of a lookup does to the request that waits for it.
Filled(q, ip, name, t) == [q EXCEPT !.done = @ \cup {ip}, !.names = Named(@, ip, name, t)]

\* The request still waits for exactly the other lookups.
LEMMA Fills ==
  ASSUME NEW runs, runs \subseteq [ip : Ips, id : Nat], NEW n \in Nat, NEW t \in Nat, NEW q, ReqOK(q, runs, n, t),
         NEW run \in runs, run.id = q.id, NEW name \in NameSet
  PROVE ReqOK(Filled(q, run.ip, name, t), runs \ {run}, n, t)
<1> DEFINE p == Filled(q, run.ip, name, t)
<1> DEFINE names == Named(q.names, run.ip, name, t)
<1>1. q \in Requests /\ q.id < n /\ q.at <= t /\ Split(q) /\ Fresh(q.names, q.at) /\ Waits(q, runs)
  BY DEF ReqOK
<1>2. /\ q.id \in Nat /\ q.at \in Nat /\ q.asked \in SUBSET Ips /\ q.todo \in SUBSET Ips /\ q.done \in SUBSET Ips
      /\ q.names \in NameFns /\ q.pending \in SUBSET Ips
  BY <1>1 DEF Requests
<1>3. run.ip \in Ips /\ run.ip \in q.todo \ q.done
  BY <1>1 DEF Waits
<1>4. NamedOK(q.names, run.ip, name, t)
  BY <1>2, <1>3, NamedGood
<1>5. /\ names \in NameFns /\ DOMAIN names = DOMAIN q.names \cup {run.ip}
      /\ names[run.ip] = [name |-> name, at |-> t]
      /\ \A x \in DOMAIN q.names : x # run.ip => names[x] = q.names[x]
  BY <1>4 DEF NamedOK
<1> HIDE DEF names
<1>6. /\ p.id = q.id /\ p.at = q.at /\ p.asked = q.asked /\ p.todo = q.todo /\ p.pending = q.pending
      /\ p.done = q.done \cup {run.ip} /\ p.names = names
  BY <1>1 DEF Filled, Requests, names
<1>7. p \in Requests
  <2>1. q.done \cup {run.ip} \in SUBSET Ips
    BY <1>2, <1>3
  <2> QED BY <1>1, <1>5, <2>1 DEF Filled, Requests, names
<1> HIDE DEF p
<1>8. names[run.ip].at = t
  BY <1>5, SMTT(30)
<1>9. t > q.at - TTL_MS
  BY <1>1, <1>2, RdnsAssumption, SMTT(30)
<1>10. Fresh(p.names, p.at)
  <2>1. ASSUME NEW x \in DOMAIN names PROVE names[x].at > q.at - TTL_MS
    <3>1. CASE x = run.ip
      BY <1>8, <1>9, <3>1
    <3>2. CASE x # run.ip
      <4>1. x \in DOMAIN q.names /\ names[x] = q.names[x]
        BY <1>5, <3>2
      <4> QED BY <1>1, <4>1 DEF Fresh
    <3> QED BY <3>1, <3>2
  <2> QED BY <1>6, <2>1 DEF Fresh
<1>11. Split(p)
  <2>1. /\ DOMAIN q.names \cup q.pending \cup q.todo = q.asked
        /\ DOMAIN q.names \cap q.pending = {} /\ q.pending \cap q.todo = {}
        /\ DOMAIN q.names \cap q.todo = q.done
    BY <1>1 DEF Split
  <2>2. /\ DOMAIN names \cup q.pending \cup q.todo = q.asked
        /\ DOMAIN names \cap q.pending = {}
        /\ DOMAIN names \cap q.todo = q.done \cup {run.ip}
    BY <1>3, <1>5, <2>1, SMTT(30)
  <2> QED BY <1>6, <2>1, <2>2 DEF Split
<1>12. Waits(p, runs \ {run})
  <2>1. /\ \A ip \in q.todo \ q.done : [ip |-> ip, id |-> q.id] \in runs
        /\ \A r \in runs : r.id = q.id => r.ip \in q.todo \ q.done
    BY <1>1 DEF Waits
  <2>2. ASSUME NEW ip \in q.todo \ (q.done \cup {run.ip}) PROVE [ip |-> ip, id |-> q.id] \in runs \ {run}
    <3>1. [ip |-> ip, id |-> q.id] # run
      <4>1. ip # run.ip /\ [ip |-> ip, id |-> q.id].ip = ip
        OBVIOUS
      <4> QED BY <4>1
    <3> QED BY <2>1, <3>1
  <2>3. ASSUME NEW r \in runs \ {run}, r.id = q.id PROVE r.ip \in q.todo \ (q.done \cup {run.ip})
    <3>1. r.ip # run.ip
      <4>1. r = [ip |-> r.ip, id |-> r.id] /\ run = [ip |-> run.ip, id |-> run.id]
        OBVIOUS
      <4>2. r # run
        OBVIOUS
      <4> QED BY <2>3, <4>1, <4>2
    <3> QED BY <2>1, <2>3, <3>1
  <2> QED BY <1>6, <2>2, <2>3 DEF Waits
<1> QED BY <1>1, <1>6, <1>7, <1>10, <1>11, <1>12 DEF ReqOK, p

\* A lookup ends.
LEMMA Ends ==
  ASSUME RdnsInv, NEW run \in running, NEW outcome, LookupEnds(run, outcome)
  PROVE RdnsInv'
<1> DEFINE name == IF outcome = "name" THEN rnow ELSE Nothing
<1>1. /\ rnow \in Nat /\ lookups \in Nat /\ GoodMap(lru)
      /\ running \subseteq [ip : Ips, id : Nat] /\ \A r \in running : r.id < lookups
      /\ lookupReq # Nothing => ReqOK(lookupReq, running, lookups, rnow)
  BY DEF RdnsInv
<1>2. /\ running' = running \ {run} /\ rnow' = rnow /\ lookups' = lookups
      /\ lru' = IF outcome = "failed" THEN lru ELSE Set(lru, run.ip, name, rnow)
      /\ lookupReq' = IF ~(lookupReq # Nothing /\ run.id = lookupReq.id) THEN lookupReq
                      ELSE Filled(lookupReq, run.ip, name, rnow)
  BY DEF LookupEnds, Filled
<1>3. name \in NameSet
  BY <1>1 DEF NameSet
<1>4. run.ip \in Ips
  BY <1>1
<1> HIDE DEF name
<1>5. GoodMap(lru')
  <2>1. GoodMap(Set(lru, run.ip, name, rnow))
    BY <1>1, <1>3, <1>4, SetGood
  <2> QED BY <1>1, <1>2, <2>1
<1>6. running' \subseteq [ip : Ips, id : Nat] /\ \A r \in running' : r.id < lookups'
  BY <1>1, <1>2
<1>7. ASSUME lookupReq' # Nothing PROVE ReqOK(lookupReq', running', lookups', rnow')
  <2>1. CASE lookupReq # Nothing /\ run.id = lookupReq.id
    <3>1. ReqOK(Filled(lookupReq, run.ip, name, rnow), running \ {run}, lookups, rnow)
      BY <1>1, <1>3, <2>1, Fills
    <3> QED BY <1>2, <2>1, <3>1
  <2>2. CASE ~(lookupReq # Nothing /\ run.id = lookupReq.id)
    <3>1. lookupReq' = lookupReq /\ lookupReq # Nothing /\ run.id # lookupReq.id
      BY <1>2, <1>7, <2>2
    <3>2. /\ lookupReq \in Requests /\ lookupReq.id < lookups /\ lookupReq.at <= rnow
          /\ Split(lookupReq) /\ Fresh(lookupReq.names, lookupReq.at) /\ Waits(lookupReq, running)
      BY <1>1, <3>1 DEF ReqOK
    <3>3. ASSUME NEW ip PROVE [ip |-> ip, id |-> lookupReq.id] # run
      <4>1. [ip |-> ip, id |-> lookupReq.id].id = lookupReq.id
        OBVIOUS
      <4> QED BY <3>1, <4>1
    <3>4. Waits(lookupReq, running \ {run})
      BY <3>2, <3>3 DEF Waits
    <3> QED BY <1>2, <3>1, <3>2, <3>4 DEF ReqOK
  <2> QED BY <2>1, <2>2
<1> QED BY <1>1, <1>2, <1>5, <1>6, <1>7 DEF RdnsInv

\* Every step keeps the invariant.
LEMMA RdnsInvStep == RdnsInv /\ [RdnsNext]_rdnsVars => RdnsInv'
<1> SUFFICES ASSUME RdnsInv, [RdnsNext]_rdnsVars PROVE RdnsInv'
  OBVIOUS
<1>0. /\ rnow \in Nat /\ lookups \in Nat /\ GoodMap(lru)
      /\ running \subseteq [ip : Ips, id : Nat] /\ \A r \in running : r.id < lookups
      /\ lookupReq # Nothing => ReqOK(lookupReq, running, lookups, rnow)
  BY DEF RdnsInv
<1>t. TRUE \in BOOLEAN /\ FALSE \in BOOLEAN
  OBVIOUS
<1>1. CASE resolve
  BY <1>1, <1>t, Begins DEF resolve
<1>2. CASE OtherPage
  <2>1. PICK i \in DOMAIN Addresses : lookupUpToAwait(<<Addresses[i]>>, FALSE)
    BY <1>2 DEF OtherPage
  <2> QED BY <1>t, <2>1, Begins
<1>3. CASE LookupReply
  BY <1>0, <1>3 DEF LookupReply, RdnsInv
<1>4. CASE LookupLost
  BY <1>0, <1>4 DEF LookupLost, RdnsInv
<1>5. CASE RdnsTime
  <2>1. rnow' = rnow + 1 /\ UNCHANGED <<lru, running, lookupReq, lookups>>
    BY <1>5 DEF RdnsTime
  <2>2. rnow + 1 \in Nat /\ \A n \in Nat : n <= rnow => n <= rnow + 1
    BY <1>0, SMTT(30)
  <2>3. ASSUME lookupReq # Nothing PROVE ReqOK(lookupReq, running, lookups, rnow + 1)
    <3>1. ReqOK(lookupReq, running, lookups, rnow)
      BY <1>0, <2>3
    <3>2. lookupReq.at \in Nat
      BY <3>1 DEF ReqOK, Requests
    <3> QED BY <2>2, <3>1, <3>2 DEF ReqOK
  <2> QED BY <1>0, <2>1, <2>2, <2>3 DEF RdnsInv
<1>6. CASE \E run \in running, outcome \in {"name", "none", "failed"} : LookupEnds(run, outcome)
  BY <1>6, Ends
<1>7. CASE UNCHANGED rdnsVars
  BY <1>0, <1>7 DEF rdnsVars, RdnsInv
<1> QED BY <1>1, <1>2, <1>3, <1>4, <1>5, <1>6, <1>7 DEF RdnsNext

\* The invariant implies the property.
LEMMA RdnsInvFresh == RdnsInv => NamesFresh
<1> SUFFICES ASSUME RdnsInv PROVE NamesFresh
  OBVIOUS
<1>1. lru \in Seq(Entries) /\ Single(lru) /\ Len(lru) <= CACHE_SIZE
  BY DEF RdnsInv, GoodMap
<1>2. DOMAIN lru = 1 .. Len(lru)
  BY <1>1, SMTT(30)
<1>3. \A i, j \in DOMAIN lru : lru[i].ip = lru[j].ip => i = j
  BY <1>1, <1>2 DEF Single
<1>4. ASSUME lookupReq # Nothing
      PROVE /\ DOMAIN Replied.names \cup Replied.pending = lookupReq.asked
            /\ DOMAIN Replied.names \cap Replied.pending = {}
            /\ \A ip \in DOMAIN lookupReq.names : lookupReq.names[ip].at > lookupReq.at - TTL_MS
            /\ \A ip \in lookupReq.todo \ lookupReq.done : [ip |-> ip, id |-> lookupReq.id] \in running
  <2>1. /\ lookupReq \in Requests /\ Split(lookupReq)
        /\ Fresh(lookupReq.names, lookupReq.at) /\ Waits(lookupReq, running)
    BY <1>4 DEF RdnsInv, ReqOK
  <2>2. /\ Replied.names = lookupReq.names
        /\ Replied.pending = lookupReq.pending \cup (lookupReq.todo \ lookupReq.done)
    BY <2>1 DEF Replied, Requests
  <2>3. /\ DOMAIN lookupReq.names \cup lookupReq.pending \cup lookupReq.todo = lookupReq.asked
        /\ DOMAIN lookupReq.names \cap lookupReq.pending = {} /\ lookupReq.pending \cap lookupReq.todo = {}
        /\ DOMAIN lookupReq.names \cap lookupReq.todo = lookupReq.done
    BY <2>1 DEF Split
  <2> DEFINE D == DOMAIN lookupReq.names
  <2> HIDE DEF D
  <2>4. /\ D \cup (lookupReq.pending \cup (lookupReq.todo \ lookupReq.done)) = lookupReq.asked
        /\ D \cap (lookupReq.pending \cup (lookupReq.todo \ lookupReq.done)) = {}
    BY <2>3 DEF D
  <2> QED BY <2>1, <2>2, <2>4 DEF Fresh, Waits, D
<1> QED BY <1>1, <1>3, <1>4 DEF NamesFresh

\* NamesFresh, for every list of addresses, every size and age of the cache and
\* every limit of a request (geo/rdns.ts:26-39, 63-100).
THEOREM NamesAreFresh == RdnsSpec => []NamesFresh
<1>1. RdnsInit => RdnsInv
  BY RdnsInvInit
<1>2. RdnsInv /\ [RdnsNext]_rdnsVars => RdnsInv'
  BY RdnsInvStep
<1>3. RdnsInv => NamesFresh
  BY RdnsInvFresh
<1> QED BY <1>1, <1>2, <1>3, PTL DEF RdnsSpec

-----------------------------------------------------------------------------
(***************************************************************************)
(* The health strip counts every dropped sample: DropsCounted, for any     *)
(* number of drops and of ticks.                                           *)
(*                                                                         *)
(* A count that the strip has seen and the count of the collector that runs*)
(* are linked: the collector has added to it since, or began again and its *)
(* whole count came since.  So a smaller count always means a restart, and *)
(* what trackDrops adds is never more than was dropped; unless a restart is*)
(* masked it is exactly that.                                              *)
(***************************************************************************)

(* trackDrops.                                                              *)

StripTick == [ts : Nat, drops : Nat, active : {{}}, gap : BOOLEAN]
DropTrack == [lastTs : Nat \cup {NoTick}, prev : Nat, increase : Int, restartAt : Nat \cup {NoTick}]
Untracked == [lastTs |-> NoTick, prev |-> 0, increase |-> 0, restartAt |-> NoTick]

IsAfter(f, d, s) ==
  f = [k \in 0 .. Len(s) |-> IF k = 0 THEN d ELSE fold(d.lastTs = NoTick, f[k - 1], s[k])]

\* The states of the loop.
IsLoop(g, d, s) ==
  \A k \in 0 .. Len(s) : g[k] = IF k = 0 THEN d ELSE fold(d.lastTs = NoTick, g[k - 1], s[k])

\* The function of trackDrops goes through the states of the loop.
LEMMA AfterIsLoop ==
  ASSUME NEW f, NEW d, NEW s, IsAfter(f, d, s)
  PROVE IsLoop(f, d, s)
BY DEF IsAfter, IsLoop

\* Any sequence of states that the loop may go through is the one it goes through.
LEMMA TrackIs ==
  ASSUME NEW d, NEW s, Len(s) \in Nat, NEW g, g = [k \in 0 .. Len(s) |-> g[k]], IsLoop(g, d, s)
  PROVE trackDrops(d, s) = g[Len(s)]
<1>1. IsAfter(g, d, s)
  <2>1. \A k \in 0 .. Len(s) : g[k] = IF k = 0 THEN d ELSE fold(d.lastTs = NoTick, g[k - 1], s[k])
    BY DEF IsLoop
  <2>2. [k \in 0 .. Len(s) |-> g[k]] = [k \in 0 .. Len(s) |-> IF k = 0 THEN d ELSE fold(d.lastTs = NoTick, g[k - 1], s[k])]
    BY <2>1
  <2> QED BY <2>2 DEF IsAfter
<1> DEFINE f == CHOOSE f : IsAfter(f, d, s)
<1>2. IsAfter(f, d, s)
  BY <1>1
<1>3. trackDrops(d, s) = f[Len(s)]
  BY DEF trackDrops, IsAfter
<1> HIDE DEF f
<1>4. IsLoop(f, d, s)
  BY <1>2, AfterIsLoop
<1> DEFINE T == {j \in 0 .. Len(s) : f[j] # g[j]}
<1>5. CASE T # {}
  <2>1. T \subseteq Nat
    BY SMTT(30)
  <2>2. PICK j \in T : \A m \in T : j <= m
    <3> HIDE DEF T
    <3> QED BY <1>5, <2>1, Least
  <2>3. j \in 0 .. Len(s) /\ f[j] # g[j]
    OBVIOUS
  <2>4. j # 0 => f[j - 1] = g[j - 1]
    BY <2>2, <2>3, SMTT(30)
  <2>5. f[j] = IF j = 0 THEN d ELSE fold(d.lastTs = NoTick, f[j - 1], s[j])
    BY <1>4, <2>3 DEF IsLoop
  <2>6. g[j] = IF j = 0 THEN d ELSE fold(d.lastTs = NoTick, g[j - 1], s[j])
    BY <2>3 DEF IsLoop
  <2>7. f[j] = g[j]
    BY <2>4, <2>5, <2>6
  <2> QED BY <2>3, <2>7
<1>6. CASE T = {}
  <2>1. Len(s) \in 0 .. Len(s)
    BY SMTT(30)
  <2>2. f[Len(s)] = g[Len(s)]
    BY <1>6, <2>1
  <2> QED BY <1>3, <2>2
<1> QED BY <1>5, <1>6

\* Without a tick there is nothing to count.
LEMMA TrackNone ==
  ASSUME NEW d
  PROVE trackDrops(d, << >>) = d
<1> DEFINE g == [k \in 0 .. Len(<< >>) |-> d]
<1>1. Len(<< >>) = 0
  OBVIOUS
<1>2. IsLoop(g, d, << >>)
  BY <1>1, SMTT(30) DEF IsLoop
<1>3. g = [k \in 0 .. Len(<< >>) |-> g[k]] /\ g[Len(<< >>)] = d
  BY <1>1, SMTT(30)
<1> HIDE DEF g
<1>4. trackDrops(d, << >>) = g[Len(<< >>)]
  BY <1>1, <1>2, <1>3, TrackIs
<1> QED BY <1>3, <1>4

\* Of the ticks of the buffer only the new one is counted.
LEMMA TrackNew ==
  ASSUME NEW s \in Seq(StripTick), NEW t \in StripTick, NEW d \in DropTrack,
         s # << >> => d.lastTs # NoTick,
         \A k \in 1 .. Len(s) : s[k].ts <= d.lastTs
  PROVE trackDrops(d, Append(s, t)) = fold(d.lastTs = NoTick, d, t)
<1> DEFINE n == Len(s)
<1> DEFINE all == Append(s, t)
<1> DEFINE g == [k \in 0 .. Len(all) |-> IF k <= n THEN d ELSE fold(d.lastTs = NoTick, d, t)]
<1>1. n \in Nat /\ Len(all) = n + 1 /\ all[n + 1] = t /\ \A k \in 1 .. n : all[k] = s[k]
  BY SMTT(30)
<1>2. ASSUME NEW k \in 0 .. Len(all)
      PROVE g[k] = IF k = 0 THEN d ELSE fold(d.lastTs = NoTick, g[k - 1], all[k])
  <2>1. CASE k = 0
    BY <1>1, <2>1, SMTT(30)
  <2>2. CASE k \in 1 .. n
    <3>1. g[k] = d /\ g[k - 1] = d /\ all[k] = s[k]
      BY <1>1, <2>2, SMTT(30)
    <3>2. d.lastTs # NoTick /\ s[k].ts <= d.lastTs
      BY <1>1, <2>2, SMTT(30)
    <3>3. fold(d.lastTs = NoTick, d, s[k]) = d
      BY <3>2 DEF fold
    <3>4. k # 0
      BY <1>1, <2>2, SMTT(30)
    <3> HIDE DEF g, all
    <3> QED BY <3>1, <3>3, <3>4
  <2>3. CASE k = n + 1
    <3>1. g[k] = fold(d.lastTs = NoTick, d, t) /\ g[k - 1] = d /\ all[k] = t /\ k # 0
      BY <1>1, <2>3, SMTT(30)
    <3> HIDE DEF g, all
    <3> QED BY <3>1
  <2> HIDE DEF g
  <2>4. k = 0 \/ k \in 1 .. n \/ k = n + 1
    BY <1>1, SMTT(30)
  <2> QED BY <2>1, <2>2, <2>3, <2>4
<1>3. g = [k \in 0 .. Len(all) |-> g[k]]
  OBVIOUS
<1>4. g[Len(all)] = fold(d.lastTs = NoTick, d, t)
  BY <1>1, SMTT(30)
<1>5. Len(all) \in Nat
  BY <1>1, SMTT(30)
<1> HIDE DEF g, all
<1>6. IsLoop(g, d, all)
  BY <1>2 DEF IsLoop
<1>7. trackDrops(d, all) = g[Len(all)]
  BY <1>3, <1>5, <1>6, TrackIs
<1>8. trackDrops(d, all) = fold(d.lastTs = NoTick, d, t)
  BY <1>4, <1>7
<1> QED BY <1>8 DEF all

\* The ticks of the first batch count no drops: the last of them is the base.
LEMMA TrackFirst ==
  ASSUME NEW s \in Seq(StripTick), s # << >>,
         \A j, k \in 1 .. Len(s) : j < k => s[j].ts < s[k].ts
  PROVE \E r \in Nat \cup {NoTick} :
          trackDrops(Untracked, s) = [lastTs |-> s[Len(s)].ts, prev |-> s[Len(s)].drops, increase |-> 0, restartAt |-> r]
<1> DEFINE back(k) == {j \in 2 .. k : s[j].drops < s[j - 1].drops}
<1> DEFINE latest(B) == IF B = {} THEN NoTick ELSE s[CHOOSE j \in B : \A i \in B : i <= j].ts
<1> DEFINE at(k) == latest(back(k))
<1> DEFINE state(k) == [lastTs |-> s[k].ts, prev |-> s[k].drops, increase |-> 0, restartAt |-> at(k)]
<1> DEFINE g == [k \in 0 .. Len(s) |-> IF k = 0 THEN Untracked ELSE state(k)]
<1>1. Len(s) \in Nat \ {0} /\ \A k \in 1 .. Len(s) : s[k].ts \in Nat /\ s[k].drops \in Nat /\ s[k].ts # NoTick
  <2>1. Len(s) \in Nat /\ Len(s) # 0 /\ \A k \in 1 .. Len(s) : s[k] \in StripTick
    BY SMTT(30)
  <2>2. ASSUME NEW t \in StripTick PROVE t.ts \in Nat /\ t.drops \in Nat /\ t.ts # NoTick
    BY StripAssumption DEF StripTick
  <2>3. \A k \in 1 .. Len(s) : s[k].ts \in Nat /\ s[k].drops \in Nat /\ s[k].ts # NoTick
    BY <2>1, <2>2
  <2> QED BY <2>1, <2>3
<1>2. ASSUME NEW k \in 2 .. Len(s)
      PROVE at(k) = IF s[k].drops < s[k - 1].drops THEN s[k].ts ELSE at(k - 1)
  <2>1. CASE s[k].drops < s[k - 1].drops
    <3>1. k \in back(k) /\ \A i \in back(k) : i \in Int /\ i <= k
      BY <1>1, <2>1, SMTT(30)
    <3>2. \A j \in back(k) : (\A i \in back(k) : i <= j) <=> j = k
      <4> HIDE DEF back
      <4> QED BY <1>1, <3>1, SMTT(30)
    <3>3. (CHOOSE j \in back(k) : \A i \in back(k) : i <= j) = k
      <4> HIDE DEF back
      <4> QED BY <3>1, <3>2
    <3> HIDE DEF back
    <3>4. at(k) = s[CHOOSE j \in back(k) : \A i \in back(k) : i <= j].ts
      BY <3>1
    <3>5. at(k) = s[k].ts
      BY <3>3, <3>4
    <3> QED BY <2>1, <3>5
  <2>2. CASE ~(s[k].drops < s[k - 1].drops)
    <3>1. back(k) = back(k - 1)
      BY <1>1, <2>2, SMTT(30)
    <3> HIDE DEF back, latest
    <3> QED BY <2>2, <3>1
  <2> QED BY <2>1, <2>2
<1>3. at(1) = NoTick
  BY SMTT(30)
<1> HIDE DEF at
<1>4. ASSUME NEW k \in 0 .. Len(s)
      PROVE g[k] = IF k = 0 THEN Untracked ELSE fold(Untracked.lastTs = NoTick, g[k - 1], s[k])
  <2>0. Untracked.lastTs = NoTick /\ Untracked.restartAt = NoTick /\ Untracked.increase = 0
    BY DEF Untracked
  <2>1. CASE k = 0
    BY <2>1
  <2>2. CASE k = 1
    <3>1. g[k] = state(1) /\ g[k - 1] = Untracked
      BY <1>1, <2>2, SMTT(30)
    <3>2. fold(TRUE, Untracked, s[1]) = [lastTs |-> s[1].ts, prev |-> s[1].drops, increase |-> 0, restartAt |-> NoTick]
      BY <2>0 DEF fold
    <3>3. state(1) = fold(TRUE, Untracked, s[1])
      BY <1>3, <3>2
    <3>4. fold(Untracked.lastTs = NoTick, Untracked, s[1]) = fold(TRUE, Untracked, s[1])
      BY <2>0
    <3> HIDE DEF g, state
    <3>5. g[k] = fold(Untracked.lastTs = NoTick, g[k - 1], s[k])
      BY <2>2, <3>1, <3>3, <3>4
    <3> QED BY <2>2, <3>5, SMTT(30)
  <2>3. CASE k \in 2 .. Len(s)
    <3>1. g[k] = state(k) /\ g[k - 1] = state(k - 1) /\ k # 0
      BY <1>1, <2>3, SMTT(30)
    <3>2. /\ s[k - 1].ts < s[k].ts /\ s[k].ts \in Nat /\ s[k - 1].ts \in Nat /\ s[k - 1].ts # NoTick
          /\ ~(s[k].ts <= s[k - 1].ts)
      BY <1>1, <2>3, SMTT(30)
    <3>3. /\ state(k - 1).lastTs = s[k - 1].ts /\ state(k - 1).prev = s[k - 1].drops
          /\ state(k - 1).increase = 0 /\ state(k - 1).restartAt = at(k - 1)
      OBVIOUS
    <3>4. fold(TRUE, state(k - 1), s[k]) =
            [lastTs |-> s[k].ts, prev |-> s[k].drops, increase |-> 0,
             restartAt |-> IF s[k].drops < s[k - 1].drops THEN s[k].ts ELSE at(k - 1)]
      <4> HIDE DEF state
      <4> QED BY <3>2, <3>3 DEF fold
    <3>5. state(k) = fold(TRUE, state(k - 1), s[k])
      BY <1>2, <2>3, <3>4
    <3> HIDE DEF g, state
    <3>6. fold(Untracked.lastTs = NoTick, state(k - 1), s[k]) = fold(TRUE, state(k - 1), s[k])
      BY <2>0
    <3> QED BY <3>1, <3>5, <3>6
  <2> HIDE DEF g
  <2>4. k = 0 \/ k = 1 \/ k \in 2 .. Len(s)
    BY <1>1, SMTT(30)
  <2> QED BY <2>1, <2>2, <2>3, <2>4
<1>5. g = [k \in 0 .. Len(s) |-> g[k]]
  OBVIOUS
<1>6. g[Len(s)] = state(Len(s))
  BY <1>1, SMTT(30)
<1>7. at(Len(s)) \in Nat \cup {NoTick}
  <2> DEFINE T == {k \in 1 .. Len(s) : at(k) \notin Nat \cup {NoTick}}
  <2>1. CASE T # {}
    <3>1. T \subseteq Nat
      BY SMTT(30)
    <3>2. PICK j \in T : \A m \in T : j <= m
      <4> HIDE DEF T
      <4> QED BY <2>1, <3>1, Least
    <3>3. j \in 1 .. Len(s) /\ at(j) \notin Nat \cup {NoTick}
      OBVIOUS
    <3>4. j # 1
      BY <1>3, <3>3
    <3>5. j \in 2 .. Len(s) /\ j - 1 \in 1 .. Len(s) /\ j - 1 \notin T
      BY <1>1, <3>2, <3>3, <3>4, SMTT(30)
    <3>6. at(j - 1) \in Nat \cup {NoTick}
      BY <3>5
    <3> QED BY <1>1, <1>2, <3>3, <3>5, <3>6
  <2>2. CASE T = {}
    BY <1>1, <2>2, SMTT(30)
  <2> QED BY <2>1, <2>2
<1> HIDE DEF g
<1>8. IsLoop(g, Untracked, s)
  BY <1>4 DEF IsLoop
<1>9. trackDrops(Untracked, s) = g[Len(s)]
  <2>1. Len(s) \in Nat
    BY <1>1
  <2> QED BY <1>5, <1>8, <2>1, TrackIs
<1> QED BY <1>6, <1>7, <1>9

-----------------------------------------------------------------------------
(* The inductive invariant.                                                 *)

\* A collector: the drops of all time grow.
IsHost(h) ==
  /\ h \in [ts : Nat, drops : Nat, active : {{}}, ended : {{}}, counts : Seq(Nat), fresh : BOOLEAN]
  /\ Len(h.counts) = h.ts
  /\ \A i, j \in 1 .. h.ts : i <= j => h.counts[i] <= h.counts[j]

\* Drops since a tick.
Since(h, ts) == h.counts[h.ts] - h.counts[ts]

\* The count at a tick, prev, is that of the collector that runs, or that one began
\* after the tick and its whole count is part of the drops since.
Linked(h, ts, prev) ==
  /\ ts \in 1 .. h.ts /\ prev \in Nat
  /\ h.drops = prev + Since(h, ts) \/ h.drops <= Since(h, ts)

\* The buffer holds ticks of the past, in order.
RingInv ==
  /\ ring \in Seq(StripTick)
  /\ \A k \in 1 .. Len(ring) : ring[k].ts \in 1 .. host.ts
  /\ \A j, k \in 1 .. Len(ring) : j < k => ring[j].ts < ring[k].ts

\* Before the page opens nothing is counted; without a restart the count of the
\* last tick of the buffer is that of the collector.
ClosedInv ==
  ~opening.open =>
    /\ strip = Untracked /\ opening.base = NoTick /\ ~opening.masked
    /\ ring # << >> => /\ Linked(host, ring[Len(ring)].ts, ring[Len(ring)].drops)
                       /\ host.fresh \/ host.drops = ring[Len(ring)].drops + Since(host, ring[Len(ring)].ts)

\* The page opened without a tick and waits for one.
WaitInv == opening.open /\ opening.base = NoTick => ring = << >> /\ strip = Untracked

\* What the strip has counted, and what it knows of the collector: unless a restart
\* is masked, prev tells exactly the drops that are still to be counted.
CountInv ==
  opening.open /\ opening.base # NoTick =>
    /\ strip \in DropTrack /\ opening.base \in 1 .. host.ts
    /\ Linked(host, strip.lastTs, strip.prev)
    /\ \A k \in 1 .. Len(ring) : ring[k].ts <= strip.lastTs
    /\ strip.increase <= host.counts[strip.lastTs] - host.counts[opening.base]
    /\ ~opening.masked =>
         /\ strip.increase = host.counts[strip.lastTs] - host.counts[opening.base]
         /\ host.drops = IF host.fresh THEN Since(host, strip.lastTs) ELSE strip.prev + Since(host, strip.lastTs)

OpeningType == opening \in [open : BOOLEAN, base : Nat \cup {NoTick}, masked : BOOLEAN]

StripInv == IsHost(host) /\ RingInv /\ OpeningType /\ ClosedInv /\ WaitInv /\ CountInv

\* The fields of a collector.
LEMMA HostFields ==
  ASSUME NEW h, IsHost(h)
  PROVE /\ h.ts \in Nat /\ h.drops \in Nat /\ h.counts \in Seq(Nat) /\ h.fresh \in BOOLEAN
        /\ h.active = {} /\ h.ended = {}
        /\ Len(h.counts) = h.ts /\ DOMAIN h.counts = 1 .. h.ts
        /\ \A k \in 1 .. h.ts : h.counts[k] \in Nat
<1>1. h.ts \in Nat /\ h.drops \in Nat /\ h.counts \in Seq(Nat) /\ h.active = {} /\ h.ended = {}
  BY DEF IsHost
<1>2. h.fresh \in BOOLEAN
  BY DEF IsHost
<1>3. Len(h.counts) = h.ts
  BY DEF IsHost
<1>4. DOMAIN h.counts = 1 .. h.ts /\ \A k \in 1 .. h.ts : h.counts[k] \in Nat
  BY <1>1, <1>3, SMTT(30)
<1> QED BY <1>1, <1>2, <1>3, <1>4

\* The drops since a tick are a number, and none are since the last.
LEMMA SinceNat ==
  ASSUME NEW h, IsHost(h), NEW ts \in 1 .. h.ts
  PROVE Since(h, ts) \in Nat /\ h.ts \in 1 .. h.ts /\ (ts = h.ts => Since(h, ts) = 0)
<1>1. h.ts \in Nat /\ \A k \in 1 .. h.ts : h.counts[k] \in Nat
  BY HostFields
<1>2. h.ts \in 1 .. h.ts /\ ts <= h.ts
  BY <1>1, SMTT(30)
<1>3. h.counts[ts] <= h.counts[h.ts]
  BY <1>2 DEF IsHost
<1>4. h.counts[ts] \in Nat /\ h.counts[h.ts] \in Nat
  BY <1>1, <1>2
<1> QED BY <1>2, <1>3, <1>4, SMTT(30) DEF Since

\* The collector after an interval.
Counted(h, h2, dropped) ==
  /\ h2.ts = h.ts + 1 /\ h2.drops = h.drops + dropped
  /\ \A k \in 1 .. h.ts : h2.counts[k] = h.counts[k]
  /\ h.ts # 0 => h2.counts[h2.ts] = h.counts[h.ts] + dropped

After(h, dropped, still) ==
  [h EXCEPT !.ts = h.ts + 1, !.drops = h.drops + dropped, !.active = {},
            !.counts = Append(@, IF h.ts = 0 THEN dropped ELSE h.counts[h.ts] + dropped),
            !.fresh = @ /\ still]

AfterOK(h, h2, dropped, still) ==
  IsHost(h2) /\ Counted(h, h2, dropped) /\ h2.fresh = (h.fresh /\ still)

\* The counts of the collector after an interval.
LEMMA HostCounts ==
  ASSUME NEW h, IsHost(h), NEW dropped \in Nat, NEW still \in BOOLEAN
  PROVE AfterOK(h, After(h, dropped, still), dropped, still)
<1> DEFINE h2 == After(h, dropped, still)
<1> DEFINE total == IF h.ts = 0 THEN dropped ELSE h.counts[h.ts] + dropped
<1>1. /\ h.ts \in Nat /\ h.drops \in Nat /\ h.counts \in Seq(Nat) /\ h.fresh \in BOOLEAN
      /\ h.active = {} /\ h.ended = {} /\ Len(h.counts) = h.ts
      /\ \A k \in 1 .. h.ts : h.counts[k] \in Nat
  BY HostFields
<1>2. total \in Nat
  BY <1>1, SMTT(30)
<1>3. /\ h2.ts = h.ts + 1 /\ h2.drops = h.drops + dropped /\ h2.counts = Append(h.counts, total)
      /\ h2.active = {}
  BY DEF IsHost, After
<1>4. h2.fresh = (h.fresh /\ still)
  BY DEF IsHost, After
<1>5. h2 \in [ts : Nat, drops : Nat, active : {{}}, ended : {{}}, counts : Seq(Nat), fresh : BOOLEAN]
  <2>1. h.ts + 1 \in Nat /\ h.drops + dropped \in Nat /\ Append(h.counts, total) \in Seq(Nat)
    BY <1>1, <1>2, SMTT(30)
  <2>2. (h.fresh /\ still) \in BOOLEAN
    OBVIOUS
  <2>3. h \in [ts : Nat, drops : Nat, active : {{}}, ended : {{}}, counts : Seq(Nat), fresh : BOOLEAN]
    BY DEF IsHost
  <2> QED BY <2>1, <2>2, <2>3 DEF After
<1> HIDE DEF h2
<1>6. /\ Len(h2.counts) = h.ts + 1 /\ h2.counts[h.ts + 1] = total
      /\ \A k \in 1 .. h.ts : h2.counts[k] = h.counts[k]
  <2> HIDE DEF total
  <2> QED BY <1>1, <1>2, <1>3, SMTT(30)
<1>7. ASSUME NEW i \in 1 .. h2.ts, NEW j \in 1 .. h2.ts, i <= j PROVE h2.counts[i] <= h2.counts[j]
  <2>1. CASE j \in 1 .. h.ts
    <3>1. i \in 1 .. h.ts
      BY <1>1, <1>3, <1>7, <2>1, SMTT(30)
    <3>2. h.counts[i] <= h.counts[j]
      BY <1>7, <2>1, <3>1 DEF IsHost
    <3> QED BY <1>6, <2>1, <3>1, <3>2
  <2>2. CASE j = h.ts + 1 /\ i \in 1 .. h.ts
    <3>1. h.ts # 0 /\ h.ts \in 1 .. h.ts /\ i <= h.ts
      BY <1>1, <2>2, SMTT(30)
    <3>2. h.counts[i] <= h.counts[h.ts]
      BY <2>2, <3>1 DEF IsHost
    <3>3. h.counts[i] \in Nat /\ h.counts[h.ts] \in Nat
      BY <1>1, <2>2, <3>1
    <3>4. h.counts[i] <= total
      BY <3>1, <3>2, <3>3, SMTT(30)
    <3> HIDE DEF total
    <3> QED BY <1>6, <2>2, <3>4
  <2>3. CASE i = j
    <3>1. h2.counts[j] \in Nat
      <4> HIDE DEF total
      <4> QED BY <1>1, <1>2, <1>3, <1>6, SMTT(30)
    <3>2. \A n \in Nat : n <= n
      BY SMTT(30)
    <3> QED BY <2>3, <3>1, <3>2
  <2>4. j \in 1 .. h.ts \/ (j = h.ts + 1 /\ i \in 1 .. h.ts) \/ i = j
    BY <1>1, <1>3, <1>7, SMTT(30)
  <2> QED BY <2>1, <2>2, <2>3, <2>4
<1>8. IsHost(h2)
  BY <1>3, <1>5, <1>6, <1>7 DEF IsHost
<1>9. Counted(h, h2, dropped)
  BY <1>3, <1>6 DEF Counted
<1> QED BY <1>4, <1>8, <1>9 DEF AfterOK, h2

\* An interval adds its drops to those since a tick.
SinceOK(h, h2, dropped, ts) ==
  /\ Since(h2, ts) = Since(h, ts) + dropped /\ Since(h, ts) \in Nat
  /\ ts \in 1 .. h2.ts /\ h2.counts[ts] = h.counts[ts]

\* The drops since a tick grow by those of the interval.
LEMMA SinceStep ==
  ASSUME NEW h, NEW h2, IsHost(h), IsHost(h2), NEW dropped \in Nat, Counted(h, h2, dropped),
         NEW ts \in 1 .. h.ts
  PROVE SinceOK(h, h2, dropped, ts)
<1>1. h.ts \in Nat /\ Since(h, ts) \in Nat /\ \A k \in 1 .. h.ts : h.counts[k] \in Nat
  BY HostFields, SinceNat
<1>2. h2.ts = h.ts + 1 /\ h.ts # 0 /\ h.ts \in 1 .. h.ts
  <2>1. h.ts # 0 /\ h.ts \in 1 .. h.ts
    BY <1>1, SMTT(30)
  <2> QED BY <2>1 DEF Counted
<1>3. h2.counts[h2.ts] = h.counts[h.ts] + dropped /\ h2.counts[ts] = h.counts[ts]
  BY <1>2 DEF Counted
<1>4. h.counts[ts] \in Nat /\ h.counts[h.ts] \in Nat
  BY <1>1, <1>2
<1>5. Since(h2, ts) = Since(h, ts) + dropped
  BY <1>3, <1>4, SMTT(30) DEF Since
<1>6. ts \in 1 .. h2.ts
  BY <1>1, <1>2, SMTT(30)
<1> QED BY <1>1, <1>3, <1>5, <1>6 DEF SinceOK

\* An interval keeps the link between a tick and the collector.
LEMMA LinkedStep ==
  ASSUME NEW h, NEW h2, IsHost(h), IsHost(h2), NEW dropped \in Nat, Counted(h, h2, dropped),
         NEW ts, NEW prev, Linked(h, ts, prev)
  PROVE Linked(h2, ts, prev)
<1>1. ts \in 1 .. h.ts /\ prev \in Nat
  BY DEF Linked
<1>2. Since(h2, ts) = Since(h, ts) + dropped /\ Since(h, ts) \in Nat /\ ts \in 1 .. h2.ts
  <2>1. SinceOK(h, h2, dropped, ts)
    BY <1>1, SinceStep
  <2> QED BY <2>1 DEF SinceOK
<1>3. h2.drops = h.drops + dropped /\ h.drops \in Nat
  BY HostFields DEF Counted
<1>4. h.drops = prev + Since(h, ts) \/ h.drops <= Since(h, ts)
  BY DEF Linked
<1>5. h2.drops = prev + Since(h2, ts) \/ h2.drops <= Since(h2, ts)
  BY <1>1, <1>2, <1>3, <1>4, SMTT(30)
<1> QED BY <1>1, <1>2, <1>5 DEF Linked

-----------------------------------------------------------------------------
(* The steps.                                                               *)

\* What an interval does, by parts.
Shown(seen) == seen /\ opening.open
TickNow(gap, dropped) == [ts |-> host.ts + 1, drops |-> host.drops + dropped, active |-> {}, gap |-> gap]

Ticked(gap, dropped, seen) ==
  /\ ring' = IF seen THEN Append(ring, TickNow(gap, dropped)) ELSE ring
  /\ strip' = IF Shown(seen) THEN trackDrops(strip, Append(ring, TickNow(gap, dropped))) ELSE strip
  /\ ~Shown(seen) => opening' = opening
  /\ Shown(seen) => opening' = [opening EXCEPT !.base = IF @ = NoTick THEN host.ts + 1 ELSE @,
                                 !.masked = @ \/ (host.fresh /\ host.drops + dropped >= strip.prev)]
  /\ host'.fresh = (host.fresh /\ ~Shown(seen))

\* What the end of an interval does, with its tick shown or missed.
LEMMA TickEffect ==
  ASSUME IsHost(host), OpeningType, NEW dropped \in 0 .. MaxDrops, NEW seen \in BOOLEAN, HostTick({}, dropped, seen)
  PROVE /\ IsHost(host') /\ Counted(host, host', dropped) /\ dropped \in Nat
        /\ \E gap \in BOOLEAN : Ticked(gap, dropped, seen) /\ TickNow(gap, dropped) \in StripTick
<1> DEFINE gap == ring # << >> /\ ring[Len(ring)].ts # host.ts
<1>1. dropped \in Nat
  BY StripAssumption, SMTT(30)
<1>2. opening.open \in BOOLEAN
  BY DEF OpeningType
<1>3. Shown(seen) \in BOOLEAN /\ (~Shown(seen)) \in BOOLEAN /\ gap \in BOOLEAN
  BY <1>2 DEF Shown
<1>4. host' = After(host, dropped, ~Shown(seen))
  BY DEF HostTick, Shown, After
<1>5. IsHost(host') /\ Counted(host, host', dropped) /\ host'.fresh = (host.fresh /\ ~Shown(seen))
  <2>1. AfterOK(host, After(host, dropped, ~Shown(seen)), dropped, ~Shown(seen))
    BY <1>1, <1>3, HostCounts
  <2> QED BY <1>4, <2>1 DEF AfterOK
<1>6. /\ ring' = IF seen THEN Append(ring, TickNow(gap, dropped)) ELSE ring
      /\ strip' = IF Shown(seen) THEN trackDrops(strip, IF seen THEN Append(ring, TickNow(gap, dropped)) ELSE ring) ELSE strip
      /\ opening' = IF ~Shown(seen) THEN opening
                    ELSE [opening EXCEPT !.base = IF @ = NoTick THEN host.ts + 1 ELSE @,
                                 !.masked = @ \/ (host.fresh /\ host.drops + dropped >= strip.prev)]
  BY DEF HostTick, Shown, TickNow
<1>7. TickNow(gap, dropped) \in StripTick
  <2>1. host.ts + 1 \in Nat /\ host.drops + dropped \in Nat
    BY <1>1, HostFields, SMTT(30)
  <2>2. \A g \in BOOLEAN, a, b \in Nat : [ts |-> a, drops |-> b, active |-> {}, gap |-> g] \in StripTick
    BY DEF StripTick
  <2> QED BY <1>3, <2>1, <2>2 DEF TickNow
<1> HIDE DEF gap
<1>8. Ticked(gap, dropped, seen)
  <2>1. Shown(seen) => seen
    BY DEF Shown
  <2>2. CASE seen
    <3>1. (IF seen THEN Append(ring, TickNow(gap, dropped)) ELSE ring) = Append(ring, TickNow(gap, dropped))
      BY <2>2
    <3> QED BY <1>5, <1>6, <3>1 DEF Ticked
  <2>3. CASE ~seen
    BY <1>5, <1>6, <2>1, <2>3 DEF Ticked
  <2> QED BY <2>2, <2>3
<1> QED BY <1>1, <1>3, <1>5, <1>7, <1>8

\* The buffer after an interval.
LEMMA RingTick ==
  ASSUME IsHost(host), RingInv, NEW dropped, NEW seen \in BOOLEAN, NEW gap, Ticked(gap, dropped, seen),
         TickNow(gap, dropped) \in StripTick, host'.ts = host.ts + 1
  PROVE /\ RingInv'
        /\ seen => ring' # << >> /\ ring'[Len(ring')] = TickNow(gap, dropped)
<1> DEFINE t == TickNow(gap, dropped)
<1>1. ring \in Seq(StripTick) /\ Len(ring) \in Nat
  BY SMTT(30) DEF RingInv
<1>2. host.ts \in Nat
  BY HostFields
<1>3. t \in StripTick /\ t.ts = host.ts + 1
  BY DEF TickNow
<1> HIDE DEF t
<1>4. CASE seen
  <2>1. ring' = Append(ring, t)
    BY <1>4 DEF Ticked, t
  <2>2. /\ Len(ring') = Len(ring) + 1 /\ ring'[Len(ring) + 1] = t /\ ring' # << >> /\ ring' \in Seq(StripTick)
        /\ \A k \in 1 .. Len(ring) : ring'[k] = ring[k]
    BY <1>1, <1>3, <2>1, SMTT(30)
  <2>3. \A k \in 1 .. Len(ring) : ring[k].ts \in 1 .. host.ts
    BY DEF RingInv
  <2>4. ASSUME NEW k \in 1 .. Len(ring') PROVE ring'[k].ts \in 1 .. host'.ts
    BY <1>1, <1>2, <1>3, <2>2, <2>3, SMTT(30)
  <2>5. ASSUME NEW j \in 1 .. Len(ring'), NEW k \in 1 .. Len(ring'), j < k PROVE ring'[j].ts < ring'[k].ts
    <3>1. j \in 1 .. Len(ring) /\ ring'[j] = ring[j] /\ ring[j].ts \in 1 .. host.ts
      BY <1>1, <2>2, <2>3, <2>5, SMTT(30)
    <3>2. CASE k = Len(ring) + 1
      BY <1>2, <1>3, <2>2, <3>1, <3>2, SMTT(30)
    <3>3. CASE k \in 1 .. Len(ring)
      <4>1. ring[j].ts < ring[k].ts
        BY <2>5, <3>1, <3>3 DEF RingInv
      <4> QED BY <2>2, <3>1, <3>3, <4>1
    <3>4. k = Len(ring) + 1 \/ k \in 1 .. Len(ring)
      BY <1>1, <2>2, SMTT(30)
    <3> QED BY <3>2, <3>3, <3>4
  <2>6. RingInv'
    BY <2>2, <2>4, <2>5 DEF RingInv
  <2>7. ring'[Len(ring')] = t
    BY <2>2
  <2> QED BY <2>2, <2>6, <2>7 DEF t
<1>5. CASE ~seen
  <2>1. ring' = ring
    BY <1>5 DEF Ticked
  <2>2. \A k \in 1 .. Len(ring) : ring[k].ts \in 1 .. host'.ts
    <3>1. \A k \in 1 .. Len(ring) : ring[k].ts \in 1 .. host.ts
      BY DEF RingInv
    <3>2. \A n \in 1 .. host.ts : n \in 1 .. host'.ts
      BY <1>2, SMTT(30)
    <3> QED BY <3>1, <3>2
  <2>3. RingInv'
    BY <2>1, <2>2 DEF RingInv
  <2> QED BY <1>5, <2>3
<1> QED BY <1>4, <1>5

\* The last tick has the count of the collector.
LEMMA LastLinked ==
  ASSUME NEW h, IsHost(h), h.ts # 0
  PROVE Linked(h, h.ts, h.drops) /\ Since(h, h.ts) = 0 /\ h.ts \in 1 .. h.ts
<1>1. h.ts \in Nat /\ h.drops \in Nat
  BY HostFields
<1>2. h.ts \in 1 .. h.ts
  BY <1>1, SMTT(30)
<1>3. Since(h, h.ts) = 0
  BY <1>2, SinceNat
<1>4. h.drops = h.drops + Since(h, h.ts)
  BY <1>1, <1>3, SMTT(30)
<1> QED BY <1>1, <1>2, <1>3, <1>4 DEF Linked

\* The fields of the opening.
LEMMA OpeningFields ==
  ASSUME OpeningType
  PROVE opening.open \in BOOLEAN /\ opening.masked \in BOOLEAN /\ opening.base \in Nat \cup {NoTick}
BY DEF OpeningType

\* An interval before the page opens.
LEMMA TickClosed ==
  ASSUME StripInv, NEW dropped \in 0 .. MaxDrops, NEW seen \in BOOLEAN, HostTick({}, dropped, seen), ~opening.open
  PROVE StripInv'
<1>1. IsHost(host) /\ RingInv /\ OpeningType /\ ClosedInv
  BY DEF StripInv
<1>2. IsHost(host') /\ Counted(host, host', dropped) /\ dropped \in Nat
  BY <1>1, TickEffect
<1>3. PICK gap \in BOOLEAN : Ticked(gap, dropped, seen) /\ TickNow(gap, dropped) \in StripTick
  BY <1>1, TickEffect
<1>4. host'.ts = host.ts + 1 /\ host'.drops = host.drops + dropped
  BY <1>2 DEF Counted
<1>5. RingInv' /\ (seen => ring' # << >> /\ ring'[Len(ring')] = TickNow(gap, dropped))
  BY <1>1, <1>3, <1>4, RingTick
<1>6. ~Shown(seen)
  BY DEF Shown
<1>7. strip' = strip /\ opening' = opening /\ host'.fresh = (host.fresh /\ ~Shown(seen))
  BY <1>3, <1>6 DEF Ticked
<1>8. host.fresh => host'.fresh
  BY <1>6, <1>7
<1>9. ring' # << >> => /\ Linked(host', ring'[Len(ring')].ts, ring'[Len(ring')].drops)
                       /\ host'.fresh \/ host'.drops = ring'[Len(ring')].drops + Since(host', ring'[Len(ring')].ts)
  <2>1. CASE seen
    <3>1. host'.ts # 0 /\ host'.drops \in Nat
      BY <1>1, <1>2, <1>4, HostFields, SMTT(30)
    <3>2. Linked(host', host'.ts, host'.drops) /\ Since(host', host'.ts) = 0
      BY <1>2, <3>1, LastLinked
    <3>3. ring'[Len(ring')].ts = host'.ts /\ ring'[Len(ring')].drops = host'.drops
      BY <1>4, <1>5, <2>1, SMTT(30) DEF TickNow
    <3>4. host'.drops = host'.drops + Since(host', host'.ts)
      BY <3>1, <3>2, SMTT(30)
    <3> QED BY <3>2, <3>3, <3>4
  <2>2. CASE ~seen
    <3>1. ring' = ring
      BY <1>3, <2>2 DEF Ticked
    <3>2. CASE ring # << >>
      <4> DEFINE ts == ring[Len(ring)].ts
      <4> DEFINE prev == ring[Len(ring)].drops
      <4>1. Linked(host, ts, prev) /\ (host.fresh \/ host.drops = prev + Since(host, ts))
        BY <1>1, <3>2 DEF ClosedInv
      <4> HIDE DEF ts, prev
      <4>2. Linked(host', ts, prev)
        BY <1>1, <1>2, <4>1, LinkedStep
      <4>3. ts \in 1 .. host.ts /\ prev \in Nat
        BY <4>1 DEF Linked
      <4>4. SinceOK(host, host', dropped, ts)
        BY <1>1, <1>2, <4>3, SinceStep
      <4>5. Since(host', ts) = Since(host, ts) + dropped /\ Since(host, ts) \in Nat
        BY <4>4 DEF SinceOK
      <4>6. host.drops = prev + Since(host, ts) => host'.drops = prev + Since(host', ts)
        BY <1>2, <1>4, <4>3, <4>5, SMTT(30)
      <4>7. host'.fresh \/ host'.drops = prev + Since(host', ts)
        BY <1>8, <4>1, <4>6
      <4>8. ring'[Len(ring')].ts = ts /\ ring'[Len(ring')].drops = prev
        BY <3>1 DEF ts, prev
      <4> QED BY <4>2, <4>7, <4>8
    <3> QED BY <3>1, <3>2
  <2> QED BY <2>1, <2>2
<1>10. ClosedInv'
  <2>1. strip = Untracked /\ opening.base = NoTick /\ ~opening.masked
    BY <1>1 DEF ClosedInv
  <2>2. strip' = Untracked /\ opening'.base = NoTick /\ ~opening'.masked
    BY <1>7, <2>1
  <2> QED BY <1>9, <2>2 DEF ClosedInv
<1>11. WaitInv' /\ CountInv' /\ OpeningType'
  BY <1>1, <1>7 DEF WaitInv, CountInv, OpeningType
<1> QED BY <1>2, <1>5, <1>10, <1>11 DEF StripInv

\* An interval whose tick the open page misses.
LEMMA TickMissed ==
  ASSUME StripInv, NEW dropped \in 0 .. MaxDrops, HostTick({}, dropped, FALSE), opening.open
  PROVE StripInv'
<1>1. IsHost(host) /\ RingInv /\ OpeningType /\ WaitInv /\ CountInv
  BY DEF StripInv
<1>0. FALSE \in BOOLEAN
  OBVIOUS
<1>2. IsHost(host') /\ Counted(host, host', dropped) /\ dropped \in Nat
  BY <1>0, <1>1, TickEffect
<1>3. PICK gap \in BOOLEAN : Ticked(gap, dropped, FALSE) /\ TickNow(gap, dropped) \in StripTick
  BY <1>0, <1>1, TickEffect
<1>4. host'.ts = host.ts + 1 /\ host'.drops = host.drops + dropped
  BY <1>2 DEF Counted
<1>5. RingInv'
  BY <1>0, <1>1, <1>3, <1>4, RingTick
<1>6. ring' = ring /\ strip' = strip /\ opening' = opening /\ host'.fresh = host.fresh
  <2>1. ~Shown(FALSE)
    BY DEF Shown
  <2>2. host'.fresh = (host.fresh /\ ~Shown(FALSE)) /\ host.fresh \in BOOLEAN
    BY <1>1, <1>3, HostFields DEF Ticked
  <2>3. host'.fresh = host.fresh
    BY <2>1, <2>2
  <2> QED BY <1>3, <2>1, <2>3 DEF Ticked
<1>7. WaitInv' /\ OpeningType' /\ ClosedInv'
  BY <1>1, <1>6 DEF WaitInv, OpeningType, ClosedInv
<1>8. ASSUME opening.base # NoTick
      PROVE /\ strip \in DropTrack /\ opening.base \in 1 .. host'.ts
            /\ Linked(host', strip.lastTs, strip.prev)
            /\ \A k \in 1 .. Len(ring) : ring[k].ts <= strip.lastTs
            /\ strip.increase <= host'.counts[strip.lastTs] - host'.counts[opening.base]
            /\ ~opening.masked =>
                 /\ strip.increase = host'.counts[strip.lastTs] - host'.counts[opening.base]
                 /\ host'.drops = IF host.fresh THEN Since(host', strip.lastTs) ELSE strip.prev + Since(host', strip.lastTs)
  <2> DEFINE ts == strip.lastTs
  <2> DEFINE base == opening.base
  <2>1. /\ strip \in DropTrack /\ base \in 1 .. host.ts /\ Linked(host, ts, strip.prev)
        /\ \A k \in 1 .. Len(ring) : ring[k].ts <= ts
        /\ strip.increase <= host.counts[ts] - host.counts[base]
        /\ ~opening.masked =>
             /\ strip.increase = host.counts[ts] - host.counts[base]
             /\ host.drops = IF host.fresh THEN Since(host, ts) ELSE strip.prev + Since(host, ts)
    BY <1>1, <1>8 DEF CountInv
  <2>2. ts \in 1 .. host.ts /\ strip.prev \in Nat
    BY <2>1 DEF Linked
  <2> HIDE DEF ts, base
  <2>3. Linked(host', ts, strip.prev)
    BY <1>1, <1>2, <2>1, LinkedStep
  <2>4. SinceOK(host, host', dropped, ts) /\ SinceOK(host, host', dropped, base)
    BY <1>1, <1>2, <2>1, <2>2, SinceStep
  <2>5. /\ Since(host', ts) = Since(host, ts) + dropped /\ Since(host, ts) \in Nat
        /\ host'.counts[ts] = host.counts[ts] /\ host'.counts[base] = host.counts[base] /\ base \in 1 .. host'.ts
    BY <2>4 DEF SinceOK
  <2>6. ~opening.masked => host'.drops = IF host.fresh THEN Since(host', ts) ELSE strip.prev + Since(host', ts)
    <3>1. CASE host.fresh
      BY <1>4, <2>1, <2>5, <3>1
    <3>2. CASE ~host.fresh
      BY <1>2, <1>4, <2>1, <2>2, <2>5, <3>2, SMTT(30)
    <3> QED BY <3>1, <3>2
  <2> QED BY <2>1, <2>3, <2>5, <2>6 DEF ts, base
<1>9. CountInv'
  BY <1>6, <1>8 DEF CountInv
<1> QED BY <1>2, <1>5, <1>7, <1>9 DEF StripInv

\* The strip before the first tick.
LEMMA UntrackedType == Untracked \in DropTrack /\ Untracked.lastTs = NoTick /\ Untracked.prev = 0
BY SMTT(30) DEF Untracked, DropTrack

\* The state of an open page, of which the last tick shown is that of now.
LEMMA TickCounted ==
  ASSUME StripInv, IsHost(host'), RingInv', host'.ts # 0, opening.open,
         ring' # << >>, host'.fresh = FALSE,
         opening' \in [open : BOOLEAN, base : Nat \cup {NoTick}, masked : BOOLEAN],
         opening'.open, opening'.base \in 1 .. host'.ts,
         strip' \in DropTrack, strip'.lastTs = host'.ts, strip'.prev = host'.drops,
         strip'.increase <= host'.counts[host'.ts] - host'.counts[opening'.base],
         ~opening'.masked => strip'.increase = host'.counts[host'.ts] - host'.counts[opening'.base]
  PROVE StripInv'
<1>1. Linked(host', host'.ts, host'.drops) /\ Since(host', host'.ts) = 0
  BY LastLinked
<1>2. host'.ts \in Nat /\ host'.drops \in Nat
  BY HostFields
<1>3. \A k \in 1 .. Len(ring') : ring'[k].ts <= host'.ts
  <2>1. \A k \in 1 .. Len(ring') : ring'[k].ts \in 1 .. host'.ts
    BY DEF RingInv
  <2>2. \A n \in 1 .. host'.ts : n <= host'.ts
    BY <1>2, SMTT(30)
  <2> QED BY <2>1, <2>2
<1>4. host'.drops = strip'.prev + Since(host', strip'.lastTs)
  <2>1. host'.drops = host'.drops + 0
    BY <1>2, SMTT(30)
  <2> QED BY <1>1, <2>1
<1>5. CountInv'
  BY <1>1, <1>3, <1>4 DEF CountInv
<1>6. opening'.base # NoTick
  BY <1>2, StripAssumption, SMTT(30)
<1>7. WaitInv' /\ ClosedInv' /\ OpeningType'
  BY <1>6 DEF WaitInv, ClosedInv, OpeningType
<1> QED BY <1>5, <1>7 DEF StripInv

\* A tick that the open page shows: what it adds to the count.
LEMMA TickShown ==
  ASSUME StripInv, NEW dropped \in 0 .. MaxDrops, HostTick({}, dropped, TRUE), opening.open
  PROVE StripInv'
<1>0. TRUE \in BOOLEAN
  OBVIOUS
<1>1. IsHost(host) /\ RingInv /\ OpeningType /\ WaitInv /\ CountInv
  BY DEF StripInv
<1>2. IsHost(host') /\ Counted(host, host', dropped) /\ dropped \in Nat
  BY <1>0, <1>1, TickEffect
<1>3. PICK gap \in BOOLEAN : Ticked(gap, dropped, TRUE) /\ TickNow(gap, dropped) \in StripTick
  BY <1>0, <1>1, TickEffect
<1> DEFINE t == TickNow(gap, dropped)
<1>4. host'.ts = host.ts + 1 /\ host'.drops = host.drops + dropped
  BY <1>2 DEF Counted
<1>5. RingInv' /\ ring' # << >>
  BY <1>0, <1>1, <1>3, <1>4, RingTick
<1>6. host.ts \in Nat /\ host.drops \in Nat /\ host'.ts \in Nat /\ host'.drops \in Nat /\ host'.ts # 0
  <2>1. host.ts \in Nat /\ host.drops \in Nat /\ host'.ts \in Nat /\ host'.drops \in Nat
    BY <1>1, <1>2, HostFields
  <2> QED BY <1>4, <2>1, SMTT(30)
<1>7. Shown(TRUE)
  BY DEF Shown
<1>8. /\ strip' = trackDrops(strip, Append(ring, t))
      /\ opening' = [opening EXCEPT !.base = IF @ = NoTick THEN host'.ts ELSE @,
                                    !.masked = @ \/ (host.fresh /\ host'.drops >= strip.prev)]
      /\ host'.fresh = FALSE
  BY <1>3, <1>4, <1>7 DEF Ticked
<1>9. t \in StripTick /\ t.ts = host'.ts /\ t.drops = host'.drops
  BY <1>3, <1>4 DEF TickNow
<1>10. ring \in Seq(StripTick)
  BY <1>1 DEF RingInv
<1> HIDE DEF t
<1>11. /\ opening'.open /\ opening'.base = (IF opening.base = NoTick THEN host'.ts ELSE opening.base)
       /\ opening'.masked = (opening.masked \/ (host.fresh /\ host'.drops >= strip.prev))
  BY <1>1, <1>8 DEF OpeningType
<1>12. opening' \in [open : BOOLEAN, base : Nat \cup {NoTick}, masked : BOOLEAN]
  <2>1. (opening.masked \/ (host.fresh /\ host'.drops >= strip.prev)) \in BOOLEAN
    OBVIOUS
  <2>2. (IF opening.base = NoTick THEN host'.ts ELSE opening.base) \in Nat \cup {NoTick}
    BY <1>1, <1>6, OpeningFields
  <2> QED BY <1>1, <1>8, <2>1, <2>2 DEF OpeningType
<1>13. CASE opening.base = NoTick
  <2>1. ring = << >> /\ strip = Untracked
    BY <1>1, <1>13 DEF WaitInv
  <2>2. strip' = fold(TRUE, Untracked, t)
    <3>1. \A k \in 1 .. Len(ring) : ring[k].ts <= Untracked.lastTs
      BY <2>1, SMTT(30)
    <3>2. trackDrops(Untracked, Append(ring, t)) = fold(Untracked.lastTs = NoTick, Untracked, t)
      BY <1>9, <1>10, <2>1, <3>1, TrackNew, UntrackedType
    <3>3. (Untracked.lastTs = NoTick) = TRUE
      BY UntrackedType
    <3> QED BY <1>8, <2>1, <3>2, <3>3
  <2>3. strip' = [lastTs |-> host'.ts, prev |-> host'.drops, increase |-> 0, restartAt |-> NoTick]
    BY <1>9, <2>2 DEF fold, Untracked
  <2>4. strip' \in DropTrack /\ strip'.lastTs = host'.ts /\ strip'.prev = host'.drops /\ strip'.increase = 0
    BY <1>6, <2>3, SMTT(30) DEF DropTrack
  <2>5. opening'.base = host'.ts /\ host'.ts \in 1 .. host'.ts
    BY <1>2, <1>6, <1>11, <1>13, LastLinked
  <2>6. host'.counts[host'.ts] \in Nat
    BY <1>2, <2>5, HostFields
  <2>7. /\ strip'.increase <= host'.counts[host'.ts] - host'.counts[opening'.base]
        /\ strip'.increase = host'.counts[host'.ts] - host'.counts[opening'.base]
    BY <2>4, <2>5, <2>6, SMTT(30)
  <2> QED BY <1>2, <1>5, <1>6, <1>8, <1>11, <1>12, <2>4, <2>5, <2>7, TickCounted
<1>14. CASE opening.base # NoTick
  <2> DEFINE last == strip.lastTs
  <2> DEFINE prev == strip.prev
  <2> DEFINE base == opening.base
  <2> DEFINE drops == host'.drops
  <2> DEFINE S == Since(host', last)
  <2> DEFINE real == host.counts[last] - host.counts[base]
  <2>1. /\ strip \in DropTrack /\ base \in 1 .. host.ts /\ Linked(host, last, prev)
        /\ \A k \in 1 .. Len(ring) : ring[k].ts <= last
        /\ strip.increase <= real
        /\ ~opening.masked =>
             /\ strip.increase = real
             /\ host.drops = IF host.fresh THEN Since(host, last) ELSE prev + Since(host, last)
    BY <1>1, <1>14 DEF CountInv
  <2>2. last \in 1 .. host.ts /\ prev \in Nat
    BY <2>1 DEF Linked
  <2>3. strip.increase \in Int /\ strip.restartAt \in Nat \cup {NoTick}
    BY <2>1 DEF DropTrack
  <2>4. last \in Nat /\ last # NoTick /\ ~(t.ts <= last)
    BY <1>4, <1>6, <1>9, <2>2, StripAssumption, SMTT(30)
  <2>5. strip' = fold(FALSE, strip, t)
    <3>1. trackDrops(strip, Append(ring, t)) = fold(strip.lastTs = NoTick, strip, t)
      BY <1>9, <1>10, <2>1, <2>4, TrackNew
    <3>2. (strip.lastTs = NoTick) = FALSE
      BY <2>4
    <3> QED BY <1>8, <3>1, <3>2
  <2>6. strip' = [lastTs |-> host'.ts, prev |-> drops,
                  increase |-> strip.increase + (IF drops < prev THEN drops ELSE drops - prev),
                  restartAt |-> IF drops < prev THEN host'.ts ELSE strip.restartAt]
    BY <1>9, <2>4, <2>5 DEF fold
  <2>7. Linked(host', last, prev)
    BY <1>1, <1>2, <2>1, LinkedStep
  <2>8. SinceOK(host, host', dropped, last) /\ SinceOK(host, host', dropped, base)
    BY <1>1, <1>2, <2>1, <2>2, SinceStep
  <2>9. /\ S = Since(host, last) + dropped /\ Since(host, last) \in Nat
        /\ host'.counts[last] = host.counts[last] /\ host'.counts[base] = host.counts[base]
        /\ base \in 1 .. host'.ts /\ last \in 1 .. host'.ts
    BY <2>8 DEF SinceOK
  <2>10. drops = prev + S \/ drops <= S
    BY <2>7 DEF Linked
  <2>11. /\ host.counts[last] \in Nat /\ host.counts[base] \in Nat
         /\ host'.counts[host'.ts] \in Nat
    <3>1. host'.ts \in 1 .. host'.ts
      BY <1>6, SMTT(30)
    <3> QED BY <1>1, <1>2, <2>1, <2>2, <3>1, HostFields
  <2>12. S = host'.counts[host'.ts] - host.counts[last]
    BY <2>9 DEF Since
  <2>13. host'.counts[host'.ts] - host'.counts[base] = S + real /\ real \in Int /\ S \in Nat
    BY <1>2, <2>9, <2>11, <2>12, SMTT(30)
  <2>14. /\ strip'.lastTs = host'.ts /\ strip'.prev = drops
         /\ strip'.increase = strip.increase + (IF drops < prev THEN drops ELSE drops - prev)
    BY <2>6
  <2>15. strip' \in DropTrack
    <3>1. strip.increase + (IF drops < prev THEN drops ELSE drops - prev) \in Int
      BY <1>6, <2>2, <2>3, SMTT(30)
    <3>2. (IF drops < prev THEN host'.ts ELSE strip.restartAt) \in Nat \cup {NoTick}
      BY <1>6, <2>3
    <3>3. host'.ts \in Nat \cup {NoTick} /\ drops \in Nat
      BY <1>6
    <3> HIDE DEF drops, prev
    <3> QED BY <2>6, <3>1, <3>2, <3>3 DEF DropTrack
  <2>16. opening'.base = base /\ (~opening'.masked => ~opening.masked /\ ~(host.fresh /\ drops >= prev))
    BY <1>11, <1>14
  <2>17. ~opening.masked /\ host.fresh => drops = S
    <3>1. ~opening.masked /\ host.fresh => host.drops = Since(host, last)
      BY <2>1
    <3> QED BY <1>4, <2>9, <3>1
  <2>18. ~opening.masked /\ ~host.fresh => drops = prev + S
    <3>1. ~opening.masked /\ ~host.fresh => host.drops = prev + Since(host, last)
      BY <2>1
    <3> QED BY <1>2, <1>4, <2>2, <2>9, <3>1, SMTT(30)
  <2>19. drops \in Nat
    BY <1>6
  <2>20. ~opening.masked => strip.increase = real
    BY <2>1
  <2>21. strip.increase <= real
    BY <2>1
  <2> HIDE DEF last, prev, base, drops, S, real
  <2>22. strip'.increase <= host'.counts[host'.ts] - host'.counts[base]
    BY <2>2, <2>3, <2>10, <2>13, <2>14, <2>19, <2>21, SMTT(30)
  <2>23. ~opening'.masked => strip'.increase = host'.counts[host'.ts] - host'.counts[base]
    <3>1. CASE ~opening'.masked /\ host.fresh
      <4>1. drops = S /\ ~(drops >= prev) /\ strip.increase = real
        BY <2>16, <2>17, <2>20, <3>1
      <4> QED BY <2>2, <2>3, <2>13, <2>14, <2>19, <4>1, SMTT(30)
    <3>2. CASE ~opening'.masked /\ ~host.fresh
      <4>1. drops = prev + S /\ strip.increase = real
        BY <2>16, <2>18, <2>20, <3>2
      <4> QED BY <2>2, <2>3, <2>13, <2>14, <2>19, <4>1, SMTT(30)
    <3> QED BY <3>1, <3>2
  <2>24. /\ opening'.base \in 1 .. host'.ts /\ strip'.prev = host'.drops
         /\ strip'.increase <= host'.counts[host'.ts] - host'.counts[opening'.base]
         /\ ~opening'.masked => strip'.increase = host'.counts[host'.ts] - host'.counts[opening'.base]
    BY <2>9, <2>14, <2>16, <2>22, <2>23 DEF drops
  <2> QED BY <1>2, <1>5, <1>6, <1>8, <1>11, <1>12, <2>14, <2>15, <2>24, TickCounted
<1> QED BY <1>13, <1>14

\* A collector that begins again has counted nothing.
LEMMA RestartHost ==
  ASSUME NEW h, IsHost(h), NEW h2, h2 = [h EXCEPT !.drops = 0, !.fresh = TRUE]
  PROVE /\ IsHost(h2) /\ h2.ts = h.ts /\ h2.drops = 0 /\ h2.fresh = TRUE /\ h2.counts = h.counts
<1>1. h \in [ts : Nat, drops : Nat, active : {{}}, ended : {{}}, counts : Seq(Nat), fresh : BOOLEAN]
  BY DEF IsHost
<1>2. h2.ts = h.ts /\ h2.drops = 0 /\ h2.counts = h.counts
  BY <1>1
<1>3. h2.fresh = TRUE
  BY <1>1
<1>4. h2 \in [ts : Nat, drops : Nat, active : {{}}, ended : {{}}, counts : Seq(Nat), fresh : BOOLEAN]
  <2>1. 0 \in Nat
    OBVIOUS
  <2> QED BY <1>1, <2>1
<1>5. IsHost(h2)
  BY <1>2, <1>4 DEF IsHost
<1> QED BY <1>2, <1>3, <1>5

\* A restart keeps the link: the whole of the new count is still to come.
LEMMA RestartLinked ==
  ASSUME NEW h, NEW h2, IsHost(h), h2.ts = h.ts, h2.drops = 0, h2.counts = h.counts,
         NEW ts, NEW prev, Linked(h, ts, prev)
  PROVE Linked(h2, ts, prev) /\ Since(h2, ts) = Since(h, ts)
<1>1. ts \in 1 .. h.ts /\ prev \in Nat
  BY DEF Linked
<1>2. Since(h2, ts) = Since(h, ts)
  BY DEF Since
<1>3. Since(h, ts) \in Nat
  BY <1>1, SinceNat
<1>4. h2.drops <= Since(h2, ts)
  BY <1>2, <1>3, SMTT(30)
<1> QED BY <1>1, <1>2, <1>4 DEF Linked

\* A restart of the collector.
LEMMA Restarted ==
  ASSUME StripInv, HostRestart
  PROVE StripInv'
<1>1. IsHost(host) /\ RingInv /\ OpeningType /\ ClosedInv /\ WaitInv /\ CountInv
  BY DEF StripInv
<1>2. host' = [host EXCEPT !.drops = 0, !.fresh = TRUE] /\ ring' = ring /\ strip' = strip
  BY DEF HostRestart
<1>3. /\ IsHost(host') /\ host'.ts = host.ts /\ host'.drops = 0 /\ host'.fresh = TRUE
      /\ host'.counts = host.counts
  BY <1>1, <1>2, RestartHost
<1>4. opening' = [opening EXCEPT !.masked = @ \/ (opening.base # NoTick /\ strip.lastTs # host.ts)]
  BY DEF HostRestart
<1>5. /\ opening'.open = opening.open /\ opening'.base = opening.base
      /\ opening'.masked = (opening.masked \/ (opening.base # NoTick /\ strip.lastTs # host.ts))
  BY <1>1, <1>4 DEF OpeningType
<1>6. OpeningType'
  <2>1. (opening.masked \/ (opening.base # NoTick /\ strip.lastTs # host.ts)) \in BOOLEAN
    OBVIOUS
  <2> QED BY <1>1, <1>4, <2>1 DEF OpeningType
<1>7. RingInv' /\ WaitInv'
  BY <1>1, <1>2, <1>3, <1>5 DEF RingInv, WaitInv
<1>8. ClosedInv'
  <2>1. CASE ~opening.open
    <3>1. strip = Untracked /\ opening.base = NoTick /\ ~opening.masked
      BY <1>1, <2>1 DEF ClosedInv
    <3>2. ring # << >> => Linked(host', ring[Len(ring)].ts, ring[Len(ring)].drops)
      <4>1. ring # << >> => Linked(host, ring[Len(ring)].ts, ring[Len(ring)].drops)
        BY <1>1, <2>1 DEF ClosedInv
      <4> QED BY <1>1, <1>3, <4>1, RestartLinked
    <3> QED BY <1>2, <1>3, <1>5, <3>1, <3>2 DEF ClosedInv
  <2>2. CASE opening.open
    BY <1>5, <2>2 DEF ClosedInv
  <2> QED BY <2>1, <2>2
<1>9. ASSUME opening.open, opening.base # NoTick
      PROVE /\ strip \in DropTrack /\ opening.base \in 1 .. host'.ts
            /\ Linked(host', strip.lastTs, strip.prev)
            /\ \A k \in 1 .. Len(ring) : ring[k].ts <= strip.lastTs
            /\ strip.increase <= host'.counts[strip.lastTs] - host'.counts[opening.base]
            /\ ~opening'.masked =>
                 /\ strip.increase = host'.counts[strip.lastTs] - host'.counts[opening.base]
                 /\ host'.drops = Since(host', strip.lastTs)
  <2>1. /\ strip \in DropTrack /\ opening.base \in 1 .. host.ts /\ Linked(host, strip.lastTs, strip.prev)
        /\ \A k \in 1 .. Len(ring) : ring[k].ts <= strip.lastTs
        /\ strip.increase <= host.counts[strip.lastTs] - host.counts[opening.base]
        /\ ~opening.masked => strip.increase = host.counts[strip.lastTs] - host.counts[opening.base]
    BY <1>1, <1>9 DEF CountInv
  <2>2. Linked(host', strip.lastTs, strip.prev) /\ Since(host', strip.lastTs) = Since(host, strip.lastTs)
    BY <1>1, <1>3, <2>1, RestartLinked
  <2>3. ASSUME ~opening'.masked PROVE ~opening.masked /\ host'.drops = Since(host', strip.lastTs)
    <3>1. ~opening.masked /\ strip.lastTs = host.ts
      BY <1>5, <1>9, <2>3
    <3>2. strip.lastTs \in 1 .. host.ts
      BY <2>1 DEF Linked
    <3>3. Since(host, strip.lastTs) = 0
      BY <1>1, <3>1, <3>2, SinceNat
    <3> QED BY <1>3, <2>2, <3>1, <3>3
  <2> QED BY <1>3, <2>1, <2>2, <2>3
<1>10. CountInv'
  BY <1>2, <1>3, <1>5, <1>9 DEF CountInv
<1> QED BY <1>3, <1>6, <1>7, <1>8, <1>10 DEF StripInv

\* The page opens.
LEMMA Opened ==
  ASSUME StripInv, PageOpens
  PROVE StripInv'
<1>1. IsHost(host) /\ RingInv /\ OpeningType /\ ClosedInv
  BY DEF StripInv
<1>2. ~opening.open /\ host' = host
  BY DEF PageOpens
<1>3. strip = Untracked
  BY <1>1, <1>2 DEF ClosedInv
<1>4. opening' = [opening EXCEPT !.open = TRUE, !.base = strip'.lastTs, !.masked = host.fresh /\ strip'.lastTs # NoTick]
  BY DEF PageOpens
<1>5. opening'.open /\ opening'.base = strip'.lastTs /\ opening'.masked = (host.fresh /\ strip'.lastTs # NoTick)
  BY <1>1, <1>4 DEF OpeningType
<1>6. ASSUME strip'.lastTs \in Nat \cup {NoTick} PROVE OpeningType' /\ ClosedInv'
  <2>1. (host.fresh /\ strip'.lastTs # NoTick) \in BOOLEAN /\ TRUE \in BOOLEAN
    OBVIOUS
  <2>2. OpeningType'
    BY <1>1, <1>4, <1>6, <2>1 DEF OpeningType
  <2> QED BY <1>5, <2>2 DEF ClosedInv
<1>7. CASE ring' = << >> /\ strip' = trackDrops(strip, << >>)
  <2>1. strip' = Untracked
    BY <1>3, <1>7, TrackNone
  <2>2. strip'.lastTs = NoTick
    BY <2>1, UntrackedType
  <2>3. WaitInv' /\ CountInv'
    BY <1>5, <1>7, <2>1, <2>2 DEF WaitInv, CountInv
  <2>4. RingInv'
    BY <1>7, SMTT(30) DEF RingInv
  <2> QED BY <1>1, <1>2, <1>6, <2>2, <2>3, <2>4 DEF StripInv
<1>8. CASE ring # << >> /\ ring' = ring /\ strip' = trackDrops(strip, ring)
  <2> DEFINE last == ring[Len(ring)]
  <2>1. ring \in Seq(StripTick) /\ \A j, k \in 1 .. Len(ring) : j < k => ring[j].ts < ring[k].ts
    BY <1>1 DEF RingInv
  <2>2. PICK r \in Nat \cup {NoTick} :
          trackDrops(Untracked, ring) = [lastTs |-> ring[Len(ring)].ts, prev |-> ring[Len(ring)].drops, increase |-> 0, restartAt |-> r]
    BY <1>8, <2>1, TrackFirst
  <2>3. strip' = [lastTs |-> last.ts, prev |-> last.drops, increase |-> 0, restartAt |-> r]
    BY <1>3, <1>8, <2>2
  <2>4. Linked(host, last.ts, last.drops) /\ (host.fresh \/ host.drops = last.drops + Since(host, last.ts))
    BY <1>1, <1>2, <1>8 DEF ClosedInv
  <2>5. Len(ring) \in Nat \ {0}
    BY <1>8, <2>1, SMTT(30)
  <2>6. \A k \in 1 .. Len(ring) : ring[k].ts <= last.ts
    <3>1. ASSUME NEW k \in 1 .. Len(ring) PROVE ring[k].ts <= last.ts
      <4>1. Len(ring) \in 1 .. Len(ring) /\ (k < Len(ring) \/ k = Len(ring))
        BY <2>5, SMTT(30)
      <4>2. ring[k].ts \in 1 .. host.ts /\ last.ts \in 1 .. host.ts
        BY <1>1, <4>1 DEF RingInv
      <4>3. k < Len(ring) => ring[k].ts < last.ts
        BY <2>1, <4>1
      <4>4. k = Len(ring) => ring[k].ts = last.ts
        OBVIOUS
      <4>5. ring[k].ts < last.ts \/ ring[k].ts = last.ts
        BY <4>1, <4>3, <4>4
      <4> HIDE DEF last
      <4>6. host.ts \in Nat
        BY <1>1, HostFields
      <4> QED BY <4>2, <4>5, <4>6, SMTT(30)
    <3> QED BY <3>1
  <2> HIDE DEF last
  <2>7. last.ts \in 1 .. host.ts /\ last.drops \in Nat
    BY <2>4 DEF Linked
  <2>8. host.ts \in Nat /\ host.counts[last.ts] \in Nat
    BY <1>1, <2>7, HostFields
  <2>9. last.ts \in Nat /\ last.ts # NoTick
    BY <2>7, <2>8, StripAssumption, SMTT(30)
  <2>10. strip' \in DropTrack
    BY <2>3, <2>7, <2>9, SMTT(30) DEF DropTrack
  <2>11. strip'.lastTs = last.ts /\ strip'.prev = last.drops /\ strip'.increase = 0
    BY <2>3
  <2>12. /\ strip'.increase <= host.counts[last.ts] - host.counts[last.ts]
         /\ strip'.increase = host.counts[last.ts] - host.counts[last.ts]
    BY <2>8, <2>11, SMTT(30)
  <2>13. ~opening'.masked => host.drops = IF host.fresh THEN Since(host, last.ts) ELSE last.drops + Since(host, last.ts)
    BY <1>5, <2>4, <2>9, <2>11
  <2>14. CountInv'
    BY <1>2, <1>5, <1>8, <2>4, <2>6, <2>7, <2>10, <2>11, <2>12, <2>13 DEF CountInv
  <2>15. WaitInv' /\ RingInv'
    BY <1>1, <1>2, <1>5, <1>8, <2>9, <2>11 DEF WaitInv, RingInv
  <2>16. strip'.lastTs \in Nat \cup {NoTick}
    BY <2>9, <2>11
  <2> QED BY <1>1, <1>2, <1>6, <2>14, <2>15, <2>16 DEF StripInv
<1>9. \E ticks \in {ring, << >>} : ring' = ticks /\ strip' = trackDrops(strip, ticks)
  BY DEF PageOpens
<1> QED BY <1>7, <1>8, <1>9

\* The invariant holds at the start.
LEMMA StripInvInit == StripInit => StripInv
<1> SUFFICES ASSUME StripInit PROVE StripInv
  OBVIOUS
<1>1. /\ host = [ts |-> 0, drops |-> 0, active |-> {}, ended |-> {}, counts |-> << >>, fresh |-> FALSE]
      /\ ring = << >> /\ strip = Untracked
      /\ opening = [open |-> FALSE, base |-> NoTick, masked |-> FALSE]
  BY DEF StripInit, Untracked
<1>2. 0 \in Nat /\ << >> \in Seq(Nat) /\ << >> \in Seq(StripTick) /\ Len(<< >>) = 0 /\ 1 .. 0 = {}
  BY SMTT(30)
<1>3. host \in [ts : Nat, drops : Nat, active : {{}}, ended : {{}}, counts : Seq(Nat), fresh : BOOLEAN]
  <2>1. FALSE \in BOOLEAN /\ {} \in {{}}
    OBVIOUS
  <2> QED BY <1>1, <1>2, <2>1
<1>4. host.ts = 0 /\ host.counts = << >>
  BY <1>1
<1>5. IsHost(host)
  BY <1>2, <1>3, <1>4 DEF IsHost
<1>6. RingInv
  BY <1>1, <1>2 DEF RingInv
<1>7. OpeningType
  BY <1>1 DEF OpeningType
<1>8. ~opening.open /\ opening.base = NoTick /\ ~opening.masked
  BY <1>1
<1>9. ClosedInv /\ WaitInv /\ CountInv
  BY <1>1, <1>8 DEF ClosedInv, WaitInv, CountInv
<1> QED BY <1>5, <1>6, <1>7, <1>9 DEF StripInv

\* Every step keeps the invariant.
LEMMA StripInvStep == StripInv /\ [StripNext]_stripVars => StripInv'
<1> SUFFICES ASSUME StripInv, [StripNext]_stripVars PROVE StripInv'
  OBVIOUS
<1>1. ASSUME NEW dropped \in 0 .. MaxDrops, NEW seen \in BOOLEAN, HostTick({}, dropped, seen) PROVE StripInv'
  <2>1. opening.open \in BOOLEAN
    BY OpeningFields DEF StripInv
  <2>2. CASE ~opening.open
    BY <1>1, <2>2, TickClosed
  <2>3. CASE opening.open /\ seen = TRUE
    <3>1. HostTick({}, dropped, TRUE)
      BY <1>1, <2>3
    <3> QED BY <2>3, <3>1, TickShown
  <2>4. CASE opening.open /\ seen = FALSE
    <3>1. HostTick({}, dropped, FALSE)
      BY <1>1, <2>4
    <3> QED BY <2>4, <3>1, TickMissed
  <2> QED BY <2>1, <2>2, <2>3, <2>4
<1>2. CASE HostRestart
  BY <1>2, Restarted
<1>3. CASE PageOpens
  BY <1>3, Opened
<1>4. CASE UNCHANGED stripVars
  <2>1. host' = host /\ ring' = ring /\ strip' = strip /\ opening' = opening
    BY <1>4 DEF stripVars
  <2> QED BY <2>1 DEF StripInv, RingInv, OpeningType, ClosedInv, WaitInv, CountInv
<1> QED BY <1>1, <1>2, <1>3, <1>4 DEF StripNext

\* The drops that the health strip reports are never more than the collectors
\* counted since the first ticks shown, and exactly those unless a restart was
\* masked: for any number of drops and of ticks, missed or not, and of restarts
\* (trackDrops).
THEOREM DropsAreCounted == StripSpec => []DropsCounted
<1>1. StripInv => DropsCounted
  <2> SUFFICES ASSUME StripInv, opening.base # NoTick
               PROVE /\ strip.increase <= host.counts[strip.lastTs] - host.counts[opening.base]
                     /\ opening.masked \/ strip.increase = host.counts[strip.lastTs] - host.counts[opening.base]
    BY DEF DropsCounted
  <2>1. opening.open
    BY DEF StripInv, ClosedInv
  <2> QED BY <2>1 DEF StripInv, CountInv
<1> QED BY <1>1, StripInvInit, StripInvStep, PTL DEF StripSpec

=============================================================================
