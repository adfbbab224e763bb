------------------------------- MODULE Rdns ---------------------------------
(***************************************************************************)
(* Reverse DNS: the LRU cache of geo/rdns.ts, a request that looks up a    *)
(* bounded number of addresses for a bounded time, lookups that end after  *)
(* it, and the destination table that asks for what it has no name for.    *)
(* A name is the time at which the resolver gave it; NoName is an answer   *)
(* without a record.                                                       *)
(***************************************************************************)
EXTENDS Route, Integers, Sequences, FiniteSets

CONSTANTS
  Addresses,     \* addresses of the table that are not local, in its order
  RDNS_MAX_PER_REQUEST, RDNS_BATCH, CACHE_SIZE, TTL_MS,
  MaxNow,        \* bound: the clock
  MaxLookups,    \* bound: requests
  Nothing

ASSUME RdnsAssumption == CACHE_SIZE \in Nat /\ TTL_MS \in Nat \ {0} /\ MaxNow \in Nat /\ MaxLookups \in Nat

VARIABLES
  rnow,      \* the clock
  lru,       \* Lru.map in insertion order: [ip, name, at, exp]; at: when it was resolved
  running,   \* lookups that have not ended: [ip, id of the request]
  lookupReq, \* lookup: [id, at, asked, todo, done, names, pending, mine], or Nothing
  resolved,  \* the table's names: ip -> [name, at]
  lookups    \* number of requests

rdnsVars == <<rnow, lru, running, lookupReq, resolved, lookups>>

Ips == {Addresses[i] : i \in DOMAIN Addresses}

-----------------------------------------------------------------------------
(* Lru.                                                                     *)

Has(map, ip) == \E i \in DOMAIN map : map[i].ip = ip
Place(map, ip) == CHOOSE i \in DOMAIN map : map[i].ip = ip

\* Map.delete.
Without(map, ip) ==
  LET p == Place(map, ip)
  IN  IF ~Has(map, ip) THEN map
      ELSE [k \in 1 .. Len(map) - 1 |-> map[IF k < p THEN k ELSE k + 1]]

\* Mutant: a hit renews the entry.
Hit_Renewed(map, ip, t) ==
  Append(Without(map, ip), [map[Place(map, ip)] EXCEPT !.exp = t + TTL_MS])

\* Lru.get of an entry that has not expired: it moves to the end.
Hit(map, ip, t) == Append(Without(map, ip), map[Place(map, ip)])

IsHit(map, ip, t) == Has(map, ip) /\ map[Place(map, ip)].exp > t

\* Lru.get: what it leaves.
Get(map, ip, t) == IF IsHit(map, ip, t) THEN Hit(map, ip, t) ELSE Without(map, ip)

\* Lru.set: the oldest go.
Set(map, ip, name, t) ==
  LET all == Append(Without(map, ip), [ip |-> ip, name |-> name, at |-> t, exp |-> t + TTL_MS])
  IN  IF Len(all) > CACHE_SIZE THEN SubSeq(all, Len(all) - CACHE_SIZE + 1, Len(all)) ELSE all

-----------------------------------------------------------------------------
(* Rdns.lookup.                                                             *)

\* names[ip] = name
Named(names, ip, name, at) ==
  [x \in DOMAIN names \cup {ip} |-> IF x = ip THEN [name |-> name, at |-> at] ELSE names[x]]

Asking(map) == [map |-> map, names |-> << >>, todo |-> {}, pending |-> {}]

\* The loop's step: cached, to be looked up, or pending.
Sorting(acc, ip, t) ==
  LET e == acc.map[Place(acc.map, ip)]
      hit == IsHit(acc.map, ip, t)
      room == Cardinality(acc.todo) < RDNS_MAX_PER_REQUEST
  IN  [map |-> Get(acc.map, ip, t),
       names |-> IF hit THEN Named(acc.names, ip, e.name, e.at) ELSE acc.names,
       todo |-> IF ~hit /\ room THEN acc.todo \cup {ip} ELSE acc.todo,
       pending |-> IF ~hit /\ ~room THEN acc.pending \cup {ip} ELSE acc.pending]

\* The loop over new Set(ips).
SortedIps(map, ips, t) ==
  LET after[k \in 0 .. Len(ips)] ==
        IF k = 0 THEN Asking(map)
        ELSE IF \E j \in 1 .. k - 1 : ips[j] = ips[k] THEN after[k - 1]
        ELSE Sorting(after[k - 1], ips[k], t)
  IN  after[Len(ips)]

RdnsInit ==
  /\ rnow = 0 /\ lru = << >> /\ running = {} /\ lookupReq = Nothing
  /\ resolved = << >> /\ lookups = 0

\* A request for addresses, of the table's button or of another page: up to the await.
lookupUpToAwait(ips, mine) ==
  LET r == SortedIps(lru, ips, rnow) IN
  /\ lookupReq = Nothing /\ ips # << >> /\ ips \in Seq(Ips) /\ lookups < MaxLookups
  /\ lookups' = lookups + 1
  /\ lru' = r.map
  /\ running' = running \cup {[ip |-> ip, id |-> lookups] : ip \in r.todo}
  /\ lookupReq' = [id |-> lookups, at |-> rnow, asked |-> {ips[i] : i \in DOMAIN ips}, todo |-> r.todo,
                   done |-> {}, names |-> r.names, pending |-> r.pending, mine |-> mine]
  /\ UNCHANGED <<rnow, resolved>>

unresolved == SelectSeq(Addresses, LAMBDA ip : ip \notin DOMAIN resolved)

resolve == lookupUpToAwait(SubSeq(unresolved, 1, IF Len(unresolved) < RDNS_BATCH THEN Len(unresolved) ELSE RDNS_BATCH), TRUE)
OtherPage == \E i \in DOMAIN Addresses : lookupUpToAwait(<<Addresses[i]>>, FALSE)

\* A lookup ends: with a name, without a record, or with a failure, which is not
\* cached.  It fills the answer of its own request while that waits.
LookupEnds(run, outcome) ==
  LET name == IF outcome = "name" THEN rnow ELSE Nothing
      waits == lookupReq # Nothing /\ run.id = lookupReq.id
  IN  /\ running' = running \ {run}
      /\ lru' = IF outcome = "failed" THEN lru ELSE Set(lru, run.ip, name, rnow)
      /\ lookupReq' = IF ~waits THEN lookupReq
                      ELSE [lookupReq EXCEPT !.done = @ \cup {run.ip}, !.names = Named(@, run.ip, name, rnow)]
      /\ UNCHANGED <<rnow, resolved, lookups>>

\* All lookups of the request ended, or the time is over; the rest is pending.
Replied == [lookupReq EXCEPT !.pending = @ \cup (lookupReq.todo \ lookupReq.done)]

LookupReply ==
  LET names == Replied.names IN
  /\ lookupReq # Nothing
  /\ lookupReq' = Nothing
  /\ resolved' = IF ~lookupReq.mine THEN resolved
                 ELSE [ip \in DOMAIN names \cup DOMAIN resolved |-> IF ip \in DOMAIN names THEN names[ip] ELSE resolved[ip]]
  /\ UNCHANGED <<rnow, lru, running, lookups>>

\* The answer is lost: rdnsError.
LookupLost ==
  /\ lookupReq # Nothing
  /\ lookupReq' = Nothing
  /\ UNCHANGED <<rnow, lru, running, resolved, lookups>>

RdnsTime == rnow < MaxNow /\ rnow' = rnow + 1 /\ UNCHANGED <<lru, running, lookupReq, resolved, lookups>>

RdnsNext ==
  \/ resolve \/ OtherPage \/ LookupReply \/ LookupLost \/ RdnsTime
  \/ \E run \in running, outcome \in {"name", "none", "failed"} : LookupEnds(run, outcome)

RdnsSpec == RdnsInit /\ [][RdnsNext]_rdnsVars

-----------------------------------------------------------------------------
(* Properties.                                                              *)

\* A request answers each address it was asked, with a name or as pending and not
\* with both, and waits only for lookups that run; a name it takes from the cache
\* was resolved less than TTL_MS before, however often it was asked for since; the
\* cache never holds more than CACHE_SIZE entries nor two of one address
\* (geo/rdns.ts:26-39, 63-100).
NamesFresh ==
  On("rdns") =>
  /\ Len(lru) <= CACHE_SIZE
  /\ \A i, j \in DOMAIN lru : lru[i].ip = lru[j].ip => i = j
  /\ lookupReq # Nothing =>
       /\ DOMAIN Replied.names \cup Replied.pending = lookupReq.asked
       /\ DOMAIN Replied.names \cap Replied.pending = {}
       /\ \A ip \in DOMAIN lookupReq.names : lookupReq.names[ip].at > lookupReq.at - TTL_MS
       /\ \A ip \in lookupReq.todo \ lookupReq.done : [ip |-> ip, id |-> lookupReq.id] \in running

=============================================================================
