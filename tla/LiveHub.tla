------------------------------ MODULE LiveHub -------------------------------
(***************************************************************************)
(* hub.ts: the web server's single reader of netwatch:stream.  It loads    *)
(* the newest entries page by page, follows the stream with XREAD, checks  *)
(* after an error whether the stream was trimmed past its position, keeps  *)
(* the ticks in a ring and hands each new one to its subscribers.          *)
(*                                                                         *)
(* The n-th entry ever added has the id n, so what the stream holds, and   *)
(* what a command returns of it, is an interval of ids.  Times are in      *)
(* collection intervals, so "more than GAP_INTERVALS (2.5) intervals       *)
(* apart" is "2 * difference > 5".  Redis is external: XADD with MAXLEN,   *)
(* XREVRANGE, XREAD and XINFO are what the code expects of them.           *)
(***************************************************************************)
EXTENDS Integers, Sequences, Functions

CONSTANTS
  MaxId,       \* bound: entries ever added
  MaxLen,      \* --stream-maxlen
  Capacity,    \* ticks the ring holds (LIVE_BACKFILL)
  RecentFlows, \* RECENT_FLOWS
  Page,        \* PAGE
  Count,       \* COUNT of one XREAD
  Steps,       \* possible clock steps between two ticks
  None

ASSUME LiveHubAssumption ==
  /\ {MaxId, MaxLen, Capacity, RecentFlows, Page, Count} \subseteq Nat \ {0}
  /\ RecentFlows <= Capacity
  /\ Steps \subseteq Int
  /\ None \notin Int

VARIABLES
  added,       \* the time of every entry ever added, and whether it parses
  first,       \* first-entry: netwatch:stream holds first..Len(added)
  up,          \* the reader's connection works
  pc,          \* where #run is: "top", "backfill" or "read"
  entries,     \* the pages #backfill has read hold lo..hi, or None
  ring,        \* #ring
  recent,      \* #recent, as ids
  lastId,      \* #lastId
  resync,      \* #resync
  pendingGap,  \* #pendingGap
  sub,         \* one subscriber: what hello told it and the ticks it heard
  accepted,    \* ids ever put in the ring
  trimmed,     \* ids trimmed from the stream before they were read
  wiped,       \* ids that disappeared with the whole stream
  base         \* every id up to it is older than what the backfill loaded

history == <<accepted, base>>
redisVars == <<added, first, up, trimmed, wiped>>
vars == <<redisVars, pc, entries, ring, recent, lastId, resync, pendingGap, sub, history>>

Ids == 1..MaxId
Newest(s) == s[Len(s)]
Shorter(m, n) == IF m < n THEN m ELSE n

TypeOK ==
  /\ added \in Seq([ts : Int, ok : BOOLEAN]) /\ Len(added) <= MaxId
  /\ first \in 1..Len(added) + 1 /\ Len(added) - first < MaxLen
  /\ up \in BOOLEAN
  /\ pc \in {"top", "backfill", "read"}
  /\ entries = None \/ entries \in [lo : Ids, hi : Ids]
  /\ ring \in Seq([id : Ids, ts : Int, gap : BOOLEAN])
  /\ Len(ring) <= Capacity
  /\ recent \in Seq(Ids) /\ Len(recent) <= RecentFlows
  /\ lastId \in Ids \cup {0, None}
  /\ resync \in BOOLEAN /\ pendingGap \in BOOLEAN
  /\ sub = None \/ sub \in [hello : Ids \cup {None}, heard : Seq(Ids)]
  /\ accepted \subseteq Ids /\ trimmed \subseteq Ids /\ wiped \subseteq Ids
  /\ base \in Ids \cup {0}

Init ==
  /\ added = << >> /\ first = 1
  /\ up = FALSE
  /\ pc = "top"
  /\ entries = None
  /\ ring = << >> /\ recent = << >>
  /\ lastId = None
  /\ resync = FALSE /\ pendingGap = FALSE
  /\ sub = None
  /\ accepted = {} /\ trimmed = {} /\ wiped = {}
  /\ base = 0

-----------------------------------------------------------------------------
(* Redis and the collector's sink.                                          *)

\* The reader's position: #lastId, or what it will be after the backfill.
Position ==
  IF pc = "backfill" THEN entries.hi ELSE IF lastId = None THEN MaxId ELSE lastId

\* XADD ... MAXLEN: a tick, or an entry that does not parse (None).  Trimming
\* does not overtake a reader that is reading (the stream holds an hour).
Add(step) ==
  LET n == Len(added) + 1
      last == IF added = << >> THEN 0 ELSE Newest(added).ts
      e == [ts |-> IF step = None THEN last ELSE last + step, ok |-> step # None]
      oldest == IF n - first < MaxLen THEN first ELSE n - MaxLen + 1
      lost == {m \in first..oldest - 1 : m > Position} IN
  /\ n <= MaxId
  /\ pc # "top" => lost = {}
  /\ added' = Append(added, e)
  /\ first' = oldest
  /\ trimmed' = trimmed \cup lost
  /\ UNCHANGED <<up, wiped, pc, entries, ring, recent, lastId, resync, pendingGap, sub, history>>

\* The connection comes, and goes while no command is in flight.
Connect ==
  /\ ~up
  /\ up' = TRUE
  /\ UNCHANGED <<added, first, trimmed, wiped, pc, entries, ring, recent, lastId, resync,
                 pendingGap, sub, history>>
Disconnect ==
  /\ up /\ pc = "top"
  /\ up' = FALSE
  /\ UNCHANGED <<added, first, trimmed, wiped, pc, entries, ring, recent, lastId, resync,
                 pendingGap, sub, history>>

\* Redis comes back without its data.
Wipe ==
  /\ ~up /\ first <= Len(added)
  /\ first' = Len(added) + 1
  /\ wiped' = wiped \cup trimmed \cup first..Len(added)
  /\ trimmed' = {}
  /\ UNCHANGED <<added, up, pc, entries, ring, recent, lastId, resync, pendingGap, sub, history>>

-----------------------------------------------------------------------------
(* The reader.                                                              *)

\* Mutant: a skipped entry uses up the pending gap.
ingest_GapUsed(s, n) ==
  LET e == added[n]
      empty == s.ring = << >>
      prev == Newest(s.ring)
      gap == s.gap \/ (~empty /\ 2 * (e.ts - prev.ts) > 5)
      long == Append(s.ring, [id |-> n, ts |-> e.ts, gap |-> gap])
      flows == Append(s.recent, n) IN
  IF ~e.ok \/ (~empty /\ e.ts <= prev.ts) THEN [s EXCEPT !.gap = FALSE]
  ELSE [ring |-> IF Len(long) > Capacity THEN Tail(long) ELSE long,
        recent |-> IF Len(flows) > RecentFlows THEN Tail(flows) ELSE flows,
        gap |-> FALSE,
        new |-> Append(s.new, n)]

\* #ingest: an unparsable entry, or one that goes back in time, is skipped and
\* leaves the pending gap for the next tick.
ingest(s, n) ==
  LET e == added[n]
      empty == s.ring = << >>
      prev == Newest(s.ring)
      gap == s.gap \/ (~empty /\ 2 * (e.ts - prev.ts) > 5)
      long == Append(s.ring, [id |-> n, ts |-> e.ts, gap |-> gap])
      flows == Append(s.recent, n) IN
  IF ~e.ok \/ (~empty /\ e.ts <= prev.ts) THEN s
  ELSE [ring |-> IF Len(long) > Capacity THEN Tail(long) ELSE long,
        recent |-> IF Len(flows) > RecentFlows THEN Tail(flows) ELSE flows,
        gap |-> FALSE,
        new |-> Append(s.new, n)]

\* The loop over the entries lo..hi.
Ingested(r, f, lo, hi) ==
  LET s[n \in lo - 1..hi] ==
        IF n < lo THEN [ring |-> r, recent |-> f, gap |-> pendingGap, new |-> << >>]
        ELSE ingest(s[n - 1], n) IN
  s[hi]

\* Mutant: follow the stream from its end rather than from what was loaded.
startId_End(lo, hi) == Len(added)

\* Where #readOnce goes on after a backfill of lo..hi.
startId(lo, hi) == IF lo > hi THEN 0 ELSE hi

\* What #backfill has when it asks for a page: hi is its newest entry, below
\* the oldest; then what XREVRANGE gives: the count newest before it.
Loaded == IF pc = "backfill" THEN entries ELSE [lo |-> Len(added) + 1, hi |-> Len(added)]
PageCount == Shorter(Page, Capacity - (Loaded.hi - Loaded.lo + 1))
PageLength == IF Loaded.lo > first THEN Shorter(Loaded.lo - first, PageCount) ELSE 0

\* Mutant: a backfill that is complete starts again.
BackfillPage_Again ==
  LET lo == Loaded.lo - PageLength
      hi == Loaded.hi
      s == Ingested(<< >>, << >>, lo, hi) IN
  /\ up /\ pc # "read" /\ lastId = None
  /\ IF PageLength < PageCount \/ hi - lo + 1 >= Capacity
     THEN /\ ring' = s.ring /\ recent' = s.recent
          /\ pendingGap' = s.gap
          /\ accepted' = Range(s.new)
          /\ resync' = FALSE
          /\ entries' = [lo |-> Len(added) + 1, hi |-> Len(added)]
          /\ pc' = "backfill"
          /\ UNCHANGED <<lastId, base>>
     ELSE /\ entries' = [lo |-> lo, hi |-> hi]
          /\ pc' = "backfill"
          /\ UNCHANGED <<ring, recent, lastId, resync, pendingGap, history>>
  /\ UNCHANGED <<sub, redisVars>>

\* One XREVRANGE, from the top of the loop once the connection is ready or
\* after another page; a short page or a full buffer ends the backfill, which
\* tells no subscriber.
BackfillPage ==
  LET lo == Loaded.lo - PageLength
      hi == Loaded.hi
      s == Ingested(<< >>, << >>, lo, hi) IN
  /\ up /\ pc # "read" /\ lastId = None
  /\ IF PageLength < PageCount \/ hi - lo + 1 >= Capacity
     THEN /\ ring' = s.ring /\ recent' = s.recent
          /\ pendingGap' = s.gap
          /\ accepted' = Range(s.new)
          /\ lastId' = startId(lo, hi)
          /\ base' = lo - 1
          /\ resync' = FALSE
          /\ entries' = None
          /\ pc' = "read"
     ELSE /\ entries' = [lo |-> lo, hi |-> hi]
          /\ pc' = "backfill"
          /\ UNCHANGED <<ring, recent, lastId, resync, pendingGap, history>>
  /\ UNCHANGED <<sub, redisVars>>

\* #checkTrimmed, after an error, once the connection is ready again.
checkTrimmed ==
  /\ up /\ pc = "top" /\ lastId # None
  /\ pendingGap' = (pendingGap \/ (first <= Len(added) /\ first > lastId))
  /\ resync' = FALSE
  /\ pc' = "read"
  /\ UNCHANGED <<entries, ring, recent, lastId, sub, history, redisVars>>

\* What XREAD returns: up to Count entries after #lastId.
Unread == IF first > lastId THEN first ELSE lastId + 1
LastRead == Shorter(Len(added), Unread + Count - 1)

\* Mutant: notify once per XREAD.
readOnce_NotifyLast ==
  LET s == Ingested(ring, recent, Unread, LastRead) IN
  /\ up /\ pc = "read" /\ Unread <= Len(added)
  /\ ring' = s.ring /\ recent' = s.recent
  /\ pendingGap' = s.gap
  /\ accepted' = accepted \cup Range(s.new)
  /\ sub' = IF sub = None THEN None ELSE [sub EXCEPT !.heard = IF s.new = << >> THEN @ ELSE Append(@, Newest(s.new))]
  /\ lastId' = LastRead
  /\ UNCHANGED <<pc, entries, resync, base, redisVars>>

\* One XREAD that returns entries; each accepted one goes to the listeners.
readOnce ==
  LET s == Ingested(ring, recent, Unread, LastRead) IN
  /\ up /\ pc = "read" /\ Unread <= Len(added)
  /\ ring' = s.ring /\ recent' = s.recent
  /\ pendingGap' = s.gap
  /\ accepted' = accepted \cup Range(s.new)
  /\ sub' = IF sub = None THEN None ELSE [sub EXCEPT !.heard = @ \o s.new]
  /\ lastId' = LastRead
  /\ UNCHANGED <<pc, entries, resync, base, redisVars>>

\* A command fails, with or without the connection: #run sleeps, starts over.
Fail(lost) ==
  /\ up /\ pc # "top"
  /\ up' = ~lost
  /\ pc' = "top"
  /\ resync' = TRUE
  /\ entries' = None
  /\ UNCHANGED <<added, first, trimmed, wiped, ring, recent, lastId, pendingGap, sub, history>>

\* GET /api/live/events: hello with latestTs(), then subscribe.
Subscribe ==
  /\ sub = None
  /\ sub' = [hello |-> IF ring = << >> THEN None ELSE Newest(ring).id, heard |-> << >>]
  /\ UNCHANGED <<pc, entries, ring, recent, lastId, resync, pendingGap, history, redisVars>>

Next ==
  \/ \E step \in Steps \cup {None} : Add(step)
  \/ Connect \/ Disconnect \/ Wipe
  \/ BackfillPage \/ checkTrimmed \/ readOnce
  \/ \E lost \in BOOLEAN : Fail(lost)
  \/ Subscribe

Spec == Init /\ [][Next]_vars

\* The loop goes on while the connection works; nothing is assumed of Redis or
\* of the collector.  This is WF_vars(BackfillPage \/ checkTrimmed \/ readOnce)
\* with its two halves written out: when such a step is possible, and that one
\* was taken (of all steps only these change the reader without going to "top").
readerReady == up /\ (pc = "read" => \E n \in first..Len(added) : n > lastId)
readerStep == pc' # "top" /\ <<pc, entries, lastId>>' # <<pc, entries, lastId>>
FairSpec == Spec /\ ([]<>~readerReady \/ []<><<readerStep>>_vars)

-----------------------------------------------------------------------------
(* Properties.                                                              *)

\* Between the backfill and #lastId no stream entry is skipped: it became a
\* tick, or is unparsable, or does not go forward in time, or was gone before
\* it could be read.  Failed commands, repeated backfills and the limits of
\* a page or an XREAD lose nothing.
NoneMissed ==
  lastId # None => \A n \in base + 1..lastId :
    \/ n \in accepted \cup trimmed \cup wiped
    \/ ~added[n].ok
    \/ \E m \in accepted : m < n /\ added[n].ts <= added[m].ts

\* A break is drawn where ticks are missing: after entries were trimmed away
\* unread, the next tick has gap set, even when entries in between are skipped
\* or the check had to be repeated; the same after a long silence.  The ring
\* holds the newest accepted ticks, in stream order and forward in time, and
\* #recent the newest of those.
GapHonest ==
  /\ TypeOK
  /\ \A j, k \in DOMAIN ring : j < k => ring[j].id < ring[k].id /\ ring[j].ts < ring[k].ts
  /\ {n \in accepted : ring = << >> \/ n >= ring[1].id} = {ring[k].id : k \in DOMAIN ring}
  /\ recent = [k \in DOMAIN recent |-> ring[Len(ring) - Len(recent) + k].id]
  /\ \A k \in DOMAIN ring \ {1} :
       /\ (\E n \in trimmed : ring[k - 1].id < n /\ n < ring[k].id) => ring[k].gap
       /\ 2 * (ring[k].ts - ring[k - 1].ts) > 5 => ring[k].gap

\* A subscriber whose hello named a tick hears every later one, once and in
\* order: no tick falls between hello and the subscription, and no backfill
\* puts ticks in the ring behind its back.
FeedComplete ==
  sub # None /\ sub.hello # None =>
    /\ Range(sub.heard) = {n \in accepted : n > sub.hello}
    /\ \A j, k \in DOMAIN sub.heard : j < k => sub.heard[j] < sub.heard[k]

\* While the connection stays up, either commands keep failing (and #run starts
\* over again and again) or the reader gets past everything in the stream,
\* unparsable entries included.
CatchesUp ==
  <>[]up => \/ []<>(pc = "top") /\ []<>(pc # "top")
            \/ []<>(lastId # None /\ \A n \in first..Len(added) : n <= lastId)
=============================================================================
