----------------------------- MODULE LiveStore ------------------------------
(***************************************************************************)
(* useLive.ts: the browser tab's buffer of live ticks, with the server end *)
(* it talks to (routes/live.ts and what LiveHub promises it).  The tab     *)
(* holds one EventSource; on each hello it reloads /api/live/series over   *)
(* another connection and merges it with the ticks that arrive meanwhile.  *)
(*                                                                         *)
(* The server misses no tick, so tick n has the time n (in intervals) and  *)
(* its ring is the last ServerCap ticks, or nothing between a restart and  *)
(* the end of its backfill.                                                *)
(***************************************************************************)
EXTENDS Naturals, Sequences

CONSTANTS
  MaxTick,     \* bound: ticks the server ever has
  MaxUsers,    \* bound: mounted useLive callers
  ServerCap,   \* LIVE_BACKFILL
  Capacity,    \* CAPACITY
  None

Tick == [ts : 1..MaxTick, gap : BOOLEAN]

ASSUME LiveStoreAssumption ==
  /\ {MaxTick, MaxUsers, ServerCap, Capacity} \subseteq Nat \ {0}
  /\ None \notin Seq(Tick)

VARIABLES
  newest,      \* the newest tick of the stream
  ready,       \* the hub has done its backfill
  sse,         \* events on their way on the open connection: a tick, or a hello
  loadReq,     \* the series request: "none", "sent" or "answered"
  series,      \* its answer
  mounted,     \* #users
  es,          \* #es: "none", "connecting" or "open"
  openEs,      \* EventSources that exist and are not closed
  tabTicks,    \* state.ticks
  pending,     \* #pending
  closeTimer,  \* #closeTimer runs
  reopenTimer, \* the timer of onerror runs
  blind        \* a load failed or found no ring, or a backfill passed a tab by

serverVars == <<newest, ready>>
request == <<loadReq, series>>
timers == <<closeTimer, reopenTimer>>
vars == <<serverVars, sse, request, mounted, es, openEs, tabTicks, pending, timers, blind>>

Hello(latest) == [hello |-> TRUE, ts |-> latest]
Event(ts) == [hello |-> FALSE, ts |-> ts]

\* hub.series: the ring, without a gap since the server misses nothing.
Series ==
  LET lo == IF newest > ServerCap THEN newest - ServerCap ELSE 0 IN
  IF ready THEN [k \in 1..newest - lo |-> [ts |-> lo + k, gap |-> FALSE]] ELSE << >>

LastTs == IF tabTicks = << >> THEN 0 ELSE tabTicks[Len(tabTicks)].ts

TypeOK ==
  /\ newest \in 0..MaxTick /\ ready \in BOOLEAN
  /\ sse \in Seq([hello : BOOLEAN, ts : 0..MaxTick])
  /\ loadReq \in {"none", "sent", "answered"}
  /\ series \in Seq(Tick)
  /\ mounted \in 0..MaxUsers
  /\ es \in {"none", "connecting", "open"}
  /\ openEs \in Nat
  /\ tabTicks \in Seq(Tick) /\ Len(tabTicks) <= Capacity
  /\ pending = None \/ pending \in Seq(Tick)
  /\ closeTimer \in BOOLEAN /\ reopenTimer \in BOOLEAN /\ blind \in BOOLEAN
  /\ (pending = None) = (loadReq = "none")

Init ==
  /\ newest = 0 /\ ready = FALSE
  /\ sse = << >> /\ loadReq = "none" /\ series = << >>
  /\ mounted = 0 /\ es = "none" /\ openEs = 0
  /\ tabTicks = << >> /\ pending = None
  /\ closeTimer = FALSE /\ reopenTimer = FALSE
  /\ blind = FALSE

-----------------------------------------------------------------------------
(* The server.                                                              *)

\* The stream has a new tick; a hub that follows it tells its subscribers.
NewTick ==
  /\ newest < MaxTick
  /\ newest' = newest + 1
  /\ sse' = IF ready /\ es = "open" THEN Append(sse, Event(newest + 1)) ELSE sse
  /\ UNCHANGED <<ready, request, mounted, es, openEs, tabTicks, pending, timers, blind>>

\* The hub's backfill notifies nobody.
Backfill ==
  /\ ~ready
  /\ ready' = TRUE
  /\ blind' = (blind \/ (es = "open" /\ newest > 0))
  /\ UNCHANGED <<newest, sse, request, mounted, es, openEs, tabTicks, pending, timers>>

\* The web server restarts; EventSource retries by itself.
Restart ==
  /\ ready
  /\ ready' = FALSE
  /\ es' = IF es = "open" THEN "connecting" ELSE es
  /\ sse' = << >>
  /\ UNCHANGED <<newest, request, mounted, openEs, tabTicks, pending, timers, blind>>

\* GET /api/live/events: hello with latestTs, which is null without a ring.
Accept ==
  /\ es = "connecting"
  /\ es' = "open"
  /\ sse' = <<Hello(IF ready THEN newest ELSE 0)>>
  /\ UNCHANGED <<serverVars, request, mounted, openEs, tabTicks, pending, timers, blind>>

\* The connection breaks, or the server closes a slow client's.
Drop ==
  /\ es = "open"
  /\ es' = "connecting"
  /\ sse' = << >>
  /\ UNCHANGED <<serverVars, request, mounted, openEs, tabTicks, pending, timers, blind>>

\* GET /api/live/series, perhaps of a server that has just restarted.
Answer ==
  /\ loadReq = "sent"
  /\ loadReq' = "answered"
  /\ series' = Series
  /\ blind' = (blind \/ ~ready)
  /\ UNCHANGED <<serverVars, sse, mounted, es, openEs, tabTicks, pending, timers>>

-----------------------------------------------------------------------------
(* The tab.                                                                 *)

\* The body of #append's loop: only a newer tick is added.
added(ticks, t) ==
  IF ticks # << >> /\ t.ts <= ticks[Len(ticks)].ts THEN ticks ELSE Append(ticks, t)

\* #append: the incoming ticks one by one, then the newest Capacity of them.
append(buffer, incoming) ==
  LET long[k \in 0..Len(incoming)] == IF k = 0 THEN buffer ELSE added(long[k - 1], incoming[k])
      all == long[Len(incoming)] IN
  SubSeq(all, IF Len(all) > Capacity THEN Len(all) - Capacity + 1 ELSE 1, Len(all))

\* ticks.filter: those of the buffer before a time.
before(buffer, ts) ==
  LET kept[k \in 0..Len(buffer)] ==
        IF k = 0 THEN << >>
        ELSE IF buffer[k].ts < ts THEN Append(kept[k - 1], buffer[k]) ELSE kept[k - 1] IN
  kept[Len(buffer)]

\* Mutant: the gap is not looked for.
merge_NoGap ==
  IF series = << >> THEN tabTicks
  ELSE before(tabTicks, series[1].ts) \o series

\* #merge: the series replaces the buffer's tail, and its first tick follows a
\* gap if it is more than 2.5 intervals after what is kept.
merge ==
  LET first == series[1]
      kept == before(tabTicks, first.ts)
      head == IF kept # << >> /\ 2 * (first.ts - kept[Len(kept)].ts) > 5
              THEN [first EXCEPT !.gap = TRUE] ELSE first IN
  IF series = << >> THEN tabTicks
  ELSE kept \o <<head>> \o Tail(series)

\* hello: reload unless the server has nothing newer; an earlier request is
\* aborted and what was pending for it is left to the new series.
onHello ==
  /\ es = "open" /\ sse # << >> /\ Head(sse).hello
  /\ sse' = Tail(sse)
  /\ IF Head(sse).ts # 0 /\ Head(sse).ts # LastTs
     THEN loadReq' = "sent" /\ series' = << >> /\ pending' = << >>
     ELSE UNCHANGED <<request, pending>>
  /\ UNCHANGED <<serverVars, mounted, es, openEs, tabTicks, timers, blind>>

onTick ==
  LET t == [ts |-> Head(sse).ts, gap |-> FALSE] IN
  /\ es = "open" /\ sse # << >> /\ ~Head(sse).hello
  /\ sse' = Tail(sse)
  /\ IF pending # None
     THEN pending' = Append(pending, t) /\ UNCHANGED tabTicks
     ELSE tabTicks' = append(tabTicks, <<t>>) /\ UNCHANGED pending
  /\ UNCHANGED <<serverVars, request, mounted, es, openEs, timers, blind>>

\* The series arrives, or the request fails.
Loaded ==
  /\ loadReq = "answered"
  /\ tabTicks' = append(merge, pending)
  /\ loadReq' = "none" /\ series' = << >> /\ pending' = None
  /\ UNCHANGED <<serverVars, sse, mounted, es, openEs, timers, blind>>

LoadFails ==
  /\ loadReq # "none"
  /\ tabTicks' = append(tabTicks, pending)
  /\ loadReq' = "none" /\ series' = << >> /\ pending' = None
  /\ blind' = TRUE
  /\ UNCHANGED <<serverVars, sse, mounted, es, openEs, timers>>

\* onerror with readyState CLOSED: the server refused outright.
Refused ==
  /\ es = "connecting"
  /\ es' = "none"
  /\ openEs' = openEs - 1
  /\ reopenTimer' = TRUE
  /\ UNCHANGED <<serverVars, sse, request, mounted, tabTicks, pending, closeTimer, blind>>

\* #open.
Open == es' = "connecting" /\ openEs' = openEs + 1

ReopenFires ==
  /\ reopenTimer
  /\ reopenTimer' = FALSE
  /\ IF mounted > 0 /\ es = "none" THEN Open ELSE UNCHANGED <<es, openEs>>
  /\ UNCHANGED <<serverVars, sse, request, mounted, tabTicks, pending, closeTimer, blind>>

\* A caller mounts, and unmounts.
acquire ==
  /\ mounted < MaxUsers
  /\ closeTimer' = FALSE
  /\ mounted' = mounted + 1
  /\ IF mounted = 0 /\ es = "none" THEN Open ELSE UNCHANGED <<es, openEs>>
  /\ UNCHANGED <<serverVars, sse, request, tabTicks, pending, reopenTimer, blind>>

release ==
  /\ mounted > 0
  /\ mounted' = mounted - 1
  /\ closeTimer' = (closeTimer \/ mounted = 1)
  /\ UNCHANGED <<serverVars, sse, request, es, openEs, tabTicks, pending, reopenTimer, blind>>

\* #close, when the grace period is over.
close ==
  /\ closeTimer
  /\ closeTimer' = FALSE
  /\ openEs' = IF es = "none" THEN openEs ELSE openEs - 1
  /\ es' = "none"
  /\ sse' = << >>
  /\ loadReq' = "none" /\ series' = << >> /\ pending' = None
  /\ tabTicks' = << >>
  /\ blind' = FALSE
  /\ UNCHANGED <<serverVars, mounted, reopenTimer>>

Next ==
  \/ NewTick \/ Backfill \/ Restart \/ Accept \/ Drop \/ Answer
  \/ onHello \/ onTick \/ Loaded \/ LoadFails \/ Refused \/ ReopenFires
  \/ acquire \/ release \/ close

Spec == Init /\ [][Next]_vars

-----------------------------------------------------------------------------
(* Properties.                                                              *)

\* useLive's comment: "A tick with `gap` follows missing ticks; draw a break
\* before it", for more than 2.5 intervals.
NoSilentHole ==
  \A k \in DOMAIN tabTicks \ {1} : 2 * (tabTicks[k].ts - tabTicks[k - 1].ts) > 5 => tabTicks[k].gap

\* There is at most one EventSource and #es is it; a mounted caller always has
\* one or a timer that will open it, and an unused one has a timer to close it.
Lifecycle ==
  /\ openEs = IF es = "none" THEN 0 ELSE 1
  /\ mounted > 0 /\ es = "none" => reopenTimer
  /\ mounted = 0 /\ es # "none" => closeTimer

\* The buffer goes forward in time, whatever the order in which the series and
\* the events of two connections arrive.  While every series load succeeds and
\* the server is past its backfill whenever the tab connects or loads, no order
\* of hello, events, a second hello that aborts the first load, and answers
\* makes a silent hole either, and the tab has the server's newest tick as soon
\* as nothing is under way: comparing hello's latestTs with the last tick skips
\* no needed reload.
HolesMarked ==
  /\ TypeOK /\ Lifecycle
  /\ \A j, k \in DOMAIN tabTicks : j < k => tabTicks[j].ts < tabTicks[k].ts
  /\ ~blind => /\ NoSilentHole
               /\ es = "open" /\ sse = << >> /\ loadReq = "none" /\ ready => LastTs = newest
=============================================================================
