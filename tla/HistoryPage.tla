---------------------------- MODULE HistoryPage -----------------------------
(***************************************************************************)
(* The History page as a machine: its URL (router.ts, useTimeRange.ts,     *)
(* RangePicker.tsx, the controls of HistoryPage.tsx and ThroughputChart    *)
(* .tsx), the throughput query (useQuery.ts, useThroughput.ts), the hues   *)
(* of its charts (palette.ts, throughputSeries.ts), and what the server    *)
(* accepts of its requests.  A key is 10 times its dimension's place in    *)
(* BY_VALUES, plus a number.  Labels are their keys.                       *)
(***************************************************************************)
EXTENDS Charts, Slots

CONSTANTS
  Bookmarks,      \* URLs the page is opened with: [from, to, by, filters, band]
  KeyLists,       \* KeyLists[by]: the lists of top keys that answers may have
  NameLists,      \* the process names of the page's other charts
  PRESETS,        \* lengths of the range presets
  PAGE_SPAN,      \* the range without from and to (24 h)
  MIN_ZOOM,       \* narrowest range that a zoom or brush selects
  Zooms,          \* positions <<start, end>> of the slider, in %
  Moments,        \* times that a brush or the custom form selects
  MAX_NAMES,      \* of a lifecycle request
  TooLong,        \* keys longer than MAX_FILTER_LEN and MAX_NAME_LEN
  TooLarge,       \* uids above UNKNOWN_UID
  MaxPageTime, MaxPageClicks   \* bounds

VARIABLES
  hurl,      \* the URL
  hquery,    \* useQuery: [url, data, error, loading]; data: the request answered
  hcache,    \* the requests with a cached answer
  hues,      \* [page, own: the assigners; owned, last, at; others, othersAt: the other charts']
  gesture,   \* [zoom: a slider position to commit; legend: the last legend click]
  hclock, hclicks

pageVars == <<hurl, hquery, hcache, hues, gesture, hclock, hclicks>>

-----------------------------------------------------------------------------
(* The URL as the page reads it.                                            *)

\* Mutant: a range that ends before it begins is used.
useTimeRange_Any(u) ==
  IF Missing \notin {u.from, u.to} /\ u.from > 0 THEN [from |-> u.from, to |-> u.to]
  ELSE [from |-> Now - PAGE_SPAN, to |-> Now]

useTimeRange(u) ==
  IF Missing \notin {u.from, u.to} /\ u.from > 0 /\ u.from < u.to THEN [from |-> u.from, to |-> u.to]
  ELSE [from |-> Now - PAGE_SPAN, to |-> Now]

DimOf(key) == BY_VALUES[key \div 10]

\* A uid filter that is no number is left out.
parseThroughputParams(u) ==
  LET ok == {d \in DOMAIN u.filters : d = "uid" => DimOf(u.filters[d]) = "uid"}
  IN  [by |-> u.by, filters |-> [d \in ok |-> u.filters[d]]]

historyThroughput(u) ==
  [range |-> useTimeRange(u), by |-> parseThroughputParams(u).by, filters |-> parseThroughputParams(u).filters]

\* The burst band is asked for only over a range it allows.
BandShown(u) == u.band /\ bandSpanOk(useTimeRange(u))

\* What the answer to a request lists: its keys in rank order, "other" left out.
AnswerKeys(req) ==
  IF req.by \in DOMAIN req.filters THEN <<req.filters[req.by]>>
  ELSE LET lists == KeyLists[req.by] IN lists[1 + (req.range.from % Len(lists))]

ShownKeys(q) == IF q.data = Missing THEN << >> ELSE AnswerKeys(q.data)

\* Mutant: data of an earlier request is never called stale.
Stale_Never(q) == FALSE

Stale(q) == q.loading /\ q.data # Missing

\* The names the lifecycle track asks for: Missing while they are not known.
TrackNames(u, q) ==
  LET p == parseThroughputParams(u)
  IN  IF "name" \in DOMAIN p.filters THEN <<p.filters.name>>
      ELSE IF p.by # "name" THEN << >>
      ELSE IF q.data = Missing \/ Stale(q) THEN Missing ELSE ShownKeys(q)

-----------------------------------------------------------------------------
(* What the server accepts.                                                 *)

acceptsRange(r) == r.from >= 0 /\ r.from < r.to
parseDest(key) == DimOf(key) = "dest" /\ key \notin TooLong
parseFilters(f) ==
  /\ \A d \in {"name", "app", "proto"} \cap DOMAIN f : f[d] \notin TooLong
  /\ "uid" \in DOMAIN f => DimOf(f.uid) = "uid" /\ f.uid \notin TooLarge
  /\ "dest" \in DOMAIN f => parseDest(f.dest)
parseNames(names) == Cardinality(Range(names)) <= MAX_NAMES /\ Range(names) \cap TooLong = {}

Accepted(req) == acceptsRange(req.range) /\ parseFilters(req.filters)

-----------------------------------------------------------------------------
(* Colours.                                                                 *)

\* Mutant: keys without a slot take the hues in plain order.
bandColors_InOrder(keys, slotOf) ==
  LET slot(k) == IF k \in DOMAIN slotOf THEN slotOf[k] ELSE -1
      taken == {slot(k) : k \in Range(keys)} \ {-1}
      extra(k) == Cardinality({j \in 1 .. (CHOOSE n \in DOMAIN keys : keys[n] = k) - 1 : slot(keys[j]) < 0})
  IN  [k \in Range(keys) |->
         IF slot(k) >= 0 THEN [hue |-> slot(k), faded |-> FALSE]
         ELSE [hue |-> extra(k) % SLOTS, faded |-> extra(k) >= SLOTS - Cardinality(taken)]]

\* bandColors: a key's slot, else the hues that no slotted key here has; past
\* these the palette repeats, faded.
bandColors(keys, slotOf) ==
  LET slot(k) == IF k \in DOMAIN slotOf THEN slotOf[k] ELSE -1
      taken == {slot(k) : k \in Range(keys)} \ {-1}
      spare == Ordered(0 .. SLOTS - 1, LAMBDA a, b : \/ a \notin taken /\ b \in taken
                                                     \/ (a \in taken <=> b \in taken) /\ a < b)
      extra(k) == Cardinality({j \in 1 .. (CHOOSE n \in DOMAIN keys : keys[n] = k) - 1 : slot(keys[j]) < 0})
  IN  [k \in Range(keys) |->
         IF slot(k) >= 0 THEN [hue |-> slot(k), faded |-> FALSE]
         ELSE [hue |-> spare[1 + (extra(k) % SLOTS)], faded |-> extra(k) >= SLOTS - Cardinality(taken)]]

SlotMap(s, names) == [x \in Range(names) |-> Slot(s, x)]

\* The memo of useThroughput, for a grouping and the keys shown.
slotOf(h, by, keys) ==
  LET gone == IF h.owned.by # by THEN h.owned.keys ELSE h.owned.keys \ Range(keys)
      page == assign(h.page, keys, hclock)
      own  == assign(releaseNames(h.own, gone), keys, hclock)
  IN  IF by = "name" THEN [h EXCEPT !.page = page, !.last = SlotMap(page, keys), !.at = hclock]
      ELSE [h EXCEPT !.own = own, !.owned = [by |-> by, keys |-> Range(keys)], !.last = SlotMap(own, keys), !.at = hclock]

-----------------------------------------------------------------------------
(* The page.                                                                *)

PageInit ==
  /\ hurl \in Bookmarks
  /\ hquery = [url |-> historyThroughput(hurl), data |-> Missing, error |-> FALSE, loading |-> TRUE]
  /\ hcache = {}
  /\ hues = [page |-> NoSlots, own |-> NoSlots, owned |-> [by |-> hurl.by, keys |-> {}],
             last |-> << >>, at |-> 0, others |-> << >>, othersAt |-> 0]
  /\ gesture = [zoom |-> Missing, legend |-> Missing]
  /\ hclock = 0 /\ hclicks = 0

PageTime ==
  /\ hclock < MaxPageTime
  /\ hclock' = hclock + 1
  /\ UNCHANGED <<hurl, hquery, hcache, hues, gesture, hclicks>>

PageClick == hclicks < MaxPageClicks /\ hclicks' = hclicks + 1

\* setSearchParams, and the query's effect: another request aborts the one in
\* flight; its cached answer, else the data shown, stays.
PageGo(u) ==
  LET req == historyThroughput(u) IN
  /\ hurl' = u
  /\ hquery' = IF req = hquery.url THEN hquery
               ELSE [url |-> req, data |-> IF req \in hcache THEN req ELSE hquery.data, error |-> FALSE, loading |-> TRUE]
  /\ hues' = IF hquery'.data = Missing THEN slotOf(hues, u.by, << >>) ELSE hues

\* commit: a window inside the range shown, unless it is too narrow or all of it.
ZoomTo(u, from, to) ==
  LET r == useTimeRange(u)
      a == Larger(r.from, from)
      b == Smaller(r.to, to)
  IN  IF b - a < MIN_ZOOM \/ (a = r.from /\ b = r.to) THEN u ELSE [u EXCEPT !.from = a, !.to = b]

Preset(ms) ==
  /\ PageClick /\ PageGo([hurl EXCEPT !.from = Now + hclock - ms, !.to = Now + hclock])
  /\ UNCHANGED <<hcache, gesture, hclock>>

CustomRange(from, to) ==
  /\ PageClick /\ from < to
  /\ PageGo([hurl EXCEPT !.from = from, !.to = to])
  /\ UNCHANGED <<hcache, gesture, hclock>>

StackBy(by) ==
  /\ PageClick /\ by # hurl.by /\ PageGo([hurl EXCEPT !.by = by])
  /\ UNCHANGED <<hcache, gesture, hclock>>

\* The toggle is disabled over a longer range.
ToggleBand ==
  /\ PageClick /\ bandSpanOk(useTimeRange(hurl))
  /\ PageGo([hurl EXCEPT !.band = ~@])
  /\ UNCHANGED <<hcache, gesture, hclock>>

\* The cross of a filter's chip, or "clear all".
ClearFilters(S) ==
  /\ PageClick /\ S # {}
  /\ S \subseteq DOMAIN hurl.filters /\ (Cardinality(S) = 1 \/ S = DOMAIN hurl.filters)
  /\ PageGo([hurl EXCEPT !.filters = [d \in DOMAIN @ \ S |-> @[d]]])
  /\ UNCHANGED <<hcache, gesture, hclock>>

Brush(from, to) ==
  /\ PageClick /\ from < to /\ hquery.data # Missing
  /\ PageGo(ZoomTo(hurl, from, to))
  /\ UNCHANGED <<hcache, gesture, hclock>>

\* The slider moves; its position is committed once it rests.
Slide(z) ==
  /\ PageClick /\ hquery.data # Missing
  /\ gesture' = [gesture EXCEPT !.zoom = z]
  /\ UNCHANGED <<hurl, hquery, hcache, hues, hclock>>

SlideRests ==
  LET r == useTimeRange(hurl)
      at(pct) == r.from + ((r.to - r.from) * pct) \div 100
  IN  /\ gesture.zoom # Missing
      /\ PageGo(ZoomTo(hurl, at(gesture.zoom[1]), at(gesture.zoom[2])))
      /\ gesture' = [gesture EXCEPT !.zoom = Missing]
      /\ UNCHANGED <<hcache, hclock, hclicks>>

\* The second click on a legend item within a moment drills into its key.
LegendClick(k) ==
  LET second == gesture.legend = [name |-> k, at |-> hclock]
      p == drillDown(parseThroughputParams(hurl), k)
  IN  /\ PageClick /\ k \in Range(ShownKeys(hquery))
      /\ gesture' = [gesture EXCEPT !.legend = IF second THEN Missing ELSE [name |-> k, at |-> hclock]]
      /\ PageGo(IF second THEN [hurl EXCEPT !.by = p.by, !.filters = p.filters] ELSE hurl)
      /\ UNCHANGED <<hcache, hclock>>

\* The answer: new data shows the whole range again.
ThroughputAnswer ==
  /\ hquery.loading /\ Accepted(hquery.url)
  /\ hquery' = [hquery EXCEPT !.data = hquery.url, !.loading = FALSE]
  /\ hcache' = hcache \cup {hquery.url}
  /\ hues' = slotOf(hues, hurl.by, AnswerKeys(hquery.url))
  /\ gesture' = [gesture EXCEPT !.zoom = IF @ = Missing THEN Missing ELSE <<0, 100>>]
  /\ UNCHANGED <<hurl, hclock, hclicks>>

\* The request is refused or fails: the data of an earlier request stays, and is
\* no longer called stale.
ThroughputFails ==
  /\ hquery.loading
  /\ hquery' = [hquery EXCEPT !.error = TRUE, !.loading = FALSE]
  /\ hues' = slotOf(hues, hurl.by, ShownKeys(hquery))
  /\ UNCHANGED <<hurl, hcache, gesture, hclock, hclicks>>

\* Another chart of the page shows an answer with these process names.
OtherChart(names) ==
  LET page == assign(hues.page, names, hclock) IN
  /\ hues' = [hues EXCEPT !.page = page, !.others = SlotMap(page, names), !.othersAt = hclock]
  /\ UNCHANGED <<hurl, hquery, hcache, gesture, hclock, hclicks>>

PageNext ==
  \/ PageTime \/ ThroughputAnswer \/ ThroughputFails \/ SlideRests \/ ToggleBand
  \/ \E ms \in PRESETS : Preset(ms)
  \/ \E from, to \in Moments : CustomRange(from, to) \/ Brush(from, to)
  \/ \E by \in Range(BY_VALUES) : StackBy(by)
  \/ \E S \in SUBSET DOMAIN hurl.filters : ClearFilters(S)
  \/ \E z \in Zooms : Slide(z)
  \/ \E k \in Range(ShownKeys(hquery)) : LegendClick(k)
  \/ \E i \in DOMAIN NameLists : OtherChart(NameLists[i])

-----------------------------------------------------------------------------
(* Properties.                                                              *)

\* Two bands of the throughput chart never have the same hue at full strength,
\* whatever answer is shown and however many slots are left; and process names
\* have the same hue in this chart and in the page's others, and different
\* names different ones, when both charts got their answers within RELEASE_MS of
\* each other (throughputSeries.ts:91-118, useThroughput.ts:34-52,
\* palette.ts:65-98).
HuesTellApart ==
  On("page") =>
  LET bands == bandColors(ShownKeys(hquery), hues.last)
      near == hues.at - hues.othersAt \in -RELEASE_MS .. RELEASE_MS
  IN  /\ \A x, y \in DOMAIN bands :
           x # y /\ bands[x].hue = bands[y].hue => bands[x].faded \/ bands[y].faded
      /\ hurl.by = "name" /\ ~hquery.loading /\ near =>
           \A x \in DOMAIN hues.last, y \in DOMAIN hues.others :
             hues.last[x] >= 0 /\ hues.others[y] >= 0 => (x = y <=> hues.last[x] = hues.others[y])

\* A double-click on the legend of an answer to another grouping.
DrillsStale ==
  /\ hquery.data # Missing /\ hquery.data.by # hurl.by
  /\ \E d \in DOMAIN hurl'.filters : d \notin DOMAIN hurl.filters \/ hurl'.filters[d] # hurl.filters[d]

\* No click turns requests that the server accepts into ones it refuses, but a
\* double-click on the legend of an answer to another grouping, whose key then
\* filters the wrong dimension.  Whatever the bookmark, the range and the burst
\* band asked for are accepted.  Unless the throughput request failed, the
\* lifecycle track asks for names of the answer to the URL as it is now, never
\* of one that is still drawn for an earlier URL (useTimeRange.ts:14-18,
\* throughputSeries.ts:29-66, sql.ts:23-34, 79-95, lifecycle.ts:14-24,
\* HistoryPage.tsx:149-161).
RequestsFollow ==
  [][On("page") =>
     LET req == historyThroughput(hurl')
         names == TrackNames(hurl', hquery')
     IN  /\ Accepted(historyThroughput(hurl)) => Accepted(req) \/ DrillsStale
         /\ acceptsRange(req.range)
         /\ BandShown(hurl') => burstSpanOk(parseRange([from |-> req.range.from, to |-> req.range.to, step |-> Missing], Now))
         /\ Accepted(req) /\ names # Missing => parseNames(names)
         /\ req.by = "name" /\ "name" \notin DOMAIN req.filters /\ ~hquery'.error =>
              names \in {Missing, AnswerKeys(req)}]_pageVars

=============================================================================
