------------------------------- MODULE MCWeb --------------------------------
(***************************************************************************)
(* The web server and the browser on small instances.  A tab shows one     *)
(* page: each behaviour is of one of the machines below, which share the   *)
(* operators of the server and of the charts but no state.                 *)
(***************************************************************************)
EXTENDS Storage, Destinations, LiveView, Drawings, HistoryPage, Gantt, Talkers, Rdns, MCPanels, LiveStore

CONSTANTS p1, p2, tz1, tz2, dA, dB, k1, k2

\* Storage: the processes ended on two local days in one timezone, on one in the other.
MCDayOf == (tz1 :> (p1 :> dA @@ p2 :> dB)) @@ (tz2 :> (p1 :> dB @@ p2 :> dB))

\* The ASN file: unsorted with an unrouted line and IPv6; unsorted with a short
\* line; and without a range.
Line(v, a, b, asn) == [v |-> v, a |-> a, b |-> b, asn |-> asn, cc |-> "DE", short |-> FALSE]
MCContents == << <<Line("v4", 4, 6, 2), Line("v4", 0, 1, 0), Line("v6", 1, 2, 3), Line("v4", 1, 3, 1)>>,
                 <<Line("v4", 2, 6, 2), Line("v4", 0, 1, 5), [Line("v4", 7, 7, 4) EXCEPT !.short = TRUE]>>,
                 <<Line("v4", 3, 2, 1)>> >>
MCFractions == <<4, 0, 4>>
MCTexts == [form : {"v4", "v6", "mapped", "bad"}, n : {1, 3, 6, 7}]
MCUrls == [asn : {Absent, 1}, scope : {"all", "local"}]
MCLocal == {[v |-> "v4", n |-> 5]}

\* Live: three names, one with two processes; another pair of them leads in
\* each snapshot, and there are fewer colours than names.
MCSnapshots == << 11 :> 3 @@ 12 :> 1 @@ 21 :> 2 @@ 31 :> 1, 11 :> 0 @@ 12 :> 1 @@ 21 :> 3 @@ 31 :> 6 >>

\* History: two processes, one of which changes its name; four destinations,
\* of which one is local, one has no peer and one is in the ASN table.
Row(t, i, x, a, d, tx, rx) ==
  [ts |-> t, id |-> i, name |-> x, app |-> a, proto |-> IF d = 1 THEN 2 ELSE 1, dest |-> d, tx |-> tx, rx |-> rx, txc |-> (tx + 2) \div 3, rxc |-> (rx + 2) \div 3]
MCRows == <<Row(1, 1, 1, 0, 3, 3, 0), Row(5, 2, 2, 1, 2, 1, 1), Row(5, 1, 1, 1, 4, 0, 2), Row(10, 2, 2, 1, 2, 2, 2), Row(15, 1, 3, 0, 1, 5, 1)>>
MCProcOf == <<[uid |-> 0, start |-> 0], [uid |-> 7, start |-> 3]>>
\* They exit between their ticks and before their first, or after their last
\* and just before it.
MCExits == {<<7, 4>>, <<16, 9>>}
MCIpOf == <<4, 6, 5, 9>>
MCPortOf == <<1, 2, 3, 0>>
MCTextOf == [ip \in Range(MCIpOf) |-> [form |-> IF ip = 9 THEN "bad" ELSE "v4", n |-> ip]]
MCGeoTable == parseTable(<<Line("v4", 4, 4, 9)>>)
MCDayStart == [t \in 0 .. 16 |-> 8 * (t \div 8)]

\* The local clock is not a whole hour off, and goes back half an hour once.
Local(date, cell, minute) == [date |-> date, cell |-> cell, minute |-> minute]
MCZoneAt == 0 :> Local(1, 1, 1) @@ 1 :> Local(1, 1, 1) @@ 2 :> Local(2, 2, 0) @@ 3 :> Local(2, 2, 1)

\* Requests: all of it, most of it, a range with a coarse step and one cut on
\* both sides.
MCRequests == {[from |-> 0, to |-> Missing, step |-> Missing], [from |-> 3, to |-> Missing, step |-> Missing],
               [from |-> 0, to |-> 7, step |-> 8], [from |-> 5, to |-> 15, step |-> 4]}
MCFilterings == {<< >>, [uid |-> 0]}

\* History page: a bare URL, one with a filter and a range that ends before it
\* begins, and one with filters that the server refuses.
Url(f, t, by, filters) == [from |-> f, to |-> t, by |-> by, filters |-> filters, band |-> TRUE]
Bare == Url(Missing, Missing, "app", << >>)
MCBookmarks == {Bare, Url(9, 4, "uid", [name |-> 21]), Url(4, 9, "name", [app |-> 19, uid |-> 49])}
MCKeyLists == [app |-> << <<11, 12>>, <<13, 12, 11>> >>, name |-> << <<21, 22, 23>>, <<23, 24>> >>,
               proto |-> << <<31>> >>, uid |-> << <<41>> >>, dest |-> << <<51, 52>> >>]
MCNameLists == << <<23, 25>> >>
MCZooms == {<<0, 50>>}

\* Bars: ended after, before and between their first and last I/O, ended before
\* their first, running; of two names.
Bar(x, s, f, l, e, b) == [name |-> x, start |-> s, first |-> f, last |-> l, ended |-> e, bytes |-> b]
MCShapes == {Bar(1, 0, 1, 2, 2, 1), Bar(1, 0, 1, 1, Running, 3), Bar(1, 1, 2, 3, 2, 2), Bar(1, 1, 2, 2, 1, 0),
             Bar(1, 2, 3, 3, 3, 1), Bar(2, 0, 1, 1, 1, 5), Bar(2, 1, 2, 2, Running, 1), Bar(2, 2, 3, 3, 2, 0)}

MCAddresses == <<1, 2, 3>>

-----------------------------------------------------------------------------

Machines == {"storage", "destinations", "live", "history", "page", "gantt", "strip", "talkers", "rdns", "panel", "store"}

webVars == <<route, storageVars, destVars, liveVars, historyVars, pageVars, ganttVars, stripVars, talkVars, rdnsVars, panelVars, vars>>

WebInit ==
  /\ route \in Machines
  /\ IF On("storage") THEN StorageInit
     ELSE /\ clock = Closed /\ index = Closed /\ hash = Closed /\ alive = Closed /\ parts = Closed /\ cache = Closed
          /\ scans = Closed /\ fails = Closed /\ del = Closed /\ pageData = Closed /\ selected = Closed
          /\ dialog = Closed /\ rewritten = Closed /\ began = Closed /\ aged = Closed
  /\ IF On("destinations") THEN DestInit /\ href = [asn |-> 1, scope |-> "local"]
     ELSE /\ disk = Closed /\ written = Closed /\ geodb = Closed /\ loading = Closed /\ polled = Closed /\ poll = Closed
          /\ epochs = Closed /\ href = Closed /\ turns = Closed /\ query = Closed /\ answered = Closed /\ flight = Closed
  /\ IF On("live") THEN LiveInit
     ELSE time = Closed /\ feed = Closed /\ liveChart = Closed /\ slots = Closed /\ sankey = Closed /\ clicks = Closed
  /\ IF On("history") THEN HistoryInit
     ELSE next = Closed /\ raw = Closed /\ rolled = Closed /\ processes = Closed /\ half = Closed
  /\ IF On("page") THEN PageInit
     ELSE /\ hurl = Closed /\ hquery = Closed /\ hcache = Closed /\ hues = Closed /\ gesture = Closed
          /\ hclock = Closed /\ hclicks = Closed
  /\ IF On("gantt") THEN GanttInit ELSE gantt = Closed
  /\ IF On("strip") \/ On("talkers") THEN TalkInit
     ELSE host = Closed /\ ring = Closed /\ strip = Closed /\ opening = Closed /\ table = Closed /\ toggles = Closed
  /\ IF On("rdns") THEN RdnsInit
     ELSE rnow = Closed /\ lru = Closed /\ running = Closed /\ lookupReq = Closed /\ resolved = Closed /\ lookups = Closed
  /\ PanelInit /\ Init

\* Only the variables of the machine that runs may change.
WebNext ==
  \/ On("storage") /\ StorageNext /\ UNCHANGED <<route, destVars, liveVars, historyVars, pageVars, ganttVars, stripVars, talkVars, rdnsVars, panelVars, vars>>
  \/ On("destinations") /\ DestNext /\ UNCHANGED <<route, storageVars, liveVars, historyVars, pageVars, ganttVars, stripVars, talkVars, rdnsVars, panelVars, vars>>
  \/ On("live") /\ LiveNext /\ UNCHANGED <<route, storageVars, destVars, historyVars, pageVars, ganttVars, stripVars, talkVars, rdnsVars, panelVars, vars>>
  \/ On("history") /\ HistoryNext /\ UNCHANGED <<route, storageVars, destVars, liveVars, pageVars, ganttVars, stripVars, talkVars, rdnsVars, panelVars, vars>>
  \/ On("page") /\ PageNext /\ UNCHANGED <<route, storageVars, destVars, liveVars, historyVars, ganttVars, stripVars, talkVars, rdnsVars, panelVars, vars>>
  \/ On("gantt") /\ GanttNext /\ UNCHANGED <<route, storageVars, destVars, liveVars, historyVars, pageVars, stripVars, talkVars, rdnsVars, panelVars, vars>>
  \/ On("strip") /\ StripNext /\ UNCHANGED <<route, storageVars, destVars, liveVars, historyVars, pageVars, ganttVars, talkVars, rdnsVars, panelVars, vars>>
  \/ On("talkers") /\ TableNext /\ UNCHANGED <<route, storageVars, destVars, liveVars, historyVars, pageVars, ganttVars, rdnsVars, panelVars, vars>>
  \/ On("rdns") /\ RdnsNext /\ UNCHANGED <<route, storageVars, destVars, liveVars, historyVars, pageVars, ganttVars, stripVars, talkVars, panelVars, vars>>
  \/ On("panel") /\ PanelNext /\ UNCHANGED <<route, storageVars, destVars, liveVars, historyVars, pageVars, ganttVars, stripVars, talkVars, rdnsVars, vars>>
  \/ On("store") /\ Next /\ UNCHANGED <<route, storageVars, destVars, liveVars, historyVars, pageVars, ganttVars, stripVars, talkVars, rdnsVars, panelVars>>

WebSpec == WebInit /\ [][WebNext]_webVars

=============================================================================
