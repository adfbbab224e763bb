------------------------------ MODULE History -------------------------------
(***************************************************************************)
(* New destinations and the geo breakdown (ch/newDests.ts, ch/geo.ts), the *)
(* queries that one request runs side by side, and what the answers of the *)
(* history API owe each other while the collector writes and raw rows      *)
(* expire.                                                                 *)
(***************************************************************************)
EXTENDS Breakdowns

CONSTANTS
  Requests,     \* requests: [from, to, step]
  Cuts,         \* where a range is cut in two
  Filterings,   \* filters of the page
  Now,          \* Date.now()
  OFFSET,       \* a day or a week, of the ghost
  TextOf,       \* the text of an address
  GEO_IP_LIMIT

VARIABLE
  half    \* the one of /asn's two queries that has read: [part, rows], or Missing

historyVars == <<next, raw, rolled, processes, half>>

-----------------------------------------------------------------------------
(* New destinations.  A contact is <<name, address>>, with the port too     *)
(* when o.ports.                                                            *)

Contact(o, i) == <<Rows[i].name, IF o.ports THEN Rows[i].dest ELSE IpOf[Rows[i].dest]>>
Minute(i) == Floor(Rows[i].ts, MINUTE)
\* Mutant: both ends belong to the range.
InRange_Closed(t, r) == t >= Floor(r.from, SECOND) /\ t <= Floor(r.to, SECOND)

InRange(t, r) == t >= Floor(r.from, SECOND) /\ t < Floor(r.to, SECOND)

\* Every contact whose first minute ever lies in the range.
contactRow(k, o, first, lo, warm) ==
  [key |-> k, first |-> first, lo |-> lo, warm |-> warm, hidden |-> (lo /\ ~o.loopback) \/ (warm /\ ~o.warmup)]
contactRows(of, r, o) ==
  {contactRow(k, o, Minute(Min(of[k])), \A i \in of[k] : IpOf[Rows[i].dest] \in LOOPBACK,
              Minute(Min(of[k])) < Minute(Min(rolled)) + WARMUP) : k \in {x \in DOMAIN of : InRange(Minute(Min(of[x])), r)}}
contacts(r, o) ==
  contactRows(Group({i \in rolled : IpOf[Rows[i].dest] \notin NO_PEER /\ (o.names = Missing \/ Rows[i].name \in o.names)},
                    LAMBDA i : Contact(o, i)), r, o)

\* The oldest of them, the hidden ones last, with the counts over all.
newDestsOf(all, o, limit) ==
  [rows |-> Take(Ordered(all, LAMBDA a, b :
                   Before(<<IF a.hidden THEN 1 ELSE 0, a.first>> \o a.key, <<IF b.hidden THEN 1 ELSE 0, b.first>> \o b.key)), limit),
   loopback |-> Cardinality({c \in all : c.lo /\ ~o.loopback}),
   warmup |-> Cardinality({c \in all : c.warm /\ ~o.warmup /\ ~(c.lo /\ ~o.loopback)}),
   visible |-> Cardinality({c \in all : ~c.hidden})]
newDestsQuery(r, o, limit) == newDestsOf(contacts(r, o), o, limit)

minuteSums(of) == Memo([k \in DOMAIN of |-> Bytes("both", of[k])])

\* Mutant: up to the end of the range only.
firstHourQuery_InRange(r, o) ==
  LET keys == {c.key : c \in contacts(r, o)}
  IN  minuteSums(Group({i \in rolled : /\ Contact(o, i) \in keys
                                       /\ Minute(i) >= Floor(r.from, SECOND) - MINUTE /\ Minute(i) < Floor(r.to, SECOND)},
                       LAMBDA i : <<Contact(o, i), Minute(i)>>))

\* Bytes per minute of the contacts first seen in the range, up to an hour
\* past its end.
firstHourQuery(r, o) ==
  LET keys == {c.key : c \in contacts(r, o)}
  IN  minuteSums(Group({i \in rolled : /\ Contact(o, i) \in keys
                                       /\ Minute(i) >= Floor(r.from, SECOND) - MINUTE /\ Minute(i) < Floor(r.to, SECOND) + HOUR},
                       LAMBDA i : <<Contact(o, i), Minute(i)>>))

firstHour(hours, c) == Sum(LAMBDA k : hours[k], {k \in DOMAIN hours : k[1] = c.key /\ k[2] >= c.first /\ k[2] < c.first + HOUR})
shownDests(shown, hours) ==
  Memo([n \in DOMAIN shown |-> [key |-> shown[n].key, first |-> shown[n].first, bytes |-> firstHour(hours, shown[n])]])
buildNewDests(answer, hours, limit) ==
  [dests |-> shownDests(Take(SelectSeq(answer.rows, LAMBDA c : ~c.hidden), limit), hours),
   truncated |-> answer.visible > limit,
   hidden |-> [loopback |-> answer.loopback, warmup |-> answer.warmup]]

newDests(r, o, limit) == buildNewDests(newDestsQuery(r, o, limit + 1), firstHourQuery(r, o), limit)

-----------------------------------------------------------------------------
(* Geo: per-address sums, grouped by network and country.                   *)

\* The two queries, over the rows S that each reads.
largestIps(of, dir, limit) == Memo([ip \in Range(Take(LargestFirst(of, dir), limit)) |-> of[ip]])
perIpQuery(S, dir, limit) == largestIps(Group(S, LAMBDA i : IpOf[Rows[i].dest]), dir, limit)
totalsQuery(S, dir) ==
  [bytes |-> Bytes(dir, S), ips |-> Cardinality({IpOf[Rows[i].dest] : i \in {j \in S : Bytes(dir, {j}) > 0}})]

Amount(dir, S) == [tx |-> Bytes("tx", S), rx |-> Bytes("rx", S), bytes |-> Bytes(dir, S),
                   ips |-> Cardinality({IpOf[Rows[i].dest] : i \in S})]

\* Where the traffic of an address goes: "local", "unmatched" or its network.
GeoOf(ip) == classify(TextOf[ip], GeoTable)

\* Mutant: the totals query is believed.
Coverage_Trusted(covered, ips, totals) == [bytes |-> covered, total |-> totals.bytes, ips |-> ips, totalIps |-> totals.ips]

\* What the largest addresses cover of the whole; the queries may disagree.
Coverage(covered, ips, totals) ==
  [bytes |-> covered, total |-> Larger(covered, totals.bytes), ips |-> ips, totalIps |-> Larger(ips, totals.ips)]

\* Sums of the rows by network or country, of the matched addresses.
groupBy(of, dir) == {[key |-> k, sum |-> Amount(dir, of[k])] : k \in DOMAIN of}
geoSums(S, geo, ips, totals, dir) ==
  [coverage |-> Coverage(Bytes(dir, S), Cardinality(ips), totals),
   local |-> Amount(dir, {i \in S : geo[IpOf[Rows[i].dest]].local}),
   unmatched |-> Amount(dir, {i \in S : ~geo[IpOf[Rows[i].dest]].local /\ geo[IpOf[Rows[i].dest]].geo = NoGeo}),
   asns |-> groupBy(Group({i \in S : geo[IpOf[Rows[i].dest]].geo # NoGeo}, LAMBDA i : geo[IpOf[Rows[i].dest]].geo.asn), dir),
   countries |-> groupBy(Group({i \in S : geo[IpOf[Rows[i].dest]].geo.cc # ""}, LAMBDA i : geo[IpOf[Rows[i].dest]].geo.cc), dir)]
buildGeoBreakdown(perIp, totals, dir) ==
  geoSums(UNION Range(perIp), Memo([ip \in DOMAIN perIp |-> GeoOf(ip)]), DOMAIN perIp, totals, dir)

\* The destinations of the table that a selection [asn, cc, scope] keeps.
Selected(sel, c) ==
  /\ sel.asn # 0 => c.geo.asn = sel.asn
  /\ sel.cc # "" => c.geo.cc = sel.cc
  /\ CASE sel.scope = "public" -> ~c.local [] sel.scope = "local" -> c.local
       [] sel.scope = "unmatched" -> ~c.local /\ c.geo = NoGeo [] OTHER -> TRUE

destRow(d, S, dir) == [dest |-> d, sum |-> Amount(dir, S), procs |-> Cardinality({Rows[i].id : i \in S})]
destRows(of, all, dir) == Memo([n \in DOMAIN all |-> destRow(all[n], of[all[n]], dir)])
largestDests(of, dir, limit) == destRows(of, Take(LargestFirst(of, dir), limit), dir)
destinationsQuery(r, dir, filters, limit) == largestDests(Group(From(r, filters), LAMBDA i : Rows[i].dest), dir, limit)

cutDests(kept, limit) == [matched |-> Len(kept), rows |-> Take(kept, limit)]
buildDestinations(rows, sel, limit) == cutDests(SelectSeq(rows, LAMBDA row : Selected(sel, GeoOf(IpOf[row.dest]))), limit)

destinations(r, dir, filters, sel, limit) == buildDestinations(destinationsQuery(r, dir, filters, GEO_IP_LIMIT), sel, limit)

-----------------------------------------------------------------------------
(* Promise.all: the two queries of /asn read when ClickHouse gets to them.  *)

GeoRequest == parseRange(CHOOSE q \in Requests : q.to = Missing, Now)

GeoReads(part) ==
  /\ half = Missing
  /\ half' = [part |-> part, rows |-> From(GeoRequest, << >>)]
  /\ UNCHANGED tableVars

GeoAnswers ==
  /\ half # Missing
  /\ half' = Missing
  /\ UNCHANGED tableVars

\* The answer when the other query reads now.
geoAnswer(S, T) == buildGeoBreakdown(perIpQuery(S, "both", GEO_IP_LIMIT), totalsQuery(T, "both"), "both")
geoBreakdown ==
  LET now == From(GeoRequest, << >>)
      perIp == half.part = "perIp"
  IN  geoAnswer(IF perIp THEN half.rows ELSE now, IF perIp THEN now ELSE half.rows)

HistoryInit == TablesInit /\ half = Missing

HistoryNext ==
  \/ TablesNext /\ UNCHANGED half
  \/ \E part \in {"perIp", "totals"} : GeoReads(part)
  \/ GeoAnswers

-----------------------------------------------------------------------------
(* Properties.  They speak of every request with every filter, answered by  *)
(* one state of the tables; half is the only exception.                     *)

Asked == {parseRange(q, Now) : q \in Requests}
AllRows == Len(Rows)

SumOf(s) == SumSeq([n \in DOMAIN s |-> s[n].tx + s[n].rx])
DestBytes(s) == SumSeq([n \in DOMAIN s |-> s[n].sum.bytes])
GeoAgrees(geo, header) ==
  /\ geo.coverage.total = header
  /\ geo.local.bytes + geo.unmatched.bytes + Sum(LAMBDA a : a.sum.bytes, geo.asns) = geo.coverage.bytes
TablesAgree(table, header) ==
  Len(table["all"]) < GEO_IP_LIMIT => DestBytes(table["public"]) + DestBytes(table["local"]) = header
CallsAgree(hist, header) == SumSeq([b \in 1 .. BPC_BUCKETS |-> hist["tx"][b - 1] + hist["rx"][b - 1]]) = header
FlowsAgree(total, header, points) == total >= header /\ \A group \in DOMAIN points : SumOf(points[group]) = total
PageAgrees(r, f, header) ==
  /\ \A top \in {1, AllRows} : treemap(r, "both", f, top, AllRows).total = header
  /\ GeoAgrees(geoAnswer(From(r, f), From(r, f)), header)
  /\ TablesAgree([s \in {"all", "public", "local"} |->
                    destinations(r, "both", f, [asn |-> 0, cc |-> "", scope |-> s], AllRows).rows], header)
  /\ CallsAgree([dir \in {"tx", "rx"} |-> bytesPerCall(r, dir, "app", f, 1).total.bytes], header)
  /\ FlowsAgree(SumOf(flows(r, f, AllRows).flows), header,
                [group \in {"instance", "name"} |-> scatter(r, group, "range", f, AllRows).points])

\* What one page shows of the same range adds up to the header's total: the
\* treemap (ch/treemap.ts:26 promises it), the networks with the local and
\* unknown addresses, the destinations of the three scopes, and bytes per
\* call.  The Sankey's flows and the scatter cover the minute that from
\* falls in too, so they are never less, and agree with each other.
TotalsAgree ==
  On("history") /\ half = Missing => \A r \in Asked, f \in Filterings : PageAgrees(r, f, summary(r, f).tx + summary(r, f).rx)

Close(a, b, d) == a - b <= d /\ b - a <= d
BucketsAdd(t, n, S, u) ==
  /\ \A i \in S : \E b \in 1 .. n : Floor(Time(t.r, i), t.r.step) = Start(t.r, b) /\ coveredSeconds(t.r, b) > 0
  /\ SumSeq([b \in 1 .. n |-> u[b].total]) = Bytes("both", S)
  /\ \A b \in 1 .. n : Close(Sum(LAMBDA k : t.tx[k][b] + t.rx[k][b], Range(t.keys)),
                             kbps(u[b].total, coveredSeconds(t.r, b)), Len(t.keys) + 1)

\* Every row of the range is in a bucket that covers time, and a bucket's
\* rates add up to its bytes, whichever way they are grouped, up to the
\* rounding of each key.
BucketsAddUp ==
  On("history") /\ half = Missing => \A r \in Asked, f \in Filterings, by \in {"app", "uid"} :
    \A t \in {throughput(r, by, "both", 1, f)} : BucketsAdd(t, bucketCount(t.r), From(t.r, f), unknown(r, f))

ContactKeys(r, o) == {c.key : c \in contacts(r, o)}
CutInTwo(whole, before, after) == before \cup after = whole /\ before \cap after = {}
FirstSeen(d, mine) ==
  /\ d.first = Min({Minute(i) : i \in mine})
  /\ d.bytes = Bytes("both", {i \in mine : Minute(i) < d.first + HOUR})
ContactsOnce(r, o, answer, full) ==
  /\ \A cut \in Cuts \cap (r.from + 1 .. r.to - 1) :
       CutInTwo(ContactKeys(r, o), ContactKeys([r EXCEPT !.to = cut], o), ContactKeys([r EXCEPT !.from = cut], o))
  /\ Len(answer.dests) + answer.hidden.loopback + answer.hidden.warmup = Len(full.dests)
  /\ \A d \in Range(full.dests) : FirstSeen(d, {i \in rolled : Contact(o, i) = d.key})

\* All contacts by port, and one name's by address.
Listings == {[ports |-> TRUE, names |-> Missing, loopback |-> FALSE, warmup |-> FALSE],
             [ports |-> FALSE, names |-> {1}, loopback |-> FALSE, warmup |-> FALSE]}

\* Over adjacent ranges every contact is reported once, in the minute of its
\* first row ever, with all the bytes of its first hour.
FirstContacts ==
  On("history") /\ half = Missing => \A r \in Asked, o \in Listings :
    ContactsOnce(r, o, newDests(r, o, AllRows), newDests(r, [o EXCEPT !.loopback = TRUE, !.warmup = TRUE], AllRows))

\* The share of the traffic that the largest addresses carry is never above
\* all of it, though the two queries read at different times.
CoverageHonest ==
  On("history") /\ half # Missing => \A c \in {geoBreakdown.coverage} : c.bytes <= c.total /\ c.ips <= c.totalIps

=============================================================================
