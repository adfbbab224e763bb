---------------------------- MODULE Destinations ----------------------------
(***************************************************************************)
(* How an IP to ASN file reaches the Destinations page.  The server loads  *)
(* the file in the background and reloads it when it changes (GeoDb); the  *)
(* dashboard's health poll publishes the table's status (useHealth,        *)
(* geoStatus); a new epoch makes useQuery fetch again what the server      *)
(* enriches; the page's filters live in the URL (router, DestinationsPage).*)
(* An answer is the URL it belongs to and the file it was enriched from.   *)
(***************************************************************************)
EXTENDS Route, AsnTable

CONSTANTS
  Contents,   \* Contents[i]: the lines of the i-th file
  Fractions,  \* Fractions[i]: the tenths of a millisecond in its mtime
  Texts,      \* address texts that answers hold
  Urls,       \* the URLs of a query: filters [asn, scope]
  MaxWrites,  \* bound: files written
  MaxTurns,   \* bound: URL changes
  Absent        \* no file, no table, no answer

VARIABLES
  disk,       \* the file: [id, mtime], mtime in tenths of a ms, or Absent
  written,    \* number of files written
  geodb,      \* GeoDb: [id, fileDate, error], id the file of the table
  loading,    \* GeoDb.loading: [pc, mtime], or Absent
  polled,     \* geoStatus.current
  poll,       \* the status a health poll carries, or Absent
  epochs,     \* history: whether the published epoch has changed since the first
  href,       \* the page's URL
  turns,      \* number of URL changes
  query,      \* useQuery's state: [data, error, loading]
  answered,   \* useQuery's cache of answers by URL
  flight      \* the fetch: [url, id], id Absent until the server has enriched it

geoVars == <<disk, written, geodb, loading>>
healthVars == <<polled, poll, epochs>>
queryVars == <<query, answered, flight>>
destVars == <<geoVars, healthVars, href, turns, queryVars>>

Tables == [i \in DOMAIN Contents |-> parseTable(Contents[i])]
Sizes == [i \in DOMAIN Contents |-> TableSize(Tables[i])]
Good(i) == Sizes[i] > 0

\* The status the health route reports, and the epoch useGeoEpoch makes of it.
Status ==
  IF geodb.id = Absent THEN [entries |-> 0, fileDate |-> Absent, error |-> geodb.error]
  ELSE [entries |-> Sizes[geodb.id], fileDate |-> geodb.fileDate, error |-> geodb.error]
Epoch(s) == <<s.entries, s.fileDate>>
NewEpoch == polled # Absent /\ Epoch(polled) # Epoch(poll)

DestInit ==
  /\ disk = Absent /\ written = 0
  /\ geodb = [id |-> Absent, fileDate |-> Absent, error |-> FALSE] /\ loading = Absent
  /\ polled = Absent /\ poll = Absent /\ epochs = FALSE
  /\ href \in Urls /\ turns = 0
  /\ query = [data |-> Absent, error |-> FALSE, loading |-> TRUE]
  /\ answered = [u \in Urls |-> Absent]
  /\ flight = [url |-> href, id |-> Absent, ready |-> FALSE]

-----------------------------------------------------------------------------
(* The file and GeoDb.                                                      *)

\* npm run geo:update: a newer file, whose mtime may have a fraction.
WriteFile(i) ==
  /\ written < MaxWrites
  /\ written' = written + 1
  /\ disk' = [id |-> i, mtime |-> 10 * (written + 1) + Fractions[i]]
  /\ UNCHANGED <<geodb, loading, healthVars, href, turns, queryVars>>

RemoveFile ==
  /\ disk # Absent /\ written < MaxWrites
  /\ disk' = Absent
  /\ UNCHANGED <<written, geodb, loading, healthVars, href, turns, queryVars>>

\* start, and the timer: one load at a time.
reloadIfChanged ==
  /\ loading = Absent
  /\ loading' = [pc |-> "stat", mtime |-> 0]
  /\ UNCHANGED <<disk, written, geodb, healthVars, href, turns, queryVars>>

\* stat has answered.
LoadStat ==
  /\ loading # Absent /\ loading.pc = "stat"
  /\ IF disk = Absent
     THEN geodb' = [geodb EXCEPT !.error = TRUE] /\ loading' = Absent
     ELSE /\ geodb' = geodb
          /\ loading' = IF geodb.id # Absent /\ disk.mtime = geodb.fileDate THEN Absent
                        ELSE [pc |-> "read", mtime |-> disk.mtime]
  /\ UNCHANGED <<disk, written, healthVars, href, turns, queryVars>>

Round(mtime) == ((mtime + 5) \div 10) * 10

\* readFile and parseTable have ended; the file may be a newer one by then.
LoadRead ==
  /\ loading # Absent /\ loading.pc = "read"
  /\ loading' = Absent
  /\ geodb' = IF disk # Absent /\ Good(disk.id)
              THEN [id |-> disk.id, fileDate |-> Round(loading.mtime), error |-> FALSE]
              ELSE [geodb EXCEPT !.error = TRUE]
  /\ UNCHANGED <<disk, written, healthVars, href, turns, queryVars>>

-----------------------------------------------------------------------------
(* The health poll and the query.                                           *)

\* The effect of useQuery for a URL: the request in flight is aborted; the
\* cached answer, or else what was shown, stays visible.
Fetches(u) ==
  /\ query' = [data |-> IF answered[u] # Absent THEN answered[u] ELSE query.data,
               error |-> FALSE, loading |-> TRUE]
  /\ flight' = [url |-> u, id |-> Absent, ready |-> FALSE]
  /\ answered' = answered

\* The health route takes the status.
PollTaken ==
  /\ poll = Absent
  /\ poll' = Status
  /\ UNCHANGED <<geoVars, polled, epochs, href, turns, queryVars>>

\* Mutant: the status is published, but no one fetches again.
PollArrives_NoRefresh ==
  /\ poll # Absent
  /\ poll' = Absent
  /\ polled' = poll /\ epochs' = (epochs \/ NewEpoch)
  /\ UNCHANGED <<geoVars, href, turns, queryVars>>

\* publishGeoStatus, and useQuery's refreshOn: a first epoch only becomes
\* known; a different one fetches again.
PollArrives ==
  /\ poll # Absent
  /\ poll' = Absent
  /\ polled' = poll /\ epochs' = (epochs \/ NewEpoch)
  /\ IF NewEpoch THEN Fetches(href) ELSE UNCHANGED queryVars
  /\ UNCHANGED <<geoVars, href, turns>>

PollFails ==
  /\ poll # Absent
  /\ poll' = Absent
  /\ UNCHANGED <<geoVars, polled, epochs, href, turns, queryVars>>

\* ClickHouse has answered; the route enriches with the table of now.
Enrich ==
  /\ flight # Absent /\ ~flight.ready
  /\ flight' = [flight EXCEPT !.id = geodb.id, !.ready = TRUE]
  /\ UNCHANGED <<geoVars, healthVars, href, turns, query, answered>>

\* The answer arrives: remember, and setState.
QueryAnswer ==
  /\ flight # Absent /\ flight.ready
  /\ flight' = Absent
  /\ query' = [data |-> [url |-> flight.url, id |-> flight.id], error |-> FALSE, loading |-> FALSE]
  /\ answered' = [answered EXCEPT ![flight.url] = [url |-> flight.url, id |-> flight.id]]
  /\ UNCHANGED <<geoVars, healthVars, href, turns>>

\* The request fails: the data stays.
AnswerFails ==
  /\ flight # Absent
  /\ flight' = Absent
  /\ query' = [query EXCEPT !.error = TRUE, !.loading = FALSE]
  /\ UNCHANGED <<geoVars, healthVars, href, turns, answered>>

\* setSearchParams with a patch, and navigate: the same URL changes nothing.
Navigate(u) ==
  /\ turns < MaxTurns
  /\ u # href
  /\ turns' = turns + 1
  /\ href' = u
  /\ Fetches(u)
  /\ UNCHANGED <<geoVars, healthVars>>

\* The page's links and chips: a network clears the scope, a scope keeps the
\* network, the statistics clear the network.
SelectAsn(a) == Navigate([asn |-> a, scope |-> "all"])
ClearAsn == Navigate([href EXCEPT !.asn = Absent])
SetScope(s) == Navigate([href EXCEPT !.scope = s])
StatScope(s) == Navigate([asn |-> Absent, scope |-> s])

\* Refresh by hand: useQuery's reload.
ReloadQuery ==
  /\ query.error
  /\ Fetches(href)
  /\ UNCHANGED <<geoVars, healthVars, href, turns>>

DestNext ==
  \/ \E i \in DOMAIN Contents : WriteFile(i)
  \/ RemoveFile \/ reloadIfChanged \/ LoadStat \/ LoadRead
  \/ PollTaken \/ PollArrives \/ PollFails
  \/ Enrich \/ QueryAnswer \/ AnswerFails \/ ReloadQuery
  \/ \E u \in Urls : SelectAsn(u.asn) \/ SetScope(u.scope) \/ StatScope(u.scope)
  \/ ClearAsn

-----------------------------------------------------------------------------
(* Properties.                                                              *)

Exact == [i \in DOMAIN Contents |-> \A t \in Texts : lookup(Tables[i], t) = InFile(Contents[i], t)]

\* What the page shows without an error and not as loading is the answer for
\* its URL, whatever was asked, aborted or failed before, enriched from a table
\* that answers every address as its file does.  A table that replaced another
\* reaches the page: once the server has loaded the file and a health poll has
\* published it, what is shown was enriched from it, whatever was fetched, cached
\* or replaced meanwhile.  The first poll publishes without fetching, so one
\* change must have been seen (useQuery.ts:42-71, geo/asn.ts:59-95, 221-254,
\* geo/ip.ts:46-54, geoStatus.ts:30-37).
ShownBelongs ==
  On("destinations") /\ ~query.error /\ ~query.loading =>
    /\ query.data # Absent /\ query.data.url = href
    /\ query.data.id # Absent => Exact[query.data.id]
    /\ /\ epochs /\ Epoch(polled) = Epoch(Status)
       /\ loading = Absent /\ disk # Absent /\ geodb.fileDate = Round(disk.mtime)
       => query.data.id = geodb.id

=============================================================================
