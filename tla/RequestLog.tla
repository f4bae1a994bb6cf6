----------------------------- MODULE RequestLog -----------------------------
(***************************************************************************)
(* The requests table while it is read: lines are parsed and inserted in   *)
(* batches (storage.InsertBatch), a browser pages through the list         *)
(* (Store.Query, handleRequests, the page buttons of index.html), and the  *)
(* dashboard asks for its statistics (Store.Stats, handleStats).  A page   *)
(* takes two SELECTs and the statistics take nine, none of them in a       *)
(* transaction, so batches are committed in between.                       *)
(*                                                                         *)
(* A timestamp is stored as text in the offset of the log line, and the    *)
(* filter and the order compare the texts, while DATE() takes the text to  *)
(* UTC.  It is [wall, off, late]: the wall clock in units of a second,     *)
(* DayLength to a (short) day, the offset, and whether it lies past the    *)
(* full second, which only $msec gives.                                    *)
(***************************************************************************)
EXTENDS Parsers, FiniteSets, FiniteSetsExt

CONSTANTS
  DayLength,
  Traffics,     \* what happens in one behaviour: [lines, batch, rows, readers]
  Keywords,     \* the keyword list of the source
  Within,       \* Within[k]: the [path, query] texts that contain keyword k
  PageSize,     \* rows per page
  TopLimit,     \* TopLimit[c]: groups a list of column c keeps
  Filters,      \* filters of the dashboard
  MaxFailures   \* bound: statements of Query and Stats that fail

ASSUME DayAssumption == DayLength \in Nat \ {0, 1}
ASSUME LimitAssumption == PageSize \in Nat \ {0} /\ MaxFailures \in Nat

VARIABLES
  traffic,  \* the member of Traffics that this behaviour follows
  rows,     \* the requests table, in the order of ids
  hits,     \* the keyword_hits table: <<keyword, id>>
  page,     \* the list in the browser and the request it waits for
  stats,    \* the statistics being loaded
  failures

vars == <<traffic, rows, hits, page, stats, failures>>

-----------------------------------------------------------------------------
(* buildWhere, ORDER BY and GROUP BY.                                      *)

\* The text of t sorts before that of u: "05+00:00", "05+01:00", "05-01:00",
\* "05.3+00:00", "06+00:00".
OffsetBefore(o, p) == \/ o >= 0 /\ (p < 0 \/ o < p)
                      \/ p < o /\ o < 0
Before(t, u) == \/ t.wall < u.wall
                \/ t.wall = u.wall /\ ~t.late /\ u.late
                \/ t.wall = u.wall /\ t.late = u.late /\ OffsetBefore(t.off, u.off)
Day(t) == t.wall \div DayLength        \* of the wall clock
UtcDay(t) == Instant(t) \div DayLength    \* DATE(timestamp)

\* start=D, end=D: from midnight until the last full second of the day, both
\* as UTC, compared as text: at the same second a fraction or another offset
\* sorts behind.
EndOfNextDay(d) == (d + 1) * DayLength
EndOfDay(d) == (d + 1) * DayLength - 1

From(d, t) == t.wall >= d * DayLength
Until(d, t) == \/ t.wall < EndOfDay(d)
               \/ t.wall = EndOfDay(d) /\ ~t.late /\ t.off = 0

\* A filter: days between which a request lies ("" for a date that is not
\* given or cannot be parsed), and for some columns the values that pass (=
\* for some, LIKE for others).  The keyword takes no part in it.
Matches(f, row) ==
  /\ f.start # {} => \A d \in f.start : From(d, row.time)
  /\ f.end   # {} => \A d \in f.end : Until(d, row.time)
  /\ \A c \in f.columns : row[c[1]] \in c[2]

Matching(f) == {i \in DOMAIN rows : Matches(f, rows[i])}

\* ORDER BY timestamp DESC over the index, walked backwards: of equal
\* timestamps the later row comes first.
Ahead(i, j) == \/ Before(rows[j].time, rows[i].time)
               \/ rows[i].time = rows[j].time /\ i > j

\* How many rows of S precede row i.
Position(S, i) == Cardinality({j \in S : Ahead(j, i)})

\* LIMIT and OFFSET; the offset is that of the page button.
OffsetOnePageOn(n) == n * PageSize
Offset(n) == (n - 1) * PageSize
FirstOfPage(S, n, k) == {i \in S : Position(S, i) \in Offset(n)..(Offset(n) + k - 1)}
PageOf(S, n) == FirstOfPage(S, n, PageSize)

-----------------------------------------------------------------------------
(* Ingestion.                                                              *)

RowOf(e) == [addr |-> e.addr, host |-> e.host, path |-> e.path,
             query |-> e.query, method |-> e.method, status |-> e.status,
             time |-> e.time, os |-> OSInfo(e.agent),
             browser |-> BrowserInfo(e.agent)]

\* The parsers a line of this format goes through; a line may have been cut.
Entry(l) ==
  IF l.format = "custom" THEN ParseCustom(l.engine, l.request)
  ELSE Parse(l.engine, CutAfter(Line(l.format, l.request), l.quoted))

\* A line is written for a request from an address to a virtual host, by a user
\* (or "-"), at a time, and its source has an engine for some format or for
\* its own pattern.
Timestamps == [wall : Int, off : Int, late : BOOLEAN]

RequestOK(r) == /\ r.addr \in STRING \ {""} /\ r.host \in Hosts
                /\ r.http_host \in STRING /\ r.server_name \in STRING
                /\ r.user \in Seq(STRING) \ {<<>>} /\ r.time \in Timestamps

LineOK(l) == /\ RequestOK(l.request) /\ l.quoted \in Nat
             /\ \/ l.format \in LogFormats /\ l.engine \in Engines
                \/ l.format = "custom" /\ l.engine \in Seq(STRING)

ASSUME TrafficsAssumption ==
  \A T \in Traffics : /\ T.batch \in Nat /\ T.rows \in Nat
                      /\ \A l \in T.lines : LineOK(l)

\* Mutant: the id is that of the statement before.
HitsOfPrevious(e, id) ==
  {<<k, id - 1>> : k \in {x \in Keywords : <<e.path, e.query>> \in Within[x]}}

HitsOf(e, id) == {<<k, id>> : k \in {x \in Keywords : <<e.path, e.query>> \in Within[x]}}

\* What the lines of this behaviour parse to; those that do not parse are left
\* out.
Entries == {Entry(l) : l \in traffic.lines} \ {NoEntry}

\* A reader inserts its next entries in one transaction.
Ingest ==
  /\ \E batch \in UNION {[1..n -> Entries] : n \in 1..traffic.batch} :
       LET new == [i \in DOMAIN batch |-> RowOf(batch[i])]
       IN /\ Len(rows) + Len(new) <= traffic.rows
          /\ rows' = rows \o new
          /\ hits' = hits \cup
               UNION {HitsOf(batch[i], Len(rows) + i) : i \in DOMAIN batch}
          /\ page' = [page EXCEPT !.stale =
               @ \/ (page.pc = "select" /\ \E i \in DOMAIN new :
                                             Matches(page.filter, new[i]))]
  /\ UNCHANGED <<traffic, stats, failures>>

-----------------------------------------------------------------------------
(* GET /api/requests: a page of the list at a time.                        *)

NoFilter == [start |-> {}, end |-> {}, columns |-> {}, keyword |-> Keywords]

\* number, total and shown are currentPage, totalResults and lastRequestRows of
\* the browser, counted the total of the handler.  Auxiliary: seen, the rows
\* shown so far; owed, those that matched when the list was opened; missed,
\* those that were to be shown by loads that failed or broke off; stale, the
\* total is not that of the rows the last page was selected from.
NoPage == [pc |-> "idle", number |-> 1, filter |-> NoFilter, counted |-> 0,
           total |-> 0, shown |-> {}, seen |-> {}, owed |-> {}, missed |-> {},
           stale |-> FALSE]

\* applyFilters: from the first page again; the total is still the old one.
OpenList ==
  /\ "list" \in traffic.readers /\ page.pc \in {"idle", "shown"}
  /\ \E f \in Filters :
       page' = [NoPage EXCEPT !.pc = "count", !.filter = f, !.total = page.total,
                              !.shown = page.shown, !.owed = Matching(f)]
  /\ UNCHANGED <<traffic, rows, hits, stats, failures>>

CountRows ==
  /\ page.pc = "count"
  /\ page' = [page EXCEPT !.pc = "select", !.stale = FALSE,
                          !.counted = Cardinality(Matching(page.filter))]
  /\ UNCHANGED <<traffic, rows, hits, stats, failures>>

\* A response with the rows of a page, or the first of them.
Show(these) ==
  LET all == PageOf(Matching(page.filter), page.number) IN
    page' = [page EXCEPT !.pc = "shown", !.total = page.counted, !.shown = these,
                         !.seen = @ \cup these, !.missed = @ \cup (all \ these)]

SelectPage ==
  /\ page.pc = "select"
  /\ Show(PageOf(Matching(page.filter), page.number))
  /\ UNCHANGED <<traffic, rows, hits, stats, failures>>

\* rows.Next returns false on an error too, and nobody asks rows.Err: what was
\* scanned until then goes out as the page.
SelectBreaksOff ==
  /\ page.pc = "select" /\ failures < MaxFailures
  /\ failures' = failures + 1
  /\ \E k \in 0..PageSize - 1 :
       Show(FirstOfPage(Matching(page.filter), page.number, k))
  /\ UNCHANGED <<traffic, rows, hits, stats>>

\* The COUNT or the SELECT returns an error and the handler a 500, which the
\* browser only logs: the rows and the total of the last answer stay, under
\* the new page number.
LoadFails ==
  /\ page.pc \in {"count", "select"} /\ failures < MaxFailures
  /\ failures' = failures + 1
  /\ page' = [page EXCEPT
       !.pc = "shown", !.stale = TRUE,
       !.missed = @ \cup PageOf(Matching(page.filter), page.number)]
  /\ UNCHANGED <<traffic, rows, hits, stats>>

\* nextPage: there is one while the pages up to this do not cover the total.
MorePages == page.number * PageSize < page.total

NextPage ==
  /\ page.pc = "shown" /\ MorePages
  /\ page' = [page EXCEPT !.pc = "count", !.number = @ + 1]
  /\ UNCHANGED <<traffic, rows, hits, stats, failures>>

PrevPage ==
  /\ page.pc = "shown" /\ page.number > 1
  /\ page' = [page EXCEPT !.pc = "count", !.number = @ - 1]
  /\ UNCHANGED <<traffic, rows, hits, stats, failures>>

-----------------------------------------------------------------------------
(* GET /api/stats: nine statements, each list a function from groups to    *)
(* how many rows are in them.                                              *)

Columns == <<"path", "addr", "host", "os", "browser", "status">>
Lists == <<"total">> \o Columns \o <<"keyword", "day">>

ASSUME TopAssumption ==
  \A n \in DOMAIN Lists : Lists[n] # "total" => TopLimit[Lists[n]] \in Nat

\* A failing statement leaves its list empty, and the answer goes out.
NoStats == [step |-> 0, filter |-> NoFilter, lists |-> <<>>, failed |-> {}]

\* COUNT grouped by the value that G gives the members of S.
CountBy(S, G(_)) ==
  [g \in {G(i) : i \in S} |-> Cardinality({i \in S : G(i) = g})]

\* The k largest groups; of equal ones any.
Top(counts, k) ==
  IF Cardinality(DOMAIN counts) <= k THEN {counts}
  ELSE {[g \in T |-> counts[g]] : T \in
         {U \in kSubset(k, DOMAIN counts) :
            \A g \in U, h \in DOMAIN counts \ U : counts[g] >= counts[h]}}

\* requestsPerDay: the latest days, by UTC.
PerDay(S) ==
  LET days == {UtcDay(rows[i].time) : i \in S} IN
    CountBy({i \in S : Cardinality({d \in days : d > UtcDay(rows[i].time)})
                         < TopLimit["day"]},
            LAMBDA i : UtcDay(rows[i].time))

\* topNFrom("keyword_hits"): the keyword filter alone, over all requests.
KeywordCounts(f) ==
  CountBy({h \in hits : h[1] \in f.keyword}, LAMBDA h : h[1])

\* Mutant: the filter is not passed on.
ListOfUnfiltered(c, f) ==
  IF c = "day" THEN {PerDay(DOMAIN rows)} ELSE {CountBy(Matching(f), LAMBDA i : "all")}

ListOf(c, f) ==
  LET S == Matching(f) IN
    CASE c = "total"   -> {CountBy(S, LAMBDA i : "all")}
      [] c = "keyword" -> Top(KeywordCounts(f), TopLimit[c])
      [] c = "day"     -> {PerDay(S)}
      [] OTHER         -> Top(CountBy(S, LAMBDA i : rows[i][c]), TopLimit[c])

OpenStats ==
  /\ "stats" \in traffic.readers /\ stats.step = 0
  /\ \E f \in Filters : stats' = [NoStats EXCEPT !.step = 1, !.filter = f]
  /\ UNCHANGED <<traffic, rows, hits, page, failures>>

RunStatement ==
  /\ stats.step \in DOMAIN Lists
  /\ \E list \in ListOf(Lists[stats.step], stats.filter) :
       stats' = [stats EXCEPT !.step = @ + 1, !.lists = Append(@, list)]
  /\ UNCHANGED <<traffic, rows, hits, page, failures>>

StatementFails ==
  /\ stats.step \in DOMAIN Lists /\ failures < MaxFailures
  /\ failures' = failures + 1
  /\ stats' = [stats EXCEPT !.step = @ + 1, !.lists = Append(@, <<>>),
                            !.failed = @ \cup {stats.step}]
  /\ UNCHANGED <<traffic, rows, hits, page>>

Next == Ingest \/ OpenList \/ CountRows \/ SelectPage \/ SelectBreaksOff
          \/ LoadFails \/ NextPage \/ PrevPage
          \/ OpenStats \/ RunStatement \/ StatementFails

Init ==
  /\ traffic \in Traffics
  /\ rows = <<>> /\ hits = {} /\ page = NoPage /\ stats = NoStats
  /\ failures = 0

Spec == Init /\ [][Next]_vars

-----------------------------------------------------------------------------
(***************************************************************************)
(* Properties.                                                             *)
(***************************************************************************)

\* The tables and the two readers have their types, a keyword hit names a row,
\* and the page shows no more rows than it has room for.
TablesTypeOK ==
  /\ traffic \in Traffics
  /\ rows \in Seq({RowOf(e) : e \in Entries}) /\ Len(rows) <= traffic.rows
  /\ hits \subseteq Keywords \X DOMAIN rows

PageTypeOK ==
  /\ page \in [pc : {"idle", "count", "select", "shown"},
               number : Nat \ {0}, filter : Filters \cup {NoFilter},
               counted : Nat, total : Nat, shown : SUBSET DOMAIN rows,
               seen : SUBSET DOMAIN rows, owed : SUBSET DOMAIN rows,
               missed : SUBSET DOMAIN rows, stale : BOOLEAN]
  /\ Cardinality(page.shown) <= PageSize

StatsTypeOK ==
  /\ DOMAIN stats = DOMAIN NoStats
  /\ stats.step \in 0..Len(Lists) + 1
  /\ failures \in 0..MaxFailures

TypeOK == TablesTypeOK /\ PageTypeOK /\ StatsTypeOK

Logs(l, v) == \E i \in DOMAIN l.engine : l.engine[i] = v

\* The hosts that a line has for a request, or leaves to the referer.
HostsLogged(l) ==
  LET r == l.request IN
    CASE l.format = "common"                 -> {""}
      [] l.format = "combined"               -> {RefererHost(r.referer)}
      [] l.format \in {"vhost", "vhost:port"} -> {r.host}
      [] l.format = "custom" ->
           LET V == {v \in HostVariables : Logs(l, v)} IN
             IF V # {} THEN {r[v] : v \in V}
             ELSE {IF Logs(l, "http_referer") THEN RefererHost(r.referer) ELSE ""}

\* The URIs: the one requested or, with $uri, the one it was rewritten to.
UrisLogged(l) ==
  LET Has(v) == l.format = "custom" /\ Logs(l, v) IN
    {u \in {l.request.request[2], l.request.uri} :
       \/ u = l.request.uri /\ Has("uri")
       \/ /\ u = l.request.request[2]
          /\ l.format # "custom" \/ Has("request") \/ Has("request_uri")}

\* e says of the request of l what its server did.
SaysOf(e, l) ==
  LET r == l.request IN
    /\ e.addr = r.addr /\ e.host \in HostsLogged(l) /\ e.status = r.status
    /\ Instant(e.time) = Instant(r.time)
    /\ Len(r.request) = 3 => /\ e.method = r.request[1]
                             /\ e.path \in {u.path : u \in UrisLogged(l)}
                             /\ e.query \in {u.query : u \in UrisLogged(l)}

TwoWords(l) == Len(l.request.user) > 1
Cut(l) == l.format \in {"combined", "vhost", "vhost:port"} /\ l.quoted < 2

\* An entry is attributed to the address, host, path and time of the request
\* that the line was written for, whatever engine reads whatever format, in
\* whatever order a pattern has its variables -- except that a user name with a
\* space passes for a virtual host, that only apache:vhost_combined takes the
\* port off a host, and that a combined line cut behind its size passes for a
\* common one.
AttributedAsServed ==
  \A l \in traffic.lines :
    \/ Entry(l) = NoEntry
    \/ SaysOf(Entry(l), l)
    \/ /\ TwoWords(l) /\ l.format = "combined"
       /\ l.engine \in {"auto", "nginx:vhost_combined", "apache:vhost_combined"}
    \/ l.format = "vhost:port" /\ l.engine \in {"auto", "nginx:vhost_combined"}
    \/ Cut(l) /\ l.engine \in {"auto", "apache:common"}

\* The formats that an engine is for.
ReadBy(engine) ==
  CASE engine = "auto"          -> LogFormats
    [] engine = "apache:common" -> {"common"}
    [] engine \in {"nginx:combined", "apache:combined"} -> {"combined"}
    [] engine = "nginx:vhost_combined"  -> {"vhost"}
    [] engine = "apache:vhost_combined" -> {"vhost", "vhost:port"}

\* A whole line in a format that its source's engine is for is stored, unless
\* its request is empty or its user name has a space.
NoLineIsLost ==
  \A l \in traffic.lines :
    l.format \in LogFormats /\ l.format \in ReadBy(l.engine)
      /\ l.request.request # <<>> /\ ~Cut(l) /\ ~TwoWords(l)
        => Entry(l) # NoEntry

\* Who pages through the list, back and forth, until an answer says that there
\* is no page after it has been shown every request that matched when the list
\* was opened, although batches were inserted meanwhile -- newer and older ones
\* -- but for those on pages whose load failed or broke off, which the list
\* does not tell, and unless one was inserted between the COUNT and the SELECT
\* of that last page.  (Some rows are shown twice.)
PagingSkipsNothing ==
  page.pc = "shown" /\ ~MorePages /\ ~page.stale =>
    page.owed \subseteq page.seen \cup page.missed

Sum(counts) == MapThenSumSet(LAMBDA g : counts[g], DOMAIN counts)

\* A list of requests that no limit cut short.
Whole(n) ==
  /\ n \in DOMAIN stats.lists /\ Lists[n] # "keyword"
  /\ Lists[n] # "total" => Cardinality(DOMAIN stats.lists[n]) < TopLimit[Lists[n]]

\* The lists of one answer may differ by what was inserted between their
\* statements, but each counts all that the lists before it counted and
\* nothing that the filter excludes -- unless its statement failed, which the
\* answer does not say.
StatsOnlyLag ==
  stats.step > Len(Lists) =>
    LET W == {n \in DOMAIN stats.lists : Whole(n) /\ n \notin stats.failed}
        count == [n \in W |-> Sum(stats.lists[n])]
        now == Cardinality(Matching(stats.filter))
    IN \A n \in W : count[n] <= now /\ \A m \in W : m <= n => count[m] <= count[n]

\* A day as filter and the same day in the histogram hold the same requests,
\* provided that they were logged in UTC and not in the last second of the day
\* with a fraction.
DaysAgree ==
  \A i \in DOMAIN rows :
    LET t == rows[i].time IN
      t.off = 0 /\ ~(t.late /\ t.wall = EndOfDay(Day(t))) =>
        \A d \in 0..Day(t) + 1 : (From(d, t) /\ Until(d, t)) <=> UtcDay(t) = d
=============================================================================
