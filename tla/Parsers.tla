------------------------------ MODULE Parsers -------------------------------
(***************************************************************************)
(* Package internal/parser: from the line a web server wrote for a request *)
(* to the entry that is stored.                                            *)
(*                                                                         *)
(* A line is abstracted to what the regular expressions tell apart: the    *)
(* words before the bracketed time, the quoted request, the status, and    *)
(* the quoted strings at the end.  They contain no quotes and the time is  *)
(* one Go parses; the size of the body is left out.  A path, a host or a   *)
(* referer (by the host of its URL, or "-") is one value, a query string   *)
(* one that is "" where there is none, a user agent the set of the names   *)
(* it contains: none if it is empty or "-".                                *)
(***************************************************************************)
EXTENDS Integers, Sequences, FiniteSetsExt

CONSTANTS
  Hosts,       \* virtual hosts, as logged without a port
  WithPort     \* WithPort[h]: how h is logged with its port

ASSUME HostsAssumption ==
  /\ Hosts \subseteq STRING \ {""}
  /\ WithPort \in [Hosts -> STRING] /\ \A h \in Hosts : WithPort[h] \notin Hosts
  /\ \A g, h \in Hosts : WithPort[g] = WithPort[h] => g = h

NoEntry == [addr |-> "", host |-> "", time |-> [wall |-> 0, off |-> 0, late |-> FALSE],
            method |-> "", path |-> "", query |-> "", protocol |-> "",
            status |-> 0, agent |-> {}]

-----------------------------------------------------------------------------
(* What servers write: one of the preset formats, or a custom pattern.     *)

LogFormats == {"common", "combined", "vhost", "vhost:port"}

\* The virtual host that a format puts in front of the address.
Leading(format, r) ==
  CASE format \in {"common", "combined"} -> <<>>
    [] format = "vhost"                  -> <<r.host>>
    [] format = "vhost:port"             -> <<WithPort[r.host]>>

\* A user name may contain a space: r.user is the sequence of its words.
Line(format, r) ==
  [words   |-> Leading(format, r) \o <<r.addr, "-">> \o r.user,
   time    |-> r.time,
   request |-> r.request,
   status  |-> r.status,
   quoted  |-> IF format = "common" THEN <<>> ELSE <<r.referer, r.agent>>]

\* A line that was cut off behind its n-th quoted string.
CutAfter(l, n) == IF n < Len(l.quoted) THEN [l EXCEPT !.quoted = SubSeq(@, 1, n)]
                  ELSE l

-----------------------------------------------------------------------------
(* The regular expressions.  \S+ takes exactly one word, so that they      *)
(* differ in how many words precede the time and in what follows the size. *)

IsCombined(l) == Len(l.words) = 3 /\ l.request # <<>> /\ Len(l.quoted) = 2
IsVHostCombined(l) == Len(l.words) = 4 /\ l.request # <<>> /\ Len(l.quoted) = 2

\* Mutant: the expression is not anchored at the end of the line.
IsCommonPrefix(l) == Len(l.words) = 3 /\ l.request # <<>>
IsCommon(l) == Len(l.words) = 3 /\ l.request # <<>> /\ l.quoted = <<>>

\* apacheVHostCombinedRegex takes the port off the host.
NoPort(w) == IF \E h \in Hosts : WithPort[h] = w
             THEN CHOOSE h \in Hosts : WithPort[h] = w ELSE w

RefererHost(referer) == IF referer = "-" THEN "" ELSE referer

\* parseRequest: strings.Fields of "METHOD URI PROTOCOL", of which any may be
\* missing; a URI is a record of its path and query already.
ParseRequest(e, request) ==
  [e EXCEPT !.method   = IF Len(request) >= 1 THEN request[1] ELSE @,
            !.path     = IF Len(request) >= 2 THEN request[2].path ELSE @,
            !.query    = IF Len(request) >= 2 THEN request[2].query ELSE @,
            !.protocol = IF Len(request) >= 3 THEN request[3] ELSE @]

Common(l, host, addr) ==
  ParseRequest([NoEntry EXCEPT !.host = host, !.addr = addr, !.time = l.time,
                               !.status = l.status], l.request)

ParseApacheCommon(l) == Common(l, "", l.words[1])
ParseCombined(l) ==
  [Common(l, RefererHost(l.quoted[1]), l.words[1]) EXCEPT !.agent = l.quoted[2]]
ParseVHostCombined(l) ==
  [Common(l, l.words[1], l.words[2]) EXCEPT !.agent = l.quoted[2]]
ParseApacheVHostCombined(l) ==
  [Common(l, NoPort(l.words[1]), l.words[2]) EXCEPT !.agent = l.quoted[2]]

\* Mutant: the common format is not tried.
ParseLineCombined(l) ==
  IF IsVHostCombined(l) THEN ParseVHostCombined(l)
  ELSE IF IsCombined(l) THEN ParseCombined(l) ELSE NoEntry

\* ParseLine, the auto parser: the most specific expression first.
ParseLine(l) ==
  CASE IsVHostCombined(l) -> ParseVHostCombined(l)
    [] IsCombined(l)      -> ParseCombined(l)
    [] IsCommon(l)        -> ParseApacheCommon(l)
    [] OTHER              -> NoEntry

Engines == {"auto", "nginx:combined", "nginx:vhost_combined",
            "apache:common", "apache:combined", "apache:vhost_combined"}

\* Parser.Parse; NoEntry is the error.
Parse(engine, l) ==
  CASE engine = "auto" -> ParseLine(l)
    [] engine \in {"nginx:combined", "apache:combined"} /\ IsCombined(l) ->
         ParseCombined(l)
    [] engine = "nginx:vhost_combined" /\ IsVHostCombined(l) ->
         ParseVHostCombined(l)
    [] engine = "apache:vhost_combined" /\ IsVHostCombined(l) ->
         ParseApacheVHostCombined(l)
    [] engine = "apache:common" /\ IsCommon(l) -> ParseApacheCommon(l)
    [] OTHER -> NoEntry

-----------------------------------------------------------------------------
(* Custom patterns: one variable after the other, between literals.        *)

\* The instant of t, and msec: the same instant, written in UTC.
Instant(t) == t.wall - t.off
Utc(t) == [t EXCEPT !.wall = Instant(t), !.off = 0]

\* What the server writes for the words of a request it could not split.
Unknown == [path |-> "-", query |-> ""]
Method(request) == IF Len(request) >= 2 THEN request[1] ELSE "-"
Uri(request) == IF Len(request) >= 2 THEN request[2] ELSE Unknown

HostVariables == {"http_host", "host", "server_name"}

\* The value of a variable fits the expression of its field; an unknown
\* variable takes anything.
Fits(v, r) ==
  CASE v = "remote_user"    -> Len(r.user) = 1
    [] v = "request"        -> r.request # <<>>
    [] v \in HostVariables  -> r[v] # ""
    [] OTHER -> TRUE

\* The fields that a URI, or the words of a request, assign: those there are.
UriFields(u) == [f \in {g \in {"path", "query"} : u[g] # ""} |-> u[f]]
RequestFields(request) ==
  LET e == ParseRequest(NoEntry, request)
  IN [f \in {g \in {"method", "path", "query", "protocol"} : e[g] # ""} |-> e[f]]

\* knownVariables and the switch over them: the fields of the entry that the
\* value of v is assigned to.  The other variables are recognised and ignored,
\* or unknown and discarded.
Assigned(v, r) ==
  CASE v = "remote_addr"     -> [addr |-> r.addr]
    [] v = "time_local"      -> [time |-> r.time]
    [] v = "msec"            -> [time |-> Utc(r.time)]
    [] v = "request"         -> RequestFields(r.request)
    [] v = "request_method"  -> [method |-> Method(r.request)]
    [] v = "request_uri"     -> UriFields(Uri(r.request))
    [] v = "uri"             -> UriFields(r.uri)
    [] v = "status"          -> [status |-> r.status]
    [] v = "http_user_agent" -> [agent |-> r.agent]
    [] v \in HostVariables   -> [host |-> r[v]]
    [] OTHER                 -> <<>>

\* The captured values are assigned in the order of the pattern: what the last
\* variable with a field says of it stays.
SetFields(pattern, r) ==
  LET Setters(f) == {i \in DOMAIN pattern : f \in DOMAIN Assigned(pattern[i], r)}
  IN [f \in DOMAIN NoEntry |->
        IF Setters(f) = {} THEN NoEntry[f]
        ELSE Assigned(pattern[Max(Setters(f))], r)[f]]

\* customParser.Parse of the line that pattern made of r: the fields, then the
\* host of the referer if none gave one.
ParseCustom(pattern, r) ==
  LET e == SetFields(pattern, r) IN
    IF \E i \in DOMAIN pattern : ~Fits(pattern[i], r) THEN NoEntry
    ELSE IF e.host = "" /\ \E i \in DOMAIN pattern : pattern[i] = "http_referer"
    THEN [e EXCEPT !.host = RefererHost(r.referer)]
    ELSE e

-----------------------------------------------------------------------------
(* useragent.go: the first rule that applies.  "chrome" is contained in no *)
(* other name here; "mac" stands for "mac os x" and "macintosh".           *)

OSInfo(ua) ==
  CASE "windows" \in ua              -> "Windows"
    [] "windows" \notin ua /\ "mac" \in ua -> "macOS"
    [] {"windows", "mac"} \cap ua = {} /\ "linux" \in ua ->
         IF "android" \in ua THEN "Android" ELSE "Linux"
    [] {"windows", "mac", "linux"} \cap ua = {} ->
         IF {"iphone", "ipad"} \cap ua # {} THEN "iOS"
         ELSE IF "android" \in ua THEN "Android" ELSE "Other"

\* The names BrowserInfo looks for, in its order: some of the first, none of
\* the second.
BrowserRules ==
  << <<{"edg"}, {}, "Edge">>,     <<{"chrome"}, {"chromium"}, "Chrome">>,
     <<{"firefox"}, {}, "Firefox">>, <<{"safari"}, {"chrome"}, "Safari">>,
     <<{"opera", "opr"}, {}, "Opera">>, <<{"bot", "crawl", "spider"}, {}, "Bot">> >>

BrowserInfo(ua) ==
  LET hits == {i \in DOMAIN BrowserRules :
                 BrowserRules[i][1] \cap ua # {} /\ BrowserRules[i][2] \cap ua = {}}
  IN IF hits # {} THEN BrowserRules[Min(hits)][3]
     ELSE IF ua = {} THEN "Empty" ELSE "Other"
=============================================================================
