---------------------------- MODULE MCRequestLog ----------------------------
(***************************************************************************)
(* Instances of RequestLog for TLC.                                        *)
(***************************************************************************)
EXTENDS RequestLog, TLC

MCHosts == {"a.org"}
MCWithPort == "a.org" :> "a.org:80"

Time(w, o, l) == [wall |-> w, off |-> o, late |-> l]
Get(p, q) == <<"GET", [path |-> p, query |-> q], "HTTP/1.1">>

\* Three days of four seconds; time 7 is the last second of the second day.
Times == {Time(5, 0, FALSE), Time(4, 1, FALSE), Time(7, 0, TRUE), Time(8, 0, FALSE)}

Requests ==
  [host : {"a.org"}, addr : {"10.0.0.1"}, status : {200},
   user : {<<"-">>, <<"ann", "lee">>}, time : Times,
   request : {<<>>, <<"-">>, Get("/x", "k=1")}, uri : {[path |-> "/i", query |-> ""]},
   http_host : {"a.org:80"}, server_name : {"", "www"},
   referer : {"-", "b.org"}, agent : {{}, {"windows", "chrome", "safari"}}]

\* The second and the third give the path, the host and the time twice; the
\* third does not match for a server without a name.
MCPatterns ==
  {<<"remote_addr", "remote_user", "time_local", "request", "status",
     "http_referer", "http_user_agent">>,
   <<"host", "remote_addr", "msec", "request_method", "request_uri", "status",
     "http_referer", "unknown", "uri", "http_host", "time_local">>,
   <<"server_name", "remote_addr", "msec", "uri", "request", "status">>,
   <<"http_host", "remote_addr", "time_local", "request_method", "uri", "status">>}

\* Every request in every format through every engine, whole and cut.
Single ==
  { [lines |-> {l}, batch |-> 1, rows |-> 1, readers |-> {}] : l \in
      [format : LogFormats, engine : Engines, request : Requests, quoted : {0, 2}]
        \cup
      [format : {"custom"}, engine : MCPatterns, request : Requests, quoted : {2}] }

Visit(w, p, ua) ==
  [format |-> "combined", engine |-> "auto", quoted |-> 2,
   request |-> [host |-> "a.org", addr |-> "10.0.0.1", status |-> 200,
                http_host |-> "a.org", server_name |-> "a.org",
                user |-> <<"-">>, time |-> Time(w, 0, FALSE),
                uri |-> [path |-> p, query |-> ""],
                request |-> Get(p, ""), referer |-> "-", agent |-> ua]]

\* Three visits, of which two at the same second, while the tables are read by
\* one reader or the other: the two only read and have nothing in common.
Busy(reader) == [lines |-> {Visit(5, "/x", {"linux"}), Visit(5, "/y", {"mac", "safari"}),
                    Visit(9, "/x", {"spider"})},
         batch |-> 2, rows |-> 3, readers |-> {reader}]

MCTraffics == Single \cup {Busy("list"), Busy("stats")}

MCKeywords == {"k", "y"}
MCWithin == "k" :> {<<"/x", "k=1">>, <<"/x", "">>} @@ "y" :> {<<"/y", "">>}
MCTopLimit == [c \in {Lists[n] : n \in DOMAIN Lists} |->
                 IF c = "path" THEN 1 ELSE 3]

MCFilters ==
  { NoFilter,
    [NoFilter EXCEPT !.start = {1}, !.end = {1}, !.columns = {<<"path", {"/x"}>>},
                         !.keyword = {"k"}] }
=============================================================================
