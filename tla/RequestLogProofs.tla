-------------------------- MODULE RequestLogProofs --------------------------
(***************************************************************************)
(* Theorems about RequestLog and Parsers for every traffic, page size,     *)
(* length of a day and filter.                                             *)
(***************************************************************************)
EXTENDS RequestLog, FiniteSetTheorems, SequenceTheorems, WellFoundedInduction, TLAPS

-----------------------------------------------------------------------------
(* Induction over the naturals, from the library's principle of a minimal  *)
(* element: its own rule takes the predicate as an operator.               *)

\* A nonempty set of naturals has a least element.
LEMMA LeastNatural ==
    ASSUME NEW T, T \subseteq Nat, T # {}
    PROVE  \E x \in T : \A y \in T : x <= y
<1>1. IsWellFoundedOn(OpToRel(<, Nat), Nat)
  BY NatLessThanWellFounded
<1>2. PICK x \in T : \A y \in T : ~ (<<y, x>> \in OpToRel(<, Nat))
  BY <1>1, WFMin
<1>3. \A y \in T : ~ (y < x)
  BY <1>2 DEF OpToRel
<1> QED
  BY <1>3

\* What holds of 0 and passes from n to n + 1 holds of every natural.
LEMMA Naturals ==
    ASSUME NEW S, 0 \in S, \A n \in Nat : n \in S => n + 1 \in S
    PROVE  Nat \subseteq S
<1> DEFINE T == Nat \ S
<1> SUFFICES ASSUME T # {} PROVE FALSE
  OBVIOUS
<1>1. PICK x \in T : \A y \in T : x <= y
  <2>1. T \subseteq Nat
    OBVIOUS
  <2> HIDE DEF T
  <2> QED
    BY <2>1, LeastNatural
<1>2. x - 1 \in Nat /\ (x - 1) + 1 = x
  OBVIOUS
<1>3. x - 1 \in S
  BY <1>1, <1>2
<1> QED
  BY <1>2, <1>3

\* A nonempty set of indexes has a last one, which is its maximum.
LEMMA LastIndex ==
    ASSUME NEW n \in Nat, NEW I, I \subseteq 1..n, I # {}
    PROVE  Max(I) \in I
<1> DEFINE T == {n - i : i \in I}
<1>1. T \subseteq Nat /\ T # {}
  <2>1. \A i \in I : i \in 1..n /\ n - i \in Nat
    <3>1. \A i \in 1..n : n - i \in Nat
      OBVIOUS
    <3> QED
      BY <3>1
  <2> QED
    BY <2>1
<1>2. PICK x \in T : \A y \in T : x <= y
  <2> HIDE DEF T
  <2> QED
    BY <1>1, LeastNatural
<1>3. PICK i \in I : x = n - i
  OBVIOUS
<1>4. \A j \in I : i >= j
  <2> SUFFICES ASSUME NEW j \in I PROVE i >= j
    OBVIOUS
  <2>1. n - i <= n - j
    BY <1>2, <1>3
  <2> QED
    BY <2>1
<1> QED
  BY <1>4 DEF Max

-----------------------------------------------------------------------------
(* Parsing.                                                                *)

\* The line that the parser of a preset format gets.
Written(l) == CutAfter(Line(l.format, l.request), l.quoted)

Preset(l) == LineOK(l) /\ l.format \in LogFormats
WithHost(l) == l.format \in {"vhost", "vhost:port"}

\* The words before the user's, without and with a virtual host.
LEMMA TwoWordsFirst ==
    ASSUME NEW S, NEW a \in S, NEW b \in S, NEW t \in Seq(S)
    PROVE  /\ (<<>> \o <<a, b>> \o t)[1] = a
           /\ Len(<<>> \o <<a, b>> \o t) = 2 + Len(t)
OBVIOUS

LEMMA ThreeWordsFirst ==
    ASSUME NEW S, NEW h \in S, NEW a \in S, NEW b \in S, NEW t \in Seq(S)
    PROVE  /\ (<<h>> \o <<a, b>> \o t)[1] = h /\ (<<h>> \o <<a, b>> \o t)[2] = a
           /\ Len(<<h>> \o <<a, b>> \o t) = 3 + Len(t)
<1> DEFINE u == <<h>> \o <<a, b>>
           v == <<h, a, b>>
<1>1. u \in Seq(S) /\ Len(u) = 3
  OBVIOUS
<1>2. u[1] = h
  OBVIOUS
<1>3. u[2] = a
  OBVIOUS
<1>4. u[3] = b
  OBVIOUS
<1>5. v \in Seq(S) /\ Len(v) = 3 /\ v[1] = h /\ v[2] = a /\ v[3] = b
  OBVIOUS
<1>6. /\ (v \o t)[1] = h /\ (v \o t)[2] = a
      /\ Len(v \o t) = 3 + Len(t)
  OBVIOUS
<1> HIDE DEF u, v
<1>7. \A k \in 1..Len(u) : u[k] = v[k]
  <2>1. \A k \in 1..3 : k = 1 \/ k = 2 \/ k = 3
    OBVIOUS
  <2> QED
    BY <1>1, <1>2, <1>3, <1>4, <1>5, <2>1
<1>8. u = v
  BY <1>1, <1>5, <1>7, SeqEqual
<1> QED
  BY <1>6, <1>8 DEF u

\* The words in front of the time.
LEMMA WordsOf ==
    ASSUME NEW l, Preset(l)
    PROVE  LET words == Written(l).words
               r == l.request
           IN  /\ Len(r.user) \in Nat \ {0}
               /\ Len(words) = Len(r.user) + (IF WithHost(l) THEN 3 ELSE 2)
               /\ ~WithHost(l) => words[1] = r.addr
               /\ WithHost(l) => words[2] = r.addr
               /\ l.format = "vhost" => words[1] = r.host
               /\ l.format = "vhost:port" => words[1] = WithPort[r.host]
<1> DEFINE r == l.request
           T == STRING \cup {r.host, "-"}
           first == Leading(l.format, r)
<1>1. /\ r.addr \in STRING /\ r.host \in Hosts /\ r.user \in Seq(STRING) /\ r.user # <<>>
      /\ l.format \in LogFormats
  BY DEF Preset, LineOK, RequestOK
<1>2. Written(l).words = first \o <<r.addr, "-">> \o r.user
  BY DEF Written, CutAfter, Line
<1>3. /\ ~WithHost(l) => first = <<>>
      /\ l.format = "vhost" => first = <<r.host>>
      /\ l.format = "vhost:port" => first = <<WithPort[r.host]>>
  BY <1>1 DEF Leading, LogFormats, WithHost
<1>4. /\ r.addr \in T /\ "-" \in T /\ r.host \in T /\ WithPort[r.host] \in T
      /\ r.user \in Seq(T)
  <2>1. /\ r.addr \in STRING /\ r.user \in Seq(STRING) /\ r.host \in Hosts
    BY <1>1
  <2>2. Hosts \subseteq STRING /\ WithPort[r.host] \in STRING
    BY <2>1, HostsAssumption
  <2> QED
    BY <2>1, <2>2
<1>5. Len(r.user) \in Nat \ {0}
  BY <1>1, EmptySeq
<1> HIDE DEF first, T
<1>6. CASE ~WithHost(l)
  <2>1. Written(l).words = <<>> \o <<r.addr, "-">> \o r.user
    BY <1>2, <1>3, <1>6
  <2>2. /\ Written(l).words[1] = r.addr
        /\ Len(Written(l).words) = 2 + Len(r.user)
    BY <1>4, <2>1, TwoWordsFirst
  <2> QED
    BY <1>5, <1>6, <2>2 DEF WithHost
<1>7. CASE WithHost(l)
  <2>1. PICK h \in T : /\ first = <<h>>
                       /\ l.format = "vhost" => h = r.host
                       /\ l.format = "vhost:port" => h = WithPort[r.host]
    BY <1>3, <1>4, <1>7 DEF WithHost
  <2>2. Written(l).words = <<h>> \o <<r.addr, "-">> \o r.user
    BY <1>2, <2>1
  <2>3. /\ Written(l).words[1] = h /\ Written(l).words[2] = r.addr
        /\ Len(Written(l).words) = 3 + Len(r.user)
    BY <1>4, <2>2, ThreeWordsFirst
  <2> QED
    BY <1>5, <1>7, <2>1, <2>3
<1> QED
  BY <1>6, <1>7

\* The quoted strings at its end, and what no cut touches.
LEMMA QuotedOf ==
    ASSUME NEW l, Preset(l)
    PROVE  LET line == Written(l)
               r == l.request
           IN  /\ line.time = r.time /\ line.request = r.request
               /\ line.status = r.status
               /\ l.format = "common" => line.quoted = <<>>
               /\ l.format # "common" /\ l.quoted < 2 =>
                     Len(line.quoted) = l.quoted /\ (line.quoted = <<>> <=> l.quoted = 0)
               /\ l.format # "common" /\ l.quoted >= 2 =>
                     line.quoted = <<r.referer, r.agent>>
<1> DEFINE r == l.request
           T == {r.referer, r.agent}
           whole == Line(l.format, r)
<1>1. l.quoted \in Nat
  BY DEF Preset, LineOK
<1>2. /\ whole.time = r.time /\ whole.request = r.request /\ whole.status = r.status
      /\ l.format = "common" => whole.quoted = <<>>
      /\ l.format # "common" => whole.quoted = <<r.referer, r.agent>>
  BY DEF Line
<1>3. CASE l.quoted < Len(whole.quoted)
  <2>1. Written(l) = [whole EXCEPT !.quoted = SubSeq(whole.quoted, 1, l.quoted)]
    BY <1>3 DEF Written, CutAfter
  <2>2. l.format # "common"
    BY <1>1, <1>2, <1>3
  <2>3. l.quoted < 2
    BY <1>1, <1>2, <1>3, <2>2
  <2>4. /\ SubSeq(whole.quoted, 1, l.quoted) \in Seq(T)
        /\ Len(SubSeq(whole.quoted, 1, l.quoted)) = l.quoted
    <3> DEFINE q == <<r.referer, r.agent>>
    <3>1. l.quoted \in Int /\ \A i \in 1..l.quoted : q[i] \in T
      BY <1>1, <2>3
    <3> HIDE DEF q
    <3>2. SubSeq(q, 1, l.quoted) \in Seq(T) /\ Len(SubSeq(q, 1, l.quoted)) = l.quoted
      BY <1>1, <3>1, SubSeqProperties
    <3> QED
      BY <1>2, <2>2, <3>2 DEF q
  <2>5. /\ Written(l).time = r.time /\ Written(l).request = r.request
        /\ Written(l).status = r.status
        /\ Written(l).quoted = SubSeq(whole.quoted, 1, l.quoted)
    BY <1>2, <2>1 DEF Line
  <2>6. Written(l).quoted = <<>> <=> l.quoted = 0
    BY <1>1, <2>4, <2>5, EmptySeq
  <2> QED
    BY <1>1, <2>2, <2>3, <2>4, <2>5, <2>6
<1>4. CASE ~(l.quoted < Len(whole.quoted))
  <2>1. Written(l) = whole
    BY <1>4 DEF Written, CutAfter
  <2> QED
    BY <1>1, <1>2, <1>4, <2>1
<1> QED
  BY <1>3, <1>4

\* Which of the expressions match.
LEMMA MatchOf ==
    ASSUME NEW l, Preset(l)
    PROVE  LET line == Written(l)
               request == l.request.request # <<>>
               whole == l.format # "common" /\ l.quoted >= 2
           IN  /\ IsCombined(line) <=>
                     request /\ whole /\ ~WithHost(l) /\ ~TwoWords(l)
               /\ IsVHostCombined(line) =>
                     request /\ whole /\ (WithHost(l) \/ TwoWords(l))
               /\ request /\ whole /\ WithHost(l) /\ ~TwoWords(l) => IsVHostCombined(line)
               /\ IsCommon(line) <=>
                     /\ request /\ ~WithHost(l) /\ ~TwoWords(l)
                     /\ l.format = "common" \/ l.quoted = 0
<1> DEFINE line == Written(l)
           words == line.words
           quoted == line.quoted
           u == Len(l.request.user)
<1>1. /\ u \in Nat \ {0} /\ (TwoWords(l) <=> u > 1)
      /\ Len(words) = u + (IF WithHost(l) THEN 3 ELSE 2)
  BY WordsOf DEF TwoWords
<1>2. l.quoted \in Nat
  BY DEF Preset, LineOK
<1>3. /\ line.request = l.request.request
      /\ l.format = "common" => quoted = <<>>
      /\ l.format # "common" /\ l.quoted < 2 =>
            Len(quoted) = l.quoted /\ (quoted = <<>> <=> l.quoted = 0)
      /\ l.format # "common" /\ l.quoted >= 2 => quoted = <<l.request.referer, l.request.agent>>
  BY QuotedOf
<1> HIDE DEF line, words, quoted, u
<1>4. Len(quoted) = 2 <=> l.format # "common" /\ l.quoted >= 2
  <2>1. CASE l.format = "common"
    BY <1>3, <2>1
  <2>2. CASE l.format # "common" /\ l.quoted < 2
    BY <1>2, <1>3, <2>2
  <2>3. CASE l.format # "common" /\ l.quoted >= 2
    BY <1>3, <2>3
  <2> QED
    BY <1>2, <2>1, <2>2, <2>3
<1>5. quoted = <<>> <=> l.format = "common" \/ l.quoted = 0
  <2>1. CASE l.format = "common"
    BY <1>3, <2>1
  <2>2. CASE l.format # "common" /\ l.quoted < 2
    BY <1>2, <1>3, <2>2
  <2>3. CASE l.format # "common" /\ l.quoted >= 2
    <3>1. quoted # <<>>
      BY <1>4, <2>3, Len(<<>>) = 0
    <3> QED
      BY <1>2, <2>3, <3>1
  <2> QED
    BY <1>2, <2>1, <2>2, <2>3
<1>6. /\ Len(words) = 3 <=> ~WithHost(l) /\ ~TwoWords(l)
      /\ Len(words) = 4 => WithHost(l) \/ TwoWords(l)
      /\ WithHost(l) /\ ~TwoWords(l) => Len(words) = 4
  BY <1>1
<1>7. l.format = "common" => ~WithHost(l)
  BY DEF WithHost
<1> QED
  BY <1>3, <1>4, <1>5, <1>6 DEF IsCombined, IsVHostCombined, IsCommon, line, words, quoted

\* What every parser makes of the parts of a line.
Reads(e, line, host, addr) ==
    /\ e.addr = addr /\ e.host = host /\ e.time = line.time /\ e.status = line.status
    /\ Len(line.request) = 3 => /\ e.method = line.request[1]
                                /\ e.path = line.request[2].path
                                /\ e.query = line.request[2].query

Fields == {"host", "addr", "time", "status", "method", "path", "query", "protocol"}

LEMMA CommonReads ==
    ASSUME NEW line, NEW host, NEW addr
    PROVE  /\ Reads(Common(line, host, addr), line, host, addr)
           /\ Fields \subseteq DOMAIN Common(line, host, addr)
<1> DEFINE e == [NoEntry EXCEPT !.host = host, !.addr = addr, !.time = line.time,
                                !.status = line.status]
           request == line.request
           read == ParseRequest(e, request)
<1>1. /\ e.host = host /\ e.addr = addr /\ e.time = line.time /\ e.status = line.status
      /\ DOMAIN e = DOMAIN NoEntry /\ Fields \subseteq DOMAIN e
  BY DEF NoEntry, Fields
<1>2. Common(line, host, addr) = read
  BY DEF Common
<1> HIDE DEF e
<1>3. /\ read.host = e.host /\ read.addr = e.addr
      /\ read.time = e.time /\ read.status = e.status
      /\ Fields \subseteq DOMAIN read
  BY <1>1 DEF ParseRequest, Fields
<1>4. ASSUME Len(request) = 3
      PROVE  /\ read.method = request[1] /\ read.path = request[2].path
             /\ read.query = request[2].query
  BY <1>1, <1>4 DEF ParseRequest, Fields
<1> HIDE DEF read
<1> QED
  BY <1>1, <1>2, <1>3, <1>4 DEF Reads

LEMMA ParsersRead ==
    ASSUME NEW line
    PROVE  /\ Reads(ParseApacheCommon(line), line, "", line.words[1])
           /\ Reads(ParseCombined(line), line, RefererHost(line.quoted[1]), line.words[1])
           /\ Reads(ParseVHostCombined(line), line, line.words[1], line.words[2])
           /\ Reads(ParseApacheVHostCombined(line), line, NoPort(line.words[1]), line.words[2])
<1>1. ASSUME NEW host, NEW addr, NEW agent
      PROVE  Reads([Common(line, host, addr) EXCEPT !.agent = agent], line, host, addr)
  <2> DEFINE e == Common(line, host, addr)
  <2>1. Reads(e, line, host, addr) /\ Fields \subseteq DOMAIN e
    BY CommonReads
  <2> HIDE DEF e
  <2>2. \A x \in Fields : [e EXCEPT !.agent = agent][x] = e[x]
    BY <2>1 DEF Fields
  <2>3. Reads([e EXCEPT !.agent = agent], line, host, addr)
    BY <2>1, <2>2 DEF Reads, Fields
  <2> QED
    BY <2>3 DEF e
<1> QED
  BY <1>1, CommonReads
     DEF ParseApacheCommon, ParseCombined, ParseVHostCombined, ParseApacheVHostCombined

\* A preset engine's parser is chosen by its name.
LEMMA EntryOf ==
    ASSUME NEW l, Preset(l)
    PROVE  Entry(l) = Parse(l.engine, Written(l)) /\ l.engine \in Engines
BY DEF Preset, LineOK, LogFormats, Entry, Written

\* What a whole line of a preset format is read as by a parser that is for it.
LEMMA WholeLineParses ==
    ASSUME NEW l, Preset(l), l.format \in ReadBy(l.engine),
           l.request.request # <<>>, ~Cut(l), ~TwoWords(l)
    PROVE  Entry(l) # NoEntry
<1> DEFINE line == Written(l)
           addr == l.request.addr
<1>1. l.quoted \in Nat /\ l.format \in LogFormats /\ l.engine \in Engines
  BY EntryOf DEF Preset, LineOK
<1>2. addr # "" /\ NoEntry.addr = ""
  BY DEF Preset, LineOK, RequestOK, NoEntry
<1>3. Entry(l) = Parse(l.engine, line)
  BY EntryOf
<1>4. /\ ParseApacheCommon(line).addr = line.words[1]
      /\ ParseCombined(line).addr = line.words[1]
      /\ ParseVHostCombined(line).addr = line.words[2]
      /\ ParseApacheVHostCombined(line).addr = line.words[2]
  BY ParsersRead DEF Reads
<1>5. /\ ~WithHost(l) => line.words[1] = addr
      /\ WithHost(l) => line.words[2] = addr
  BY WordsOf
<1>6. /\ IsCombined(line) <=> ~WithHost(l) /\ l.format # "common" /\ l.quoted >= 2
      /\ IsVHostCombined(line) <=> WithHost(l) /\ l.format # "common" /\ l.quoted >= 2
      /\ IsCommon(line) <=> ~WithHost(l) /\ (l.format = "common" \/ l.quoted = 0)
  BY MatchOf
<1> HIDE DEF line, addr
<1>7. CASE l.format = "common"
  <2>1. ~IsCombined(line) /\ ~IsVHostCombined(line) /\ IsCommon(line) /\ ~WithHost(l)
    BY <1>6, <1>7 DEF WithHost
  <2>2. l.engine \in {"auto", "apache:common"}
    BY <1>1, <1>7 DEF ReadBy, Engines
  <2>3. Parse(l.engine, line) = ParseApacheCommon(line)
    BY <2>1, <2>2 DEF Parse, ParseLine
  <2> QED
    BY <1>2, <1>3, <1>4, <1>5, <2>1, <2>3
<1>8. CASE l.format = "combined"
  <2>1. IsCombined(line) /\ ~IsVHostCombined(line) /\ ~IsCommon(line) /\ ~WithHost(l)
    BY <1>1, <1>6, <1>8 DEF WithHost, Cut
  <2>2. l.engine \in {"auto", "nginx:combined", "apache:combined"}
    BY <1>1, <1>8 DEF ReadBy, Engines
  <2>3. Parse(l.engine, line) = ParseCombined(line)
    BY <2>1, <2>2 DEF Parse, ParseLine
  <2> QED
    BY <1>2, <1>3, <1>4, <1>5, <2>1, <2>3
<1>9. CASE WithHost(l)
  <2>1. ~IsCombined(line) /\ IsVHostCombined(line) /\ ~IsCommon(line)
    BY <1>1, <1>6, <1>9 DEF WithHost, Cut
  <2>2. l.engine \in {"auto", "nginx:vhost_combined", "apache:vhost_combined"}
    BY <1>1, <1>9 DEF ReadBy, Engines, WithHost
  <2>3. Parse(l.engine, line) \in {ParseVHostCombined(line), ParseApacheVHostCombined(line)}
    BY <2>1, <2>2 DEF Parse, ParseLine
  <2> QED
    BY <1>2, <1>3, <1>4, <1>5, <1>9, <2>3
<1> QED
  BY <1>1, <1>7, <1>8, <1>9 DEF LogFormats, WithHost

\* apache:vhost_combined takes off the port that a format puts on, and nothing
\* else.
LEMMA PortTakenOff ==
    ASSUME NEW h \in Hosts
    PROVE  NoPort(h) = h /\ NoPort(WithPort[h]) = h
<1>1. ~\E g \in Hosts : WithPort[g] = h
  BY HostsAssumption
<1>2. \A g \in Hosts : WithPort[g] = WithPort[h] => g = h
  BY HostsAssumption
<1> QED
  BY <1>1, <1>2 DEF NoPort

\* Reading the parts of a line as its format has them is saying of the request
\* what its server did.
LEMMA ReadsSays ==
    ASSUME NEW l, Preset(l), NEW e, NEW host \in HostsLogged(l),
           Reads(e, Written(l), host, l.request.addr)
    PROVE  SaysOf(e, l)
<1>1. l.format # "custom"
  BY DEF Preset, LogFormats
<1>2. l.request.request[2] \in UrisLogged(l)
  BY <1>1 DEF UrisLogged
<1> QED
  BY <1>2, QuotedOf DEF Reads, SaysOf

\* The parser that an entry of a preset format comes from.
LEMMA ParsedBy ==
    ASSUME NEW l, Preset(l), Entry(l) # NoEntry
    PROVE  LET line == Written(l)
               e == Entry(l)
           IN  \/ IsCombined(line) /\ e = ParseCombined(line)
               \/ /\ IsVHostCombined(line) /\ e = ParseVHostCombined(line)
                  /\ l.engine \in {"auto", "nginx:vhost_combined"}
               \/ /\ IsVHostCombined(line) /\ e = ParseApacheVHostCombined(line)
                  /\ l.engine = "apache:vhost_combined"
               \/ /\ IsCommon(line) /\ e = ParseApacheCommon(line)
                  /\ l.engine \in {"auto", "apache:common"}
BY EntryOf DEF Parse, ParseLine, Engines

\* An entry is right, but for the cases that AttributedAsServed names.
LEMMA Attribution ==
    ASSUME NEW l, Preset(l), Entry(l) # NoEntry
    PROVE  \/ SaysOf(Entry(l), l)
           \/ /\ TwoWords(l) /\ l.format = "combined"
              /\ l.engine \in {"auto", "nginx:vhost_combined", "apache:vhost_combined"}
           \/ l.format = "vhost:port" /\ l.engine \in {"auto", "nginx:vhost_combined"}
           \/ Cut(l) /\ l.engine \in {"auto", "apache:common"}
<1> DEFINE line == Written(l)
           r == l.request
           e == Entry(l)
<1>1. l.quoted \in Nat /\ l.format \in LogFormats /\ l.engine \in Engines /\ r.host \in Hosts
  BY EntryOf DEF Preset, LineOK, RequestOK
<1>2. /\ ~WithHost(l) => line.words[1] = r.addr
      /\ WithHost(l) => line.words[2] = r.addr
      /\ l.format = "vhost" => line.words[1] = r.host
      /\ l.format = "vhost:port" => line.words[1] = WithPort[r.host]
  BY WordsOf
<1>3. /\ IsCombined(line) => ~WithHost(l) /\ ~TwoWords(l) /\ l.format # "common" /\ l.quoted >= 2
      /\ IsVHostCombined(line) => (WithHost(l) \/ TwoWords(l)) /\ l.format # "common"
      /\ IsCommon(line) => ~WithHost(l) /\ (l.format = "common" \/ l.quoted = 0)
  BY MatchOf
<1>4. l.format # "common" /\ l.quoted >= 2 => line.quoted[1] = r.referer
  BY QuotedOf
<1>5. /\ l.format = "common" => "" \in HostsLogged(l)
      /\ l.format = "combined" => RefererHost(r.referer) \in HostsLogged(l)
      /\ WithHost(l) => r.host \in HostsLogged(l)
  BY DEF HostsLogged, WithHost
<1>6. e # NoEntry
  OBVIOUS
<1>7. l.format = "vhost" \/ l.format = "vhost:port" <=> WithHost(l)
  BY DEF WithHost
<1>8. /\ Reads(ParseApacheCommon(line), line, "", line.words[1])
      /\ Reads(ParseCombined(line), line, RefererHost(line.quoted[1]), line.words[1])
      /\ Reads(ParseVHostCombined(line), line, line.words[1], line.words[2])
      /\ Reads(ParseApacheVHostCombined(line), line, NoPort(line.words[1]), line.words[2])
  BY ParsersRead
<1>9. \A host \in HostsLogged(l) : Reads(e, line, host, r.addr) => SaysOf(e, l)
  BY ReadsSays
<1>10. l.format \in {"common", "combined", "vhost", "vhost:port"}
  BY <1>1 DEF LogFormats
<1> HIDE DEF line, e
<1>11. \/ IsCombined(line) /\ e = ParseCombined(line)
       \/ /\ IsVHostCombined(line) /\ e = ParseVHostCombined(line)
          /\ l.engine \in {"auto", "nginx:vhost_combined"}
       \/ /\ IsVHostCombined(line) /\ e = ParseApacheVHostCombined(line)
          /\ l.engine = "apache:vhost_combined"
       \/ /\ IsCommon(line) /\ e = ParseApacheCommon(line)
          /\ l.engine \in {"auto", "apache:common"}
  BY ParsedBy DEF line, e
<1>12. CASE IsCombined(line) /\ e = ParseCombined(line)
  BY <1>2, <1>3, <1>4, <1>5, <1>7, <1>8, <1>9, <1>10, <1>12 DEF e
<1>13. CASE /\ IsVHostCombined(line) /\ e = ParseVHostCombined(line)
            /\ l.engine \in {"auto", "nginx:vhost_combined"}
  BY <1>2, <1>3, <1>5, <1>7, <1>8, <1>9, <1>10, <1>13 DEF e
<1>14. CASE /\ IsVHostCombined(line) /\ e = ParseApacheVHostCombined(line)
            /\ l.engine = "apache:vhost_combined"
  <2>1. NoPort(r.host) = r.host /\ NoPort(WithPort[r.host]) = r.host
    BY <1>1, PortTakenOff
  <2> QED
    BY <1>2, <1>3, <1>5, <1>7, <1>8, <1>9, <1>10, <1>14, <2>1 DEF e
<1>15. CASE /\ IsCommon(line) /\ e = ParseApacheCommon(line)
            /\ l.engine \in {"auto", "apache:common"}
  <2>1. CASE l.format = "common"
    BY <1>2, <1>3, <1>5, <1>8, <1>9, <1>15, <2>1 DEF e
  <2>2. CASE l.format # "common"
    <3>1. Cut(l)
      BY <1>3, <1>7, <1>10, <1>15, <2>2 DEF Cut
    <3> QED
      BY <1>15, <3>1
  <2> QED
    BY <2>1, <2>2
<1> QED
  BY <1>11, <1>12, <1>13, <1>14, <1>15

\* What the value of each variable is assigned to.
LEMMA AssignedBy ==
    ASSUME NEW v, NEW r
    PROVE  LET A == Assigned(v, r) IN
           /\ "addr" \in DOMAIN A <=> v = "remote_addr"
           /\ v = "remote_addr" => A.addr = r.addr
           /\ "status" \in DOMAIN A <=> v = "status"
           /\ v = "status" => A.status = r.status
           /\ "host" \in DOMAIN A <=> v \in HostVariables
           /\ v \in HostVariables => A.host = r[v]
           /\ "time" \in DOMAIN A <=> v \in {"time_local", "msec"}
           /\ v = "time_local" => A.time = r.time
           /\ v = "msec" => A.time = Utc(r.time)
           /\ "method" \in DOMAIN A => v \in {"request", "request_method"}
           /\ {"path", "query"} \cap DOMAIN A # {} => v \in {"request", "request_uri", "uri"}
           /\ v = "request" => A = RequestFields(r.request)
           /\ v = "request_method" => A = [method |-> Method(r.request)]
           /\ v = "request_uri" => A = UriFields(Uri(r.request))
           /\ v = "uri" => A = UriFields(r.uri)
<1> DEFINE A == Assigned(v, r)
           Known == {"remote_addr", "time_local", "msec", "request", "request_method",
                     "request_uri", "uri", "status", "http_user_agent"} \cup HostVariables
<1>1. CASE v = "remote_addr"
  <2>1. A = [addr |-> r.addr]
    BY <1>1 DEF Assigned, HostVariables
  <2> QED
    BY <1>1, <2>1 DEF HostVariables
<1>2. CASE v = "time_local"
  <2>1. A = [time |-> r.time]
    BY <1>2 DEF Assigned, HostVariables
  <2> QED
    BY <1>2, <2>1 DEF HostVariables
<1>3. CASE v = "msec"
  <2>1. A = [time |-> Utc(r.time)]
    BY <1>3 DEF Assigned, HostVariables
  <2> QED
    BY <1>3, <2>1 DEF HostVariables
<1>4. CASE v = "request"
  <2>1. A = RequestFields(r.request)
    BY <1>4 DEF Assigned, HostVariables
  <2>2. DOMAIN A \subseteq {"method", "path", "query", "protocol"}
    BY <2>1 DEF RequestFields
  <2> QED
    BY <1>4, <2>1, <2>2 DEF HostVariables
<1>5. CASE v = "request_method"
  <2>1. A = [method |-> Method(r.request)]
    BY <1>5 DEF Assigned, HostVariables
  <2> QED
    BY <1>5, <2>1 DEF HostVariables
<1>6. CASE v \in {"request_uri", "uri"}
  <2>1. /\ v = "request_uri" => A = UriFields(Uri(r.request))
        /\ v = "uri" => A = UriFields(r.uri)
    BY <1>6 DEF Assigned, HostVariables
  <2>2. DOMAIN A \subseteq {"path", "query"}
    BY <1>6, <2>1 DEF UriFields
  <2> QED
    BY <1>6, <2>1, <2>2 DEF HostVariables
<1>7. CASE v = "status"
  <2>1. A = [status |-> r.status]
    BY <1>7 DEF Assigned, HostVariables
  <2> QED
    BY <1>7, <2>1 DEF HostVariables
<1>8. CASE v = "http_user_agent"
  <2>1. A = [agent |-> r.agent]
    BY <1>8 DEF Assigned, HostVariables
  <2> QED
    BY <1>8, <2>1 DEF HostVariables
<1>9. CASE v \in HostVariables
  <2>1. A = [host |-> r[v]]
    BY <1>9 DEF Assigned, HostVariables
  <2> QED
    BY <1>9, <2>1 DEF HostVariables
<1>10. CASE v \notin Known
  <2>1. A = <<>>
    BY <1>10 DEF Assigned
  <2>2. DOMAIN A = {}
    BY <2>1
  <2> QED
    BY <1>10, <2>2 DEF HostVariables
<1> QED
  BY <1>1, <1>2, <1>3, <1>4, <1>5, <1>6, <1>7, <1>8, <1>9, <1>10

\* What a URI and the words of a request say of a field.
LEMMA UriReads ==
    ASSUME NEW u, NEW f \in {"path", "query"}
    PROVE  LET A == UriFields(u) IN
           /\ f \in DOMAIN A => A[f] = u[f]
           /\ f \notin DOMAIN A => u[f] = ""
BY DEF UriFields

LEMMA RequestReads ==
    ASSUME NEW request, Len(request) = 3
    PROVE  LET A == RequestFields(request) IN
           /\ "method" \in DOMAIN A => A.method = request[1]
           /\ "method" \notin DOMAIN A => request[1] = ""
           /\ \A f \in {"path", "query"} :
                 /\ f \in DOMAIN A => A[f] = request[2][f]
                 /\ f \notin DOMAIN A => request[2][f] = ""
<1> DEFINE e == ParseRequest(NoEntry, request)
           A == RequestFields(request)
<1>1. Len(request) >= 1 /\ Len(request) >= 2
  OBVIOUS
<1>2. /\ e.method = request[1] /\ e.path = request[2].path /\ e.query = request[2].query
  BY <1>1 DEF ParseRequest, NoEntry
<1> HIDE DEF e
<1> DEFINE D == {g \in {"method", "path", "query", "protocol"} : e[g] # ""}
<1>3. A = [f \in D |-> e[f]]
  BY DEF RequestFields, e
<1>4. \A f \in {"method", "path", "query"} :
         (f \in D <=> e[f] # "") /\ (f \in D => A[f] = e[f])
  BY <1>3
<1>5. DOMAIN A = D
  BY <1>3
<1> HIDE DEF A, D
<1>6. /\ "method" \in DOMAIN A => A.method = request[1]
      /\ "method" \notin DOMAIN A => request[1] = ""
  BY <1>2, <1>4, <1>5
<1>7. \A f \in {"path", "query"} : e[f] = request[2][f]
  BY <1>2
<1>8. \A f \in {"path", "query"} :
         /\ f \in DOMAIN A => A[f] = request[2][f]
         /\ f \notin DOMAIN A => request[2][f] = ""
  BY <1>4, <1>5, <1>7
<1> QED
  BY <1>6, <1>8 DEF A

\* Each field is what some variable of the pattern says of it, or empty if none
\* does.
Names(pattern, v) == \E i \in DOMAIN pattern : pattern[i] = v

LEMMA FieldSet ==
    ASSUME NEW pattern \in Seq(STRING), NEW r, NEW f \in DOMAIN NoEntry
    PROVE  LET s == SetFields(pattern, r) IN
           \/ /\ s[f] = NoEntry[f]
              /\ \A v : Names(pattern, v) => f \notin DOMAIN Assigned(v, r)
           \/ \E v : /\ Names(pattern, v) /\ f \in DOMAIN Assigned(v, r)
                     /\ s[f] = Assigned(v, r)[f]
<1> DEFINE Setters(g) == {i \in DOMAIN pattern : g \in DOMAIN Assigned(pattern[i], r)}
           s == SetFields(pattern, r)
           I == Setters(f)
<1>1. s[f] = IF I = {} THEN NoEntry[f] ELSE Assigned(pattern[Max(I)], r)[f]
  BY DEF SetFields
<1>2. CASE I = {}
  BY <1>1, <1>2 DEF Names
<1>3. CASE I # {}
  <2>1. Len(pattern) \in Nat /\ I \subseteq 1..Len(pattern)
    OBVIOUS
  <2>2. Max(I) \in I
    <3> HIDE DEF I
    <3> QED
      BY <1>3, <2>1, LastIndex
  <2>3. PICK i \in I : i = Max(I)
    BY <2>2
  <2>4. PICK v : v = pattern[i]
    OBVIOUS
  <2>5. s[f] = Assigned(v, r)[f]
    <3> HIDE DEF I
    <3> QED
      BY <1>1, <1>3, <2>3, <2>4
  <2> QED
    BY <2>4, <2>5 DEF Names
<1> QED
  BY <1>2, <1>3

GivesTime(pattern) == Names(pattern, "time_local") \/ Names(pattern, "msec")
GivesUri(pattern) == Names(pattern, "request_uri") \/ Names(pattern, "uri")
GivesRequest(pattern) ==
    \/ Names(pattern, "request")
    \/ Names(pattern, "request_method") /\ GivesUri(pattern)

\* The URIs and the hosts that a pattern has for a request.
UrisOf(pattern, r) ==
    {u \in {r.request[2], r.uri} :
       \/ u = r.uri /\ Names(pattern, "uri")
       \/ u = r.request[2] /\ (Names(pattern, "request") \/ Names(pattern, "request_uri"))}
HostsOf(pattern) == {v \in HostVariables : Names(pattern, v)}

FieldsOf(e, pattern, r) ==
    /\ DOMAIN e = DOMAIN NoEntry
    /\ Names(pattern, "remote_addr") => e.addr = r.addr
    /\ Names(pattern, "status") => e.status = r.status
    /\ e.host \in IF HostsOf(pattern) = {} THEN {""} ELSE {r[v] : v \in HostsOf(pattern)}
    /\ e.time \in {NoEntry.time, r.time, Utc(r.time)}
    /\ GivesTime(pattern) => e.time \in {r.time, Utc(r.time)}
    /\ GivesRequest(pattern) /\ Len(r.request) = 3 =>
         /\ e.method = r.request[1]
         /\ e.path \in {u.path : u \in UrisOf(pattern, r)}
         /\ e.query \in {u.query : u \in UrisOf(pattern, r)}

\* The path, or the query, is that of one of the URIs.
LEMMA UriSet ==
    ASSUME NEW pattern \in Seq(STRING), NEW r, NEW f \in {"path", "query"},
           GivesRequest(pattern), Len(r.request) = 3
    PROVE  \E u \in UrisOf(pattern, r) : SetFields(pattern, r)[f] = u[f]
<1> DEFINE s == SetFields(pattern, r)
           \* what each variable says of the URI
           Of(v) == IF v = "uri" THEN r.uri ELSE r.request[2]
<1>1. f \in DOMAIN NoEntry /\ NoEntry[f] = ""
  <2>1. CASE f = "path"
    BY <2>1 DEF NoEntry
  <2>2. CASE f = "query"
    BY <2>2 DEF NoEntry
  <2> QED
    BY <2>1, <2>2
<1>2. ASSUME NEW v, v \in {"request", "request_uri", "uri"}
      PROVE  /\ f \in DOMAIN Assigned(v, r) => Assigned(v, r)[f] = Of(v)[f]
             /\ f \notin DOMAIN Assigned(v, r) => Of(v)[f] = ""
  <2>1. CASE v = "request"
    <3>1. Assigned(v, r) = RequestFields(r.request)
      BY <2>1, AssignedBy
    <3> QED
      BY <2>1, <3>1, RequestReads
  <2>2. CASE v = "request_uri"
    <3>1. Assigned(v, r) = UriFields(Uri(r.request))
      BY <2>2, AssignedBy
    <3>2. Uri(r.request) = r.request[2]
      BY DEF Uri
    <3> QED
      BY <2>2, <3>1, <3>2, UriReads
  <2>3. CASE v = "uri"
    <3>1. Assigned(v, r) = UriFields(r.uri)
      BY <2>3, AssignedBy
    <3> QED
      BY <2>3, <3>1, UriReads
  <2> QED
    BY <1>2, <2>1, <2>2, <2>3
<1>3. ASSUME NEW v, v \in {"request", "request_uri", "uri"}, Names(pattern, v)
      PROVE  Of(v) \in UrisOf(pattern, r)
  BY <1>3 DEF UrisOf
<1>4. PICK w : w \in {"request", "request_uri", "uri"} /\ Names(pattern, w)
  BY DEF GivesRequest, GivesUri
<1> HIDE DEF s, Of
<1>5. CASE /\ s[f] = NoEntry[f]
           /\ \A v : Names(pattern, v) => f \notin DOMAIN Assigned(v, r)
  <2>1. Of(w)[f] = "" /\ Of(w) \in UrisOf(pattern, r)
    BY <1>2, <1>3, <1>4, <1>5
  <2> QED
    BY <1>1, <1>5, <2>1 DEF s
<1>6. CASE \E v : /\ Names(pattern, v) /\ f \in DOMAIN Assigned(v, r)
                  /\ s[f] = Assigned(v, r)[f]
  <2>1. PICK v : /\ Names(pattern, v) /\ f \in DOMAIN Assigned(v, r)
                 /\ s[f] = Assigned(v, r)[f]
    BY <1>6
  <2>2. v \in {"request", "request_uri", "uri"}
    BY <2>1, AssignedBy
  <2>3. Of(v) \in UrisOf(pattern, r) /\ s[f] = Of(v)[f]
    BY <1>2, <1>3, <2>1, <2>2
  <2> QED
    BY <2>3 DEF s
<1> QED
  BY <1>1, <1>5, <1>6, FieldSet DEF s

\* So is the method that of the request.
LEMMA MethodSet ==
    ASSUME NEW pattern \in Seq(STRING), NEW r, GivesRequest(pattern), Len(r.request) = 3
    PROVE  SetFields(pattern, r).method = r.request[1]
<1> DEFINE s == SetFields(pattern, r)
<1>1. "method" \in DOMAIN NoEntry /\ NoEntry.method = ""
  BY DEF NoEntry
<1>2. ASSUME NEW v, v \in {"request", "request_method"}
      PROVE  /\ "method" \in DOMAIN Assigned(v, r) => Assigned(v, r).method = r.request[1]
             /\ "method" \notin DOMAIN Assigned(v, r) => r.request[1] = ""
  <2>1. CASE v = "request"
    <3>1. Assigned(v, r) = RequestFields(r.request)
      BY <2>1, AssignedBy
    <3> QED
      BY <3>1, RequestReads
  <2>2. CASE v = "request_method"
    <3>1. Assigned(v, r) = [method |-> Method(r.request)]
      BY <2>2, AssignedBy
    <3>2. Method(r.request) = r.request[1]
      BY DEF Method
    <3> QED
      BY <3>1, <3>2
  <2> QED
    BY <1>2, <2>1, <2>2
<1>3. PICK w : w \in {"request", "request_method"} /\ Names(pattern, w)
  BY DEF GivesRequest
<1> HIDE DEF s
<1>4. CASE /\ s.method = NoEntry.method
           /\ \A v : Names(pattern, v) => "method" \notin DOMAIN Assigned(v, r)
  <2>1. r.request[1] = ""
    BY <1>2, <1>3, <1>4
  <2> QED
    BY <1>1, <1>4, <2>1 DEF s
<1>5. CASE \E v : /\ Names(pattern, v) /\ "method" \in DOMAIN Assigned(v, r)
                  /\ s.method = Assigned(v, r).method
  <2>1. PICK v : /\ Names(pattern, v) /\ "method" \in DOMAIN Assigned(v, r)
                 /\ s.method = Assigned(v, r).method
    BY <1>5
  <2>2. v \in {"request", "request_method"}
    BY <2>1, AssignedBy
  <2> QED
    BY <1>2, <2>1, <2>2 DEF s
<1> QED
  BY <1>1, <1>4, <1>5, FieldSet DEF s

LEMMA FieldsSet ==
    ASSUME NEW pattern \in Seq(STRING), NEW r
    PROVE  FieldsOf(SetFields(pattern, r), pattern, r)
<1> DEFINE s == SetFields(pattern, r)
           A(v) == Assigned(v, r)
           Set(f) == \/ /\ s[f] = NoEntry[f]
                        /\ \A v : Names(pattern, v) => f \notin DOMAIN A(v)
                     \/ \E v : /\ Names(pattern, v) /\ f \in DOMAIN A(v)
                               /\ s[f] = A(v)[f]
<1>1. DOMAIN s = DOMAIN NoEntry
  BY DEF SetFields
<1>2. /\ {"addr", "status", "host", "time"} \subseteq DOMAIN NoEntry
      /\ NoEntry.host = ""
  BY DEF NoEntry
<1>3. Set("addr") /\ Set("status") /\ Set("host") /\ Set("time")
  BY <1>2, FieldSet
<1>4. \A v : /\ "addr" \in DOMAIN A(v) <=> v = "remote_addr"
             /\ v = "remote_addr" => A(v).addr = r.addr
             /\ "status" \in DOMAIN A(v) <=> v = "status"
             /\ v = "status" => A(v).status = r.status
             /\ "host" \in DOMAIN A(v) <=> v \in HostVariables
             /\ v \in HostVariables => A(v).host = r[v]
             /\ "time" \in DOMAIN A(v) <=> v \in {"time_local", "msec"}
             /\ v = "time_local" => A(v).time = r.time
             /\ v = "msec" => A(v).time = Utc(r.time)
  BY AssignedBy
<1> HIDE DEF s, A
<1>5. Names(pattern, "remote_addr") => s.addr = r.addr
  BY <1>3, <1>4
<1>6. Names(pattern, "status") => s.status = r.status
  BY <1>3, <1>4
<1>7. s.host \in IF HostsOf(pattern) = {} THEN {""} ELSE {r[v] : v \in HostsOf(pattern)}
  <2>1. CASE /\ s.host = NoEntry.host
             /\ \A v : Names(pattern, v) => "host" \notin DOMAIN A(v)
    <3>1. HostsOf(pattern) = {}
      BY <1>4, <2>1 DEF HostsOf
    <3> QED
      BY <1>2, <2>1, <3>1
  <2>2. CASE \E v : Names(pattern, v) /\ "host" \in DOMAIN A(v) /\ s.host = A(v).host
    BY <1>4, <2>2 DEF HostsOf
  <2> QED
    BY <1>3, <2>1, <2>2
<1>8. s.time \in {NoEntry.time, r.time, Utc(r.time)}
  BY <1>3, <1>4
<1>9. GivesTime(pattern) => s.time \in {r.time, Utc(r.time)}
  BY <1>3, <1>4 DEF GivesTime
<1>10. ASSUME GivesRequest(pattern), Len(r.request) = 3
       PROVE  /\ s.method = r.request[1]
              /\ s.path \in {u.path : u \in UrisOf(pattern, r)}
              /\ s.query \in {u.query : u \in UrisOf(pattern, r)}
  BY <1>10, MethodSet, UriSet DEF s
<1> QED
  BY <1>1, <1>5, <1>6, <1>7, <1>8, <1>9, <1>10 DEF FieldsOf, s

\* The entry of a custom pattern is what the pattern sets, with the host of
\* the referer where no other is given.
WithHostOf(e, s, pattern, r) ==
    /\ e.host = IF s.host = "" /\ Names(pattern, "http_referer")
                THEN RefererHost(r.referer) ELSE s.host
    /\ e.addr = s.addr /\ e.status = s.status /\ e.time = s.time
    /\ e.method = s.method /\ e.path = s.path /\ e.query = s.query

LEMMA CustomReads ==
    ASSUME NEW pattern \in Seq(STRING), NEW r, ParseCustom(pattern, r) # NoEntry
    PROVE  /\ WithHostOf(ParseCustom(pattern, r), SetFields(pattern, r), pattern, r)
           /\ \A v : Names(pattern, v) => Fits(v, r)
<1> DEFINE s == SetFields(pattern, r)
           e == ParseCustom(pattern, r)
<1>1. Fields \subseteq DOMAIN s
  BY FieldsSet DEF FieldsOf, Fields, NoEntry
<1>2. e = IF s.host = "" /\ Names(pattern, "http_referer")
          THEN [s EXCEPT !.host = RefererHost(r.referer)] ELSE s
  BY DEF ParseCustom, Names
<1>6. \A v : Names(pattern, v) => Fits(v, r)
  BY DEF ParseCustom, Names
<1> HIDE DEF s, e
<1> DEFINE h == RefererHost(r.referer)
           x == [s EXCEPT !.host = h]
<1>3. /\ x.host = h
      /\ x.addr = s.addr /\ x.status = s.status /\ x.time = s.time
      /\ x.method = s.method /\ x.path = s.path /\ x.query = s.query
  BY <1>1 DEF Fields
<1> HIDE DEF x, h
<1>4. CASE s.host = "" /\ Names(pattern, "http_referer")
  <2>1. e = x
    BY <1>2, <1>4 DEF x, h
  <2>2. /\ e.host = h /\ e.addr = s.addr /\ e.status = s.status /\ e.time = s.time
        /\ e.method = s.method /\ e.path = s.path /\ e.query = s.query
    BY <1>3, <2>1
  <2> QED
    BY <1>4, <1>6, <2>2 DEF s, e, h, WithHostOf
<1>5. CASE ~(s.host = "" /\ Names(pattern, "http_referer"))
  <2>1. e = s
    BY <1>2, <1>5
  <2> QED
    BY <1>5, <1>6, <2>1 DEF s, e, WithHostOf
<1> QED
  BY <1>4, <1>5

\* The same instant, in UTC.
LEMMA UtcIsInstant ==
    ASSUME NEW t \in Timestamps
    PROVE  Utc(t) \in Timestamps /\ Instant(Utc(t)) = Instant(t)
<1> DEFINE i == t.wall - t.off
           u == [t EXCEPT !.wall = i, !.off = 0]
<1>1. i \in Int /\ t.late \in BOOLEAN
  BY DEF Timestamps
<1>2. u \in Timestamps /\ u.wall = i /\ u.off = 0
  <2> HIDE DEF i
  <2>1. t = [wall |-> t.wall, off |-> t.off, late |-> t.late]
    BY DEF Timestamps
  <2>2. u = [wall |-> i, off |-> 0, late |-> t.late]
    <3>1. DOMAIN t = {"wall", "off", "late"}
      BY <2>1
    <3>2. /\ DOMAIN u = DOMAIN t /\ u = [x \in DOMAIN u |-> u[x]]
          /\ u.wall = i /\ u.off = 0 /\ u.late = t.late
      BY <3>1
    <3> HIDE DEF u
    <3> QED
      BY <3>1, <3>2
  <2> HIDE DEF u
  <2> QED
    BY <1>1, <2>2 DEF Timestamps
<1>3. Utc(t) = u
  BY DEF Utc, Instant
<1> HIDE DEF u
<1>4. i - 0 = i
  BY <1>1
<1> QED
  BY <1>2, <1>3, <1>4 DEF Instant

\* The patterns that give an entry its address, its status, its time and its
\* request.
Complete(pattern) ==
    /\ Names(pattern, "remote_addr") /\ Names(pattern, "status")
    /\ GivesTime(pattern) /\ GivesRequest(pattern)

LEMMA CustomAttribution ==
    ASSUME NEW l, LineOK(l), l.format = "custom", Complete(l.engine), Entry(l) # NoEntry
    PROVE  SaysOf(Entry(l), l)
<1> DEFINE r == l.request
           p == l.engine
           s == SetFields(p, r)
           e == ParseCustom(p, r)
<1>1. Entry(l) = e /\ e # NoEntry
  BY DEF Entry
<1>0. p \in Seq(STRING)
  BY DEF LineOK, LogFormats
<1>2. FieldsOf(s, p, r)
  BY <1>0, FieldsSet
<1>3. WithHostOf(e, s, p, r) /\ \A v : Names(p, v) => Fits(v, r)
  <2> HIDE DEF p, r
  <2> QED
    BY <1>0, <1>1, CustomReads
<1>4. /\ HostsLogged(l) = IF HostsOf(p) # {} THEN {r[v] : v \in HostsOf(p)}
                          ELSE {IF Names(p, "http_referer") THEN RefererHost(r.referer) ELSE ""}
      /\ UrisLogged(l) = UrisOf(p, r)
  BY DEF HostsLogged, UrisLogged, HostsOf, UrisOf, Logs, Names
<1>5. r.time \in Timestamps
  BY DEF LineOK, RequestOK
<1>6. /\ Names(p, "remote_addr") /\ Names(p, "status")
      /\ GivesTime(p) /\ GivesRequest(p)
  BY DEF Complete
<1>10. \A v \in HostsOf(p) : r[v] # ""
  BY <1>3 DEF HostsOf, Fits, HostVariables
<1> HIDE DEF s, e, p
<1>7. Instant(s.time) = Instant(r.time)
  BY <1>2, <1>5, <1>6, UtcIsInstant DEF FieldsOf
<1>8. e.host \in HostsLogged(l)
  <2>1. CASE HostsOf(p) = {}
    BY <1>2, <1>3, <1>4, <2>1 DEF FieldsOf, WithHostOf
  <2>2. CASE HostsOf(p) # {}
    BY <1>2, <1>3, <1>4, <1>10, <2>2 DEF FieldsOf, WithHostOf
  <2> QED
    BY <2>1, <2>2
<1>9. SaysOf(e, l)
  BY <1>2, <1>3, <1>4, <1>6, <1>7, <1>8 DEF SaysOf, FieldsOf, WithHostOf
<1> QED
  BY <1>1, <1>9

\* Whatever parses has a time.
LEMMA EntryTime ==
    ASSUME NEW l, LineOK(l), Entry(l) # NoEntry
    PROVE  Entry(l).time \in Timestamps
<1>1. CASE Preset(l)
  <2> DEFINE line == Written(l)
  <2>1. /\ ParseApacheCommon(line).time = line.time
        /\ ParseCombined(line).time = line.time
        /\ ParseVHostCombined(line).time = line.time
        /\ ParseApacheVHostCombined(line).time = line.time
    BY ParsersRead DEF Reads
  <2>2. line.time \in Timestamps
    BY <1>1, QuotedOf DEF LineOK, RequestOK
  <2> HIDE DEF line
  <2>3. Entry(l) \in {ParseApacheCommon(line), ParseCombined(line),
                      ParseVHostCombined(line), ParseApacheVHostCombined(line)}
    BY <1>1, ParsedBy DEF line
  <2> QED
    BY <2>1, <2>2, <2>3
<1>2. CASE l.format = "custom"
  <2> DEFINE r == l.request
             p == l.engine
             s == SetFields(p, r)
             e == ParseCustom(p, r)
  <2>0. p \in Seq(STRING)
    BY <1>2 DEF LineOK, LogFormats
  <2>1. Entry(l) = e /\ e # NoEntry
    BY <1>2 DEF Entry
  <2>2. e.time = s.time
    <3> HIDE DEF p, r
    <3> QED
      BY <2>0, <2>1, CustomReads DEF WithHostOf
  <2>3. s.time \in {NoEntry.time, r.time, Utc(r.time)}
    BY <2>0, FieldsSet DEF FieldsOf
  <2>4. r.time \in Timestamps
    BY DEF LineOK, RequestOK
  <2>5. NoEntry.time \in Timestamps
    <3>1. NoEntry.time = [wall |-> 0, off |-> 0, late |-> FALSE]
      BY DEF NoEntry
    <3> QED
      BY <3>1 DEF Timestamps
  <2> QED
    BY <2>1, <2>2, <2>3, <2>4, <2>5, UtcIsInstant
<1> QED
  BY <1>1, <1>2 DEF LineOK, Preset

-----------------------------------------------------------------------------
(* The order of the list.                                                  *)

\* What is known of the rows.
LEMMA RowTypes ==
    ASSUME TablesTypeOK
    PROVE  /\ Len(rows) \in Nat /\ DOMAIN rows = 1..Len(rows)
           /\ \A i \in DOMAIN rows : rows[i].time \in Timestamps
           /\ IsFiniteSet(DOMAIN rows)
<1>1. \A e \in Entries : RowOf(e).time \in Timestamps
  BY EntryTime, TrafficsAssumption DEF TablesTypeOK, Entries, RowOf
<1>2. Len(rows) \in Nat /\ DOMAIN rows = 1..Len(rows)
  BY DEF TablesTypeOK
<1>3. \A i \in DOMAIN rows : rows[i] \in {RowOf(e) : e \in Entries}
  BY DEF TablesTypeOK
<1>4. IsFiniteSet(DOMAIN rows)
  BY <1>2, FS_Interval
<1> QED
  BY <1>1, <1>2, <1>3, <1>4

\* The texts of timestamps are in a total order.
LEMMA TextOrder ==
    ASSUME NEW s \in Timestamps, NEW t \in Timestamps, NEW u \in Timestamps
    PROVE  /\ ~Before(t, t)
           /\ t # u => Before(t, u) \/ Before(u, t)
           /\ Before(s, t) /\ Before(t, u) => Before(s, u)
<1>1. /\ s.wall \in Int /\ s.off \in Int /\ s.late \in BOOLEAN
      /\ t.wall \in Int /\ t.off \in Int /\ t.late \in BOOLEAN
      /\ u.wall \in Int /\ u.off \in Int /\ u.late \in BOOLEAN
  BY DEF Timestamps
<1>2. ~OffsetBefore(t.off, t.off)
  BY <1>1 DEF OffsetBefore
<1>3. t.off # u.off => OffsetBefore(t.off, u.off) \/ OffsetBefore(u.off, t.off)
  BY <1>1 DEF OffsetBefore
<1>4. OffsetBefore(s.off, t.off) /\ OffsetBefore(t.off, u.off) => OffsetBefore(s.off, u.off)
  BY <1>1 DEF OffsetBefore
<1>5. t.wall = u.wall /\ t.off = u.off /\ t.late = u.late => t = u
  BY DEF Timestamps
<1>6. ~Before(t, t)
  BY <1>1, <1>2 DEF Before
<1>7. t # u => Before(t, u) \/ Before(u, t)
  <2>1. CASE t.wall # u.wall
    BY <1>1, <2>1 DEF Before
  <2>2. CASE t.wall = u.wall /\ t.late # u.late
    <3>1. (t.late /\ ~u.late) \/ (~t.late /\ u.late)
      BY <1>1, <2>2
    <3> QED
      BY <2>2, <3>1 DEF Before
  <2>3. CASE t.wall = u.wall /\ t.late = u.late
    BY <1>3, <1>5, <2>3 DEF Before
  <2> QED
    BY <2>1, <2>2, <2>3
<1>8. ASSUME Before(s, t), Before(t, u) PROVE Before(s, u)
  <2>1. s.wall <= t.wall /\ t.wall <= u.wall
    BY <1>1, <1>8 DEF Before
  <2>2. CASE s.wall # u.wall
    <3>1. s.wall < u.wall
      BY <1>1, <2>1, <2>2
    <3> QED
      BY <3>1 DEF Before
  <2>3. CASE s.wall = u.wall
    <3>1. s.wall = t.wall /\ t.wall = u.wall /\ ~(s.wall < t.wall) /\ ~(t.wall < u.wall)
      BY <1>1, <2>1, <2>3
    <3>2. /\ (~s.late /\ t.late) \/ (s.late = t.late /\ OffsetBefore(s.off, t.off))
          /\ (~t.late /\ u.late) \/ (t.late = u.late /\ OffsetBefore(t.off, u.off))
      BY <1>8, <3>1 DEF Before
    <3>3. (~s.late /\ u.late) \/ (s.late = u.late /\ OffsetBefore(s.off, u.off))
      BY <1>4, <3>2
    <3> QED
      BY <2>3, <3>3 DEF Before
  <2> QED
    BY <2>2, <2>3
<1> QED
  BY <1>6, <1>7, <1>8

\* The list is in a total order.
LEMMA OrderIsTotal ==
    ASSUME TablesTypeOK, NEW i \in DOMAIN rows, NEW j \in DOMAIN rows, NEW k \in DOMAIN rows
    PROVE  /\ ~Ahead(i, i)
           /\ i # j => Ahead(i, j) \/ Ahead(j, i)
           /\ Ahead(i, j) /\ Ahead(j, k) => Ahead(i, k)
<1>1. /\ i \in Int /\ j \in Int /\ k \in Int
      /\ rows[i].time \in Timestamps /\ rows[j].time \in Timestamps
      /\ rows[k].time \in Timestamps
  BY RowTypes
<1>2. ~Before(rows[i].time, rows[i].time)
  BY <1>1, TextOrder
<1>3. rows[i].time # rows[j].time =>
         Before(rows[i].time, rows[j].time) \/ Before(rows[j].time, rows[i].time)
  BY <1>1, TextOrder
<1>4. Before(rows[k].time, rows[j].time) /\ Before(rows[j].time, rows[i].time) =>
         Before(rows[k].time, rows[i].time)
  BY <1>1, TextOrder
<1> QED
  BY <1>1, <1>2, <1>3, <1>4 DEF Ahead

\* A row's position is a number below the number of rows.
LEMMA PositionType ==
    ASSUME TablesTypeOK, NEW S \in SUBSET DOMAIN rows, NEW i \in DOMAIN rows
    PROVE  /\ IsFiniteSet(S) /\ IsFiniteSet({j \in S : Ahead(j, i)})
           /\ Cardinality(S) \in Nat /\ Position(S, i) \in Nat
           /\ i \in S => Position(S, i) < Cardinality(S)
<1> DEFINE A == {j \in S : Ahead(j, i)}
<1>1. IsFiniteSet(S) /\ A \in SUBSET S
  BY RowTypes, FS_Subset
<1>2. IsFiniteSet(A) /\ Cardinality(A) <= Cardinality(S) /\ (Cardinality(S) = Cardinality(A) => S = A)
  BY <1>1, FS_Subset
<1>3. Cardinality(S) \in Nat /\ Cardinality(A) \in Nat
  BY <1>1, <1>2, FS_CardinalityType
<1>4. i \notin A
  BY OrderIsTotal
<1>5. i \in S => A # S
  BY <1>4
<1> HIDE DEF A
<1> QED
  BY <1>1, <1>2, <1>3, <1>5 DEF Position, A

\* A row ahead of another has a lower position.
LEMMA AheadIsLower ==
    ASSUME TablesTypeOK, NEW S \in SUBSET DOMAIN rows, NEW i \in S, NEW j \in S, Ahead(i, j)
    PROVE  Position(S, i) < Position(S, j)
<1> DEFINE A == {k \in S : Ahead(k, i)}
           B == {k \in S : Ahead(k, j)}
<1>1. A \in SUBSET B /\ i \in B /\ i \notin A
  BY OrderIsTotal
<1>2. IsFiniteSet(A) /\ IsFiniteSet(B) /\ Cardinality(A) \in Nat /\ Cardinality(B) \in Nat
  BY PositionType DEF Position
<1>3. Cardinality(A) <= Cardinality(B) /\ (Cardinality(B) = Cardinality(A) => B = A)
  BY <1>1, <1>2, FS_Subset
<1> HIDE DEF A, B
<1>4. Cardinality(A) < Cardinality(B)
  BY <1>1, <1>2, <1>3
<1> QED
  BY <1>4 DEF Position, A, B

\* A page has no more rows than it has room for.
LEMMA PageFits ==
    ASSUME TablesTypeOK, NEW S \in SUBSET DOMAIN rows, NEW n \in Nat \ {0},
           NEW these \in SUBSET PageOf(S, n)
    PROVE  /\ PageOf(S, n) \subseteq S
           /\ Cardinality(these) \in Nat /\ Cardinality(these) <= PageSize
<1> DEFINE P == PageOf(S, n)
           o == Offset(n)
           I == o..(o + PageSize - 1)
           f == [i \in P |-> Position(S, i)]
<1>1. o \in Nat /\ PageSize \in Nat \ {0}
  BY LimitAssumption DEF Offset
<1>2. P \subseteq S /\ \A i \in P : Position(S, i) \in I
  BY DEF PageOf, FirstOfPage
<1>3. IsFiniteSet(I) /\ Cardinality(I) = PageSize
  <2> HIDE DEF o
  <2>1. o \in Int /\ o + PageSize - 1 \in Int /\ ~(o > o + PageSize - 1)
    BY <1>1
  <2> QED
    BY <1>1, <2>1, FS_Interval
<1>4. \A i, j \in P : Position(S, i) = Position(S, j) => i = j
  <2> SUFFICES ASSUME NEW i \in P, NEW j \in P, Position(S, i) = Position(S, j), i # j
               PROVE  FALSE
    OBVIOUS
  <2>1. i \in S /\ j \in S /\ i \in DOMAIN rows /\ j \in DOMAIN rows
    BY <1>2
  <2>2. Ahead(i, j) \/ Ahead(j, i)
    BY <2>1, OrderIsTotal
  <2>3. Position(S, i) \in Nat /\ Position(S, j) \in Nat
    BY <2>1, PositionType
  <2> QED
    BY <2>1, <2>2, <2>3, AheadIsLower
<1> HIDE DEF P, I
<1>5. f \in Injection(P, I)
  BY <1>2, <1>4 DEF Injection, IsInjective
<1>6. IsFiniteSet(P) /\ Cardinality(P) <= Cardinality(I)
  BY <1>3, <1>5, FS_Injection
<1>7. Cardinality(these) <= Cardinality(P) /\ IsFiniteSet(these)
  BY <1>6, FS_Subset DEF P
<1>8. Cardinality(P) \in Nat /\ Cardinality(these) \in Nat
  BY <1>6, <1>7, FS_CardinalityType
<1> QED
  BY <1>1, <1>2, <1>3, <1>6, <1>7, <1>8 DEF P

\* The first rows of a page are rows of it.
LEMMA FirstOnPage ==
    ASSUME NEW S, NEW n \in Nat \ {0}, NEW k \in 0..PageSize - 1
    PROVE  FirstOfPage(S, n, k) \subseteq PageOf(S, n)
<1>1. Offset(n) \in Nat /\ PageSize \in Nat
  BY LimitAssumption DEF Offset
<1>2. Offset(n)..(Offset(n) + k - 1) \subseteq Offset(n)..(Offset(n) + PageSize - 1)
  BY <1>1
<1> QED
  BY <1>2 DEF FirstOfPage, PageOf

-----------------------------------------------------------------------------
(* The inductive invariant.                                                *)

\* The last page that was loaded, or that comes before the one being loaded.
Behind == IF page.pc = "shown" THEN page.number ELSE page.number - 1

\* The rows that are owed match still, and those neither seen nor missed are
\* behind the pages up to this: rows that are inserted only move them further
\* down.
OwedInv ==
    /\ page.owed \subseteq Matching(page.filter)
    /\ \A i \in page.owed :
          i \in page.seen \cup page.missed
            \/ Position(Matching(page.filter), i) >= Behind * PageSize

\* The count is that of the rows the page is selected from.
CountedInv ==
    page.pc = "select" /\ ~page.stale =>
      page.counted = Cardinality(Matching(page.filter))

Inv == TypeOK /\ OwedInv /\ CountedInv /\ PagingSkipsNothing

\* The rows a filter lets through are rows.
LEMMA MatchingType ==
    ASSUME NEW f
    PROVE  Matching(f) \in SUBSET DOMAIN rows
BY DEF Matching

LEMMA InitInv ==
    ASSUME Init
    PROVE  Inv
<1>1. rows = <<>> /\ DOMAIN rows = {} /\ Len(rows) = 0 /\ hits = {} /\ traffic \in Traffics
  BY DEF Init
<1>2. /\ page.pc = "idle" /\ page.number = 1 /\ page.shown = {} /\ page.owed = {}
  BY DEF Init, NoPage
<1>3. Cardinality({}) = 0
  BY FS_EmptySet
<1>4. TablesTypeOK
  <2>1. traffic.rows \in Nat
    BY <1>1, TrafficsAssumption
  <2>2. rows \in Seq({RowOf(e) : e \in Entries})
    BY <1>1
  <2> QED
    BY <1>1, <2>1, <2>2 DEF TablesTypeOK
<1>5. PageTypeOK
  <2>1. page \in [pc : {"idle", "count", "select", "shown"},
                  number : Nat \ {0}, filter : Filters \cup {NoFilter},
                  counted : Nat, total : Nat, shown : SUBSET DOMAIN rows,
                  seen : SUBSET DOMAIN rows, owed : SUBSET DOMAIN rows,
                  missed : SUBSET DOMAIN rows, stale : BOOLEAN]
    BY DEF Init, NoPage
  <2> QED
    BY <1>2, <1>3, <2>1, LimitAssumption DEF PageTypeOK
<1>6. StatsTypeOK
  <2>1. stats.step = 0 /\ stats = NoStats /\ failures = 0
    BY DEF Init, NoStats
  <2>2. Len(Lists) \in Nat
    BY DEF Lists, Columns
  <2> QED
    BY <2>1, <2>2, LimitAssumption DEF StatsTypeOK
<1>7. OwedInv /\ CountedInv /\ PagingSkipsNothing
  BY <1>2 DEF OwedInv, CountedInv, PagingSkipsNothing
<1> QED
  BY <1>4, <1>5, <1>6, <1>7 DEF Inv, TypeOK

\* What a batch does to the tables.
LEMMA BatchAppends ==
    ASSUME TypeOK, Ingest
    PROVE  /\ TablesTypeOK' /\ DOMAIN rows \subseteq DOMAIN rows'
           /\ \A i \in DOMAIN rows : rows'[i] = rows[i]
           /\ UNCHANGED <<traffic, stats, failures>>
           /\ \E stale \in BOOLEAN :
                 /\ page' = [page EXCEPT !.stale = stale]
                 /\ page.stale => stale
                 /\ page.pc = "select" /\ ~stale =>
                       \A i \in DOMAIN rows' : Matches(page.filter, rows'[i]) => i \in DOMAIN rows
<1> DEFINE R == {RowOf(e) : e \in Entries}
           new(batch) == [i \in DOMAIN batch |-> RowOf(batch[i])]
<1>1. PICK batch \in UNION {[1..n -> Entries] : n \in 1..traffic.batch} :
        /\ Len(rows) + Len(new(batch)) <= traffic.rows
        /\ rows' = rows \o new(batch)
        /\ hits' = hits \cup UNION {HitsOf(batch[i], Len(rows) + i) : i \in DOMAIN batch}
        /\ page' = [page EXCEPT !.stale =
             @ \/ (page.pc = "select" /\ \E i \in DOMAIN new(batch) :
                                           Matches(page.filter, new(batch)[i]))]
  BY DEF Ingest
<1>0. PICK n \in 1..traffic.batch : batch \in [1..n -> Entries]
  OBVIOUS
<1>2. UNCHANGED <<traffic, stats, failures>>
  BY DEF Ingest
<1>3. traffic \in Traffics /\ n \in Nat /\ rows \in Seq(R) /\ hits \subseteq Keywords \X DOMAIN rows
  BY <1>0, TrafficsAssumption DEF TypeOK, TablesTypeOK
<1>4. PICK more : more = new(batch)
  OBVIOUS
<1>5. more \in Seq(R) /\ Len(more) = n /\ DOMAIN more = 1..n
  BY <1>0, <1>3, <1>4
<1>6. rows' = rows \o more /\ Len(rows) + Len(more) <= traffic.rows
  BY <1>1, <1>4
<1> HIDE DEF R
<1>7. Len(rows) \in Nat /\ DOMAIN rows = 1..Len(rows)
  BY <1>3
<1>8. /\ rows' \in Seq(R) /\ Len(rows') = Len(rows) + n
      /\ \A i \in 1..Len(rows) + n : rows'[i] = IF i <= Len(rows) THEN rows[i] ELSE more[i - Len(rows)]
  BY <1>3, <1>5, <1>6, ConcatProperties
<1>9. DOMAIN rows' = 1..Len(rows) + n
  BY <1>8
<1>10. /\ DOMAIN rows \subseteq DOMAIN rows'
       /\ \A i \in DOMAIN rows : rows'[i] = rows[i]
  BY <1>3, <1>7, <1>8, <1>9
<1>11. hits' \subseteq Keywords \X DOMAIN rows'
  <2>1. ASSUME NEW i \in DOMAIN batch
        PROVE  HitsOf(batch[i], Len(rows) + i) \subseteq Keywords \X DOMAIN rows'
    <3>1. i \in 1..n
      BY <1>0
    <3>2. Len(rows) + i \in DOMAIN rows'
      BY <1>3, <1>7, <1>9, <3>1
    <3> QED
      BY <3>2 DEF HitsOf
  <2> QED
    BY <1>1, <1>3, <1>10, <2>1
<1>12. TablesTypeOK'
  <2>1. rows' \in Seq({RowOf(e) : e \in Entries})'
    BY <1>2, <1>8 DEF Entries, R
  <2> QED
    BY <1>2, <1>3, <1>5, <1>6, <1>8, <1>11, <2>1 DEF TablesTypeOK
<1>13. \E stale \in BOOLEAN :
         /\ page' = [page EXCEPT !.stale = stale]
         /\ page.stale => stale
         /\ page.pc = "select" /\ ~stale =>
               \A i \in DOMAIN rows' : Matches(page.filter, rows'[i]) => i \in DOMAIN rows
  <2> DEFINE some == \E i \in DOMAIN more : Matches(page.filter, more[i])
             stale == page.stale \/ (page.pc = "select" /\ some)
  <2>1. page' = [page EXCEPT !.stale = stale]
    BY <1>1, <1>4
  <2>2. stale \in BOOLEAN /\ (page.stale => stale)
    BY DEF TypeOK, PageTypeOK
  <2>3. ASSUME page.pc = "select", ~stale, NEW i \in DOMAIN rows', i \notin DOMAIN rows
        PROVE  ~Matches(page.filter, rows'[i])
    <3>1. i - Len(rows) \in DOMAIN more /\ rows'[i] = more[i - Len(rows)]
      BY <1>3, <1>5, <1>7, <1>8, <1>9, <2>3
    <3> QED
      BY <2>3, <3>1
  <2> HIDE DEF stale
  <2> QED
    BY <2>1, <2>2, <2>3
<1> QED
  BY <1>2, <1>10, <1>12, <1>13

\* The first n pages are one page more than the first n - 1.
LEMMA PagesAdd ==
    ASSUME NEW n \in Nat \ {0}
    PROVE  /\ Offset(n) = (n - 1) * PageSize /\ n * PageSize = Offset(n) + PageSize
           /\ Offset(n) \in Nat /\ n * PageSize \in Nat /\ Offset(1) = 0
<1>1. PageSize \in Nat
  BY LimitAssumption
<1>2. (n - 1) * PageSize + PageSize = n * PageSize
  BY <1>1
<1> QED
  BY <1>1, <1>2 DEF Offset

LEMMA PagesMonotone ==
    ASSUME NEW m \in Nat, NEW n \in Nat, m <= n
    PROVE  /\ m * PageSize \in Nat /\ n * PageSize \in Nat
           /\ m * PageSize <= n * PageSize
<1>1. PageSize \in Nat
  BY LimitAssumption
<1>2. PICK d \in Nat : n = m + d
  <2>1. n - m \in Nat /\ n = m + (n - m)
    OBVIOUS
  <2> QED
    BY <2>1
<1>3. (m + d) * PageSize = m * PageSize + d * PageSize
  BY <1>1
<1>4. m * PageSize \in Nat /\ d * PageSize \in Nat
  BY <1>1
<1> QED
  BY <1>2, <1>3, <1>4

\* Rows that are inserted only move a row further down.
LEMMA RowsMoveDown ==
    ASSUME TypeOK, Ingest, NEW i \in DOMAIN rows
    PROVE  /\ Matching(page.filter) \subseteq Matching(page.filter)'
           /\ Position(Matching(page.filter), i) <= Position(Matching(page.filter), i)'
           /\ Position(Matching(page.filter), i) \in Nat
           /\ Position(Matching(page.filter), i)' \in Nat
<1>1. /\ TablesTypeOK' /\ DOMAIN rows \subseteq DOMAIN rows' /\ page'.filter = page.filter
      /\ \A j \in DOMAIN rows : rows'[j] = rows[j]
  BY BatchAppends DEF TypeOK, PageTypeOK
<1> DEFINE f == page.filter
           S == {j \in DOMAIN rows : Matches(f, rows[j])}
           T == {j \in DOMAIN rows' : Matches(f, rows'[j])}
           A == {j \in S : Ahead(j, i)}
           B == {j \in T : Ahead(j, i)'}
<1>2. Matching(f) = S /\ Matching(f)' = T /\ S \subseteq T
  BY <1>1 DEF Matching
<1>3. Position(Matching(f), i) = Cardinality(A) /\ Position(Matching(f), i)' = Cardinality(B)
  BY <1>2 DEF Position
<1>4. \A j \in S : Ahead(j, i) <=> Ahead(j, i)'
  BY <1>1 DEF Ahead, Before
<1>5. A \in SUBSET B
  BY <1>2, <1>4
<1>6. IsFiniteSet(B)
  <2>1. Len(rows') \in Nat /\ DOMAIN rows' = 1..Len(rows')
    BY <1>1 DEF TablesTypeOK
  <2>2. IsFiniteSet(DOMAIN rows')
    BY <2>1, FS_Interval
  <2>3. B \in SUBSET DOMAIN rows'
    OBVIOUS
  <2> QED
    BY <2>2, <2>3, FS_Subset
<1> HIDE DEF S, T, A, B
<1>7. Cardinality(A) <= Cardinality(B) /\ Cardinality(A) \in Nat /\ Cardinality(B) \in Nat
  BY <1>5, <1>6, FS_Subset, FS_CardinalityType
<1> QED
  BY <1>2, <1>3, <1>7

LEMMA IngestStep ==
    ASSUME Inv, Ingest
    PROVE  Inv'
<1>1. PICK stale \in BOOLEAN :
        /\ page' = [page EXCEPT !.stale = stale]
        /\ page.stale => stale
        /\ page.pc = "select" /\ ~stale =>
              \A i \in DOMAIN rows' : Matches(page.filter, rows'[i]) => i \in DOMAIN rows
  BY BatchAppends DEF Inv
<1>2. /\ TablesTypeOK' /\ DOMAIN rows \subseteq DOMAIN rows'
      /\ \A i \in DOMAIN rows : rows'[i] = rows[i]
      /\ UNCHANGED <<traffic, stats, failures>>
  BY BatchAppends DEF Inv
<1>3. /\ page'.pc = page.pc /\ page'.number = page.number /\ page'.filter = page.filter
      /\ page'.counted = page.counted /\ page'.total = page.total
      /\ page'.shown = page.shown /\ page'.seen = page.seen /\ page'.owed = page.owed
      /\ page'.missed = page.missed /\ page'.stale = stale /\ Behind' = Behind
  BY <1>1 DEF Inv, TypeOK, PageTypeOK, Behind
<1>4. PageTypeOK'
  BY <1>1, <1>2, <1>3 DEF Inv, TypeOK, PageTypeOK
<1>5. StatsTypeOK'
  BY <1>2 DEF Inv, TypeOK, StatsTypeOK
<1>7. OwedInv'
  <2>1. page.owed \subseteq DOMAIN rows
    BY DEF Inv, TypeOK, PageTypeOK
  <2>3. Behind * PageSize \in Nat
    BY LimitAssumption DEF Inv, TypeOK, PageTypeOK, Behind
  <2>4. page.owed \subseteq Matching(page.filter)'
    BY <2>1, RowsMoveDown DEF Inv, OwedInv
  <2>5. ASSUME NEW i \in page.owed, i \notin page.seen \cup page.missed
        PROVE  Position(Matching(page.filter), i)' >= Behind * PageSize
    <3>1. /\ Position(Matching(page.filter), i) <= Position(Matching(page.filter), i)'
          /\ Position(Matching(page.filter), i) \in Nat
          /\ Position(Matching(page.filter), i)' \in Nat
      BY <2>1, RowsMoveDown DEF Inv
    <3>2. Position(Matching(page.filter), i) >= Behind * PageSize
      BY <2>5 DEF Inv, OwedInv
    <3> QED
      BY <2>3, <3>1, <3>2
  <2> QED
    BY <1>3, <2>4, <2>5 DEF OwedInv
<1>8. CountedInv'
  <2> SUFFICES ASSUME page.pc = "select", ~stale
               PROVE  page.counted = Cardinality(Matching(page.filter)')
    BY <1>3 DEF CountedInv
  <2>1. Matching(page.filter)' = Matching(page.filter)
    BY <1>1, <1>2, <1>3 DEF Matching
  <2> QED
    BY <1>1, <2>1 DEF Inv, CountedInv
<1>9. PagingSkipsNothing'
  BY <1>1, <1>3 DEF Inv, PagingSkipsNothing, MorePages
<1> QED
  BY <1>2, <1>4, <1>5, <1>7, <1>8, <1>9 DEF Inv, TypeOK

\* Steps that leave the tables alone.
LEMMA TablesStay ==
    ASSUME TypeOK, UNCHANGED <<traffic, rows, hits>>
    PROVE  /\ TablesTypeOK' /\ DOMAIN rows' = DOMAIN rows
           /\ \A f : Matching(f)' = Matching(f)
           /\ \A S, i : Position(S, i)' = Position(S, i)
<1>1. TablesTypeOK' /\ DOMAIN rows' = DOMAIN rows
  BY DEF TypeOK, TablesTypeOK, Entries
<1>2. \A f : Matching(f)' = Matching(f)
  BY DEF Matching
<1>3. \A S, i : Position(S, i)' = Position(S, i)
  BY DEF Position, Ahead, Before
<1> QED
  BY <1>1, <1>2, <1>3

LEMMA OpenStep ==
    ASSUME Inv, OpenList
    PROVE  Inv'
<1>1. PICK f \in Filters :
        page' = [NoPage EXCEPT !.pc = "count", !.filter = f, !.total = page.total,
                               !.shown = page.shown, !.owed = Matching(f)]
  BY DEF OpenList
<1>2. UNCHANGED <<traffic, rows, hits, stats, failures>>
  BY DEF OpenList
<1> DEFINE S == Matching(f)
<1>3. S \in SUBSET DOMAIN rows
  BY MatchingType
<1>4. page' = [pc |-> "count", number |-> 1, filter |-> f, counted |-> 0,
               total |-> page.total, shown |-> page.shown, seen |-> {}, owed |-> S,
               missed |-> {}, stale |-> FALSE]
  BY <1>1 DEF NoPage
<1>5. Matching(f)' = S /\ \A T, i : Position(T, i)' = Position(T, i)
  BY <1>2, TablesStay DEF Inv
<1> HIDE DEF S
<1>6. PageTypeOK'
  BY <1>2, <1>3, <1>4 DEF Inv, TypeOK, PageTypeOK
<1>7. OwedInv'
  <2>1. Behind' * PageSize = 0 /\ page'.owed = S /\ page'.filter = f
    BY <1>4, LimitAssumption DEF Behind
  <2>2. Matching(page.filter)' = S
    BY <1>5, <2>1 DEF Matching
  <2>3. ASSUME NEW i \in S PROVE Position(S, i) >= 0
    <3>1. Position(S, i) \in Nat
      BY <1>3, PositionType DEF Inv, TypeOK
    <3> QED
      BY <3>1
  <2> QED
    BY <1>5, <2>1, <2>2, <2>3 DEF OwedInv
<1>8. CountedInv' /\ PagingSkipsNothing'
  BY <1>4 DEF CountedInv, PagingSkipsNothing
<1> QED
  BY <1>2, <1>6, <1>7, <1>8, TablesStay DEF Inv, TypeOK, StatsTypeOK

LEMMA CountStep ==
    ASSUME Inv, CountRows
    PROVE  Inv'
<1> DEFINE S == Matching(page.filter)
<1>1. /\ page.pc = "count" /\ UNCHANGED <<traffic, rows, hits, stats, failures>>
      /\ page' = [page EXCEPT !.pc = "select", !.stale = FALSE,
                              !.counted = Cardinality(S)]
  BY DEF CountRows
<1>2. Cardinality(S) \in Nat
  <2>1. S \in SUBSET DOMAIN rows /\ IsFiniteSet(DOMAIN rows)
    BY MatchingType, RowTypes DEF Inv, TypeOK
  <2> HIDE DEF S
  <2> QED
    BY <2>1, FS_Subset, FS_CardinalityType
<1>3. /\ page'.pc = "select" /\ page'.number = page.number /\ page'.filter = page.filter
      /\ page'.counted = Cardinality(S) /\ page'.seen = page.seen
      /\ page'.owed = page.owed /\ page'.missed = page.missed
  BY <1>1 DEF Inv, TypeOK, PageTypeOK
<1>4. Matching(page.filter)' = S /\ \A T, i : Position(T, i)' = Position(T, i)
  BY <1>1, <1>3, TablesStay DEF Inv, Matching
<1>5. Behind' = Behind
  BY <1>1, <1>3 DEF Behind
<1> HIDE DEF S
<1>6. PageTypeOK'
  BY <1>1, <1>2 DEF Inv, TypeOK, PageTypeOK
<1>7. OwedInv'
  BY <1>3, <1>4, <1>5 DEF Inv, OwedInv, S
<1>8. CountedInv' /\ PagingSkipsNothing'
  BY <1>3, <1>4 DEF CountedInv, PagingSkipsNothing
<1> QED
  BY <1>1, <1>6, <1>7, <1>8, TablesStay DEF Inv, TypeOK, StatsTypeOK

\* What is owed and not on the pages up to the one being loaded is behind it.
LEMMA NotOnPage ==
    ASSUME Inv, page.pc \in {"count", "select"}, NEW i \in page.owed,
           i \notin page.seen \cup page.missed,
           i \notin PageOf(Matching(page.filter), page.number)
    PROVE  /\ i \in Matching(page.filter)
           /\ Position(Matching(page.filter), i) >= page.number * PageSize
<1> DEFINE n == page.number
           S == Matching(page.filter)
<1>1. TablesTypeOK /\ n \in Nat \ {0} /\ S \in SUBSET DOMAIN rows /\ Behind = n - 1
  BY MatchingType DEF Inv, TypeOK, PageTypeOK, Behind
<1>2. i \in S /\ Position(S, i) >= (n - 1) * PageSize
  BY <1>1 DEF Inv, OwedInv
<1>3. /\ Offset(n) = (n - 1) * PageSize /\ n * PageSize = Offset(n) + PageSize
      /\ Offset(n) \in Nat /\ PageSize \in Nat
  BY <1>1, PagesAdd, LimitAssumption
<1>4. Position(S, i) \notin Offset(n)..(Offset(n) + PageSize - 1)
  BY <1>2 DEF PageOf, FirstOfPage
<1>5. Position(S, i) \in Nat
  BY <1>1, <1>2, PositionType
<1> QED
  BY <1>2, <1>3, <1>4, <1>5

\* An answer with a page, whole or broken off.
LEMMA ShowStep ==
    ASSUME Inv, page.pc = "select", UNCHANGED <<traffic, rows, hits, stats>>,
           NEW these \in SUBSET PageOf(Matching(page.filter), page.number), Show(these),
           failures' \in 0..MaxFailures
    PROVE  Inv'
<1> DEFINE n == page.number
           S == Matching(page.filter)
           P == PageOf(S, n)
<1>1. page' = [page EXCEPT !.pc = "shown", !.total = page.counted, !.shown = these,
                           !.seen = @ \cup these, !.missed = @ \cup (P \ these)]
  BY DEF Show
<1>2. /\ TablesTypeOK /\ n \in Nat \ {0} /\ page.seen \in SUBSET DOMAIN rows
      /\ page.missed \in SUBSET DOMAIN rows /\ page.counted \in Nat
  BY DEF Inv, TypeOK, PageTypeOK
<1>3. S \in SUBSET DOMAIN rows
  BY MatchingType
<1>4. P \subseteq S /\ Cardinality(these) <= PageSize
  BY <1>2, <1>3, PageFits
<1>5. /\ page'.pc = "shown" /\ page'.number = n /\ page'.filter = page.filter
      /\ page'.total = page.counted /\ page'.shown = these
      /\ page'.seen = page.seen \cup these /\ page'.missed = page.missed \cup (P \ these)
      /\ page'.owed = page.owed /\ page'.stale = page.stale
  BY <1>1 DEF Inv, TypeOK, PageTypeOK
<1>6. Matching(page.filter)' = S /\ \A T, i : Position(T, i)' = Position(T, i)
  BY <1>5, TablesStay DEF Inv, Matching
<1>7. Behind' = n
  BY <1>5 DEF Behind
<1>8. these \subseteq P
  OBVIOUS
<1>9. ASSUME NEW i \in page.owed, i \notin page'.seen \cup page'.missed
      PROVE  i \in S /\ Position(S, i) >= n * PageSize
  BY <1>5, <1>8, <1>9, NotOnPage
<1> HIDE DEF P, S
<1>10. PageTypeOK'
  <2>1. /\ these \in SUBSET DOMAIN rows' /\ page.seen \cup these \in SUBSET DOMAIN rows'
        /\ page.missed \cup (P \ these) \in SUBSET DOMAIN rows'
    BY <1>2, <1>3, <1>4, <1>8
  <2> QED
    BY <1>1, <1>2, <1>4, <1>5, <2>1 DEF Inv, TypeOK, PageTypeOK
<1>11. OwedInv'
  <2>1. page.owed \subseteq S
    BY DEF Inv, OwedInv, S
  <2> QED
    BY <1>5, <1>6, <1>7, <1>9, <2>1 DEF OwedInv
<1>12. CountedInv'
  BY <1>5 DEF CountedInv
<1>13. PagingSkipsNothing'
  <2> SUFFICES ASSUME ~(n * PageSize < page.counted), ~page.stale,
                      NEW i \in page.owed, i \notin page'.seen \cup page'.missed
               PROVE  FALSE
    BY <1>5 DEF PagingSkipsNothing, MorePages
  <2>1. page.counted = Cardinality(S)
    BY DEF Inv, CountedInv, S
  <2>2. i \in S /\ Position(S, i) >= n * PageSize
    BY <1>9
  <2>3. Position(S, i) < Cardinality(S) /\ Cardinality(S) \in Nat /\ Position(S, i) \in Nat
    BY <1>2, <1>3, <2>2, PositionType
  <2>4. n * PageSize \in Nat
    BY <1>2, PagesAdd
  <2> QED
    BY <2>1, <2>2, <2>3, <2>4
<1> QED
  BY <1>10, <1>11, <1>12, <1>13, TablesStay DEF Inv, TypeOK, StatsTypeOK

LEMMA SelectStep ==
    ASSUME Inv, SelectPage \/ SelectBreaksOff
    PROVE  Inv'
<1>1. failures \in 0..MaxFailures /\ MaxFailures \in Nat /\ page.number \in Nat \ {0}
  BY LimitAssumption DEF Inv, TypeOK, StatsTypeOK, PageTypeOK
<1>2. CASE SelectPage
  <2>1. PICK these : these = PageOf(Matching(page.filter), page.number)
    OBVIOUS
  <2>2. /\ page.pc = "select" /\ Show(these)
        /\ UNCHANGED <<traffic, rows, hits, stats, failures>>
    BY <1>2, <2>1 DEF SelectPage
  <2> QED
    BY <1>1, <2>1, <2>2, ShowStep
<1>3. CASE SelectBreaksOff
  <2>1. PICK k \in 0..PageSize - 1 :
          Show(FirstOfPage(Matching(page.filter), page.number, k))
    BY <1>3 DEF SelectBreaksOff
  <2>2. PICK these : these = FirstOfPage(Matching(page.filter), page.number, k)
    OBVIOUS
  <2>3. these \subseteq PageOf(Matching(page.filter), page.number) /\ Show(these)
    BY <1>1, <2>1, <2>2, FirstOnPage
  <2>4. /\ page.pc = "select" /\ failures < MaxFailures /\ failures' = failures + 1
        /\ UNCHANGED <<traffic, rows, hits, stats>>
    BY <1>3 DEF SelectBreaksOff
  <2>5. failures' \in 0..MaxFailures
    BY <1>1, <2>4
  <2> QED
    BY <2>3, <2>4, <2>5, ShowStep
<1> QED
  BY <1>2, <1>3

LEMMA FailStep ==
    ASSUME Inv, LoadFails
    PROVE  Inv'
<1> DEFINE n == page.number
           S == Matching(page.filter)
           P == PageOf(S, n)
<1>1. /\ page.pc \in {"count", "select"} /\ UNCHANGED <<traffic, rows, hits, stats>>
      /\ page' = [page EXCEPT !.pc = "shown", !.stale = TRUE, !.missed = @ \cup P]
      /\ failures < MaxFailures /\ failures' = failures + 1
  BY DEF LoadFails
<1>2. /\ TablesTypeOK /\ n \in Nat \ {0} /\ page.missed \in SUBSET DOMAIN rows
  BY DEF Inv, TypeOK, PageTypeOK
<1>3. P \subseteq S /\ S \in SUBSET DOMAIN rows
  BY MatchingType DEF PageOf, FirstOfPage
<1>4. /\ page'.pc = "shown" /\ page'.number = n /\ page'.filter = page.filter
      /\ page'.shown = page.shown /\ page'.seen = page.seen
      /\ page'.missed = page.missed \cup P /\ page'.owed = page.owed /\ page'.stale = TRUE
  BY <1>1 DEF Inv, TypeOK, PageTypeOK
<1>5. Matching(page.filter)' = S /\ \A T, i : Position(T, i)' = Position(T, i)
  BY <1>1, <1>4, TablesStay DEF Inv, Matching
<1>6. Behind' = n
  BY <1>4 DEF Behind
<1>7. ASSUME NEW i \in page.owed, i \notin page'.seen \cup page'.missed
      PROVE  Position(S, i) >= n * PageSize
  BY <1>1, <1>4, <1>7, NotOnPage
<1> HIDE DEF P, S
<1>8. PageTypeOK'
  <2>1. page.missed \cup P \in SUBSET DOMAIN rows'
    BY <1>1, <1>2, <1>3
  <2> QED
    BY <1>1, <1>4, <2>1 DEF Inv, TypeOK, PageTypeOK
<1>9. OwedInv'
  <2>1. page.owed \subseteq S
    BY DEF Inv, OwedInv, S
  <2> QED
    BY <1>4, <1>5, <1>6, <1>7, <2>1 DEF OwedInv
<1>10. CountedInv' /\ PagingSkipsNothing'
  BY <1>4 DEF CountedInv, PagingSkipsNothing
<1>11. StatsTypeOK'
  BY <1>1, LimitAssumption DEF Inv, TypeOK, StatsTypeOK
<1> QED
  BY <1>1, <1>8, <1>9, <1>10, <1>11, TablesStay DEF Inv, TypeOK

LEMMA TurnStep ==
    ASSUME Inv, NextPage \/ PrevPage
    PROVE  Inv'
<1> DEFINE S == Matching(page.filter)
<1>1. /\ page.pc = "shown" /\ UNCHANGED <<traffic, rows, hits, stats, failures>>
      /\ \E n \in {page.number - 1, page.number + 1} :
            n # 0 /\ page' = [page EXCEPT !.pc = "count", !.number = n]
  <2>1. page.number \in Nat
    BY DEF Inv, TypeOK, PageTypeOK
  <2> QED
    BY <2>1 DEF NextPage, PrevPage
<1>2. PICK n \in {page.number - 1, page.number + 1} :
        n # 0 /\ page' = [page EXCEPT !.pc = "count", !.number = n]
  BY <1>1
<1>3. page.number \in Nat \ {0} /\ n \in Nat \ {0} /\ PageSize \in Nat
  BY <1>2, LimitAssumption DEF Inv, TypeOK, PageTypeOK
<1>4. /\ page'.pc = "count" /\ page'.number = n /\ page'.filter = page.filter
      /\ page'.seen = page.seen /\ page'.missed = page.missed /\ page'.owed = page.owed
  BY <1>2 DEF Inv, TypeOK, PageTypeOK
<1>5. Behind = page.number /\ Behind' = n - 1
  BY <1>1, <1>4 DEF Behind
<1>6. Matching(page.filter)' = S /\ \A T, i : Position(T, i)' = Position(T, i)
  BY <1>1, <1>4, TablesStay DEF Inv, Matching
<1>7. PageTypeOK'
  BY <1>1, <1>2, <1>3 DEF Inv, TypeOK, PageTypeOK
<1>8. OwedInv'
  <2>1. n - 1 \in Nat /\ n - 1 <= page.number
    BY <1>2, <1>3
  <2>2. /\ Behind' * PageSize <= Behind * PageSize
        /\ Behind' * PageSize \in Nat /\ Behind * PageSize \in Nat
    BY <1>3, <1>5, <2>1, PagesMonotone
  <2>3. page.owed \subseteq S /\ S \in SUBSET DOMAIN rows
    BY MatchingType DEF Inv, OwedInv
  <2> HIDE DEF S
  <2>4. ASSUME NEW i \in page.owed, i \notin page.seen \cup page.missed
        PROVE  Position(S, i) >= Behind' * PageSize
    <3>1. Position(S, i) >= Behind * PageSize
      BY <2>4 DEF Inv, OwedInv, S
    <3>2. Position(S, i) \in Nat
      BY <2>3, PositionType DEF Inv, TypeOK
    <3> QED
      BY <2>2, <3>1, <3>2
  <2> QED
    BY <1>4, <1>6, <2>3, <2>4 DEF OwedInv
<1>9. CountedInv' /\ PagingSkipsNothing'
  BY <1>4 DEF CountedInv, PagingSkipsNothing
<1> QED
  BY <1>1, <1>7, <1>8, <1>9, TablesStay DEF Inv, TypeOK, StatsTypeOK

\* The statistics only read.
LEMMA StatsStep ==
    ASSUME Inv, OpenStats \/ RunStatement \/ StatementFails \/ UNCHANGED vars
    PROVE  Inv'
<1>1. UNCHANGED <<traffic, rows, hits, page>>
  BY DEF OpenStats, RunStatement, StatementFails, vars
<1>2. StatsTypeOK'
  <2>1. Len(Lists) \in Nat /\ DOMAIN Lists = 1..Len(Lists)
    BY DEF Lists, Columns
  <2>2. /\ DOMAIN stats = DOMAIN NoStats /\ stats.step \in 0..Len(Lists) + 1
        /\ failures \in 0..MaxFailures /\ "step" \in DOMAIN stats
    BY DEF Inv, TypeOK, StatsTypeOK, NoStats
  <2>3. CASE OpenStats
    <3>1. DOMAIN stats' = DOMAIN NoStats /\ stats'.step = 1 /\ failures' = failures
      BY <2>3 DEF OpenStats, NoStats
    <3> QED
      BY <2>1, <2>2, <3>1 DEF StatsTypeOK
  <2>4. CASE RunStatement
    <3>1. /\ DOMAIN stats' = DOMAIN stats /\ stats'.step = stats.step + 1
          /\ failures' = failures /\ stats.step \in DOMAIN Lists
      BY <2>2, <2>4 DEF RunStatement
    <3> QED
      BY <2>1, <2>2, <3>1 DEF StatsTypeOK
  <2>5. CASE StatementFails
    <3>1. /\ DOMAIN stats' = DOMAIN stats /\ stats'.step = stats.step + 1
          /\ failures' = failures + 1 /\ failures < MaxFailures
          /\ stats.step \in DOMAIN Lists
      BY <2>2, <2>5 DEF StatementFails
    <3>2. failures' \in 0..MaxFailures
      BY <2>2, <3>1, LimitAssumption
    <3> QED
      BY <2>1, <2>2, <3>1, <3>2 DEF StatsTypeOK
  <2>6. CASE UNCHANGED vars
    BY <2>2, <2>6 DEF StatsTypeOK, vars
  <2> QED
    BY <2>3, <2>4, <2>5, <2>6
<1>3. PageTypeOK' /\ Behind' = Behind
  BY <1>1 DEF Inv, TypeOK, PageTypeOK, Behind
<1>4. /\ Matching(page.filter)' = Matching(page.filter)
      /\ \A S, i : Position(S, i)' = Position(S, i)
  BY <1>1, TablesStay DEF Inv, Matching
<1>5. OwedInv' /\ CountedInv' /\ PagingSkipsNothing'
  BY <1>1, <1>3, <1>4 DEF Inv, OwedInv, CountedInv, PagingSkipsNothing, MorePages
<1> QED
  BY <1>1, <1>2, <1>3, <1>5, TablesStay DEF Inv, TypeOK

LEMMA Invariant == Spec => []Inv
<1>1. Init => Inv
  BY InitInv
<1>2. Inv /\ [Next]_vars => Inv'
  BY IngestStep, OpenStep, CountStep, SelectStep, FailStep, TurnStep, StatsStep DEF Next
<1> QED
  BY <1>1, <1>2, PTL DEF Spec

-----------------------------------------------------------------------------
(* The theorems.                                                           *)

\* The tables and both readers have their types through every interleaving of
\* batches, pages, statistics and failing statements.
THEOREM TypeCorrect == Spec => []TypeOK
<1>1. Inv => TypeOK
  BY DEF Inv
<1> QED
  BY <1>1, Invariant, PTL

\* Whoever pages to the end of the list, forth and back, has seen every request
\* that matched when it was opened, however many batches were inserted in
\* between, but for those of pages that failed or broke off: handleRequests and
\* the page buttons count in pages, and rows only move down.
THEOREM NothingIsSkipped == Spec => []PagingSkipsNothing
<1>1. Inv => PagingSkipsNothing
  BY DEF Inv
<1> QED
  BY <1>1, Invariant, PTL

\* The quotient of a number by the length of a day is the day it lies in.
LEMMA DayOf ==
    ASSUME NEW t \in Int, NEW d \in Int
    PROVE  /\ t \div DayLength \in Int
           /\ t \div DayLength = d <=> d * DayLength <= t /\ t < (d + 1) * DayLength
<1> DEFINE L == DayLength
           q == t \div L
<1>1. L \in Nat \ {0}
  BY DayAssumption
<1>2. q \in Int /\ q * L <= t /\ t < (q + 1) * L
  BY <1>1
<1> HIDE DEF q, L
<1>3. d < q => (d + 1) * L <= q * L
  BY <1>1, <1>2
<1>4. q < d => (q + 1) * L <= d * L
  BY <1>1, <1>2
<1>5. /\ d * L \in Int /\ (d + 1) * L \in Int /\ q * L \in Int /\ (q + 1) * L \in Int
  BY <1>1, <1>2
<1>6. q = d <=> d * L <= t /\ t < (d + 1) * L
  <2>1. CASE q = d
    BY <1>2, <2>1
  <2>2. CASE d < q
    BY <1>2, <1>3, <1>5, <2>2
  <2>3. CASE q < d
    BY <1>2, <1>4, <1>5, <2>3
  <2> QED
    BY <1>2, <2>1, <2>2, <2>3
<1> QED
  BY <1>2, <1>6 DEF q, L

\* A day as a filter and a day of the histogram hold the same requests, but
\* for those of other offsets and in the last second of a day.
THEOREM DaysMatch == Spec => []DaysAgree
<1>1. TypeOK => DaysAgree
  <2> SUFFICES ASSUME TypeOK, NEW i \in DOMAIN rows,
                      rows[i].time.off = 0,
                      ~(rows[i].time.late /\ rows[i].time.wall = EndOfDay(Day(rows[i].time))),
                      NEW d \in 0..Day(rows[i].time) + 1
               PROVE  From(d, rows[i].time) /\ Until(d, rows[i].time)
                        <=> UtcDay(rows[i].time) = d
    BY DEF DaysAgree
  <2> DEFINE t == rows[i].time
             w == t.wall
  <2>1. w \in Int /\ t.off = 0 /\ t \in Timestamps
    BY RowTypes DEF TypeOK, Timestamps
  <2>2. Day(t) \in Int /\ d \in Int
    BY <2>1, DayOf DEF Day
  <2>3. UtcDay(t) = w \div DayLength /\ Day(t) = w \div DayLength
    BY <2>1 DEF UtcDay, Day, Instant
  <2>4. UtcDay(t) = d <=> d * DayLength <= w /\ w < (d + 1) * DayLength
    BY <2>1, <2>2, <2>3, DayOf
  <2>5. d * DayLength \in Int /\ (d + 1) * DayLength \in Int
    BY <2>2, DayAssumption
  <2>6. EndOfDay(d) = (d + 1) * DayLength - 1
    BY DEF EndOfDay
  <2>7. UtcDay(t) = d => EndOfDay(Day(t)) = EndOfDay(d)
    BY <2>3
  <2>8. ~(t.late /\ w = EndOfDay(Day(t)))
    OBVIOUS
  <2>9. From(d, t) <=> w >= d * DayLength
    BY DEF From
  <2>10. Until(d, t) <=> w < EndOfDay(d) \/ (w = EndOfDay(d) /\ ~t.late)
    BY <2>1 DEF Until
  <2> HIDE DEF t, w
  <2>11. UtcDay(t) = d <=> w >= d * DayLength /\ (w < EndOfDay(d) \/ w = EndOfDay(d))
    BY <2>1, <2>4, <2>5, <2>6
  <2>12. UtcDay(t) = d => ~(t.late /\ w = EndOfDay(d))
    BY <2>7, <2>8
  <2>13. From(d, t) /\ Until(d, t) <=> UtcDay(t) = d
    BY <2>9, <2>10, <2>11, <2>12
  <2> QED
    BY <2>13 DEF t
<1> QED
  BY <1>1, TypeCorrect, PTL

\* Whatever the traffic, a whole line that its source's preset engine is for
\* is stored, unless its request is empty or its user name has a space.
THEOREM WholeLinesAreKept == Spec => []NoLineIsLost
<1>1. TypeOK => NoLineIsLost
  <2> SUFFICES ASSUME TypeOK, NEW l \in traffic.lines,
                      l.format \in LogFormats, l.format \in ReadBy(l.engine),
                      l.request.request # <<>>, ~Cut(l), ~TwoWords(l)
               PROVE  Entry(l) # NoEntry
    BY DEF NoLineIsLost
  <2>1. LineOK(l)
    BY TrafficsAssumption DEF TypeOK, TablesTypeOK
  <2> QED
    BY <2>1, WholeLineParses DEF Preset
<1> QED
  BY <1>1, TypeCorrect, PTL

\* Every custom pattern of a source is complete: what a pattern leaves out is
\* left empty in the entry, so that only a complete one can attribute it.
CompletePatterns ==
    \A T \in Traffics : \A l \in T.lines : l.format = "custom" => Complete(l.engine)

\* For every line, whole or cut, in a preset format or of a complete custom
\* pattern, read by whichever engine: what is stored is what the server did,
\* but for the named cases.
THEOREM EntriesAreAttributed ==
    ASSUME CompletePatterns
    PROVE  Spec => []AttributedAsServed
<1>1. CompletePatterns /\ TypeOK => AttributedAsServed
  <2> SUFFICES ASSUME CompletePatterns, TypeOK, NEW l \in traffic.lines, Entry(l) # NoEntry
               PROVE  \/ SaysOf(Entry(l), l)
                      \/ /\ TwoWords(l) /\ l.format = "combined"
                         /\ l.engine \in {"auto", "nginx:vhost_combined", "apache:vhost_combined"}
                      \/ l.format = "vhost:port" /\ l.engine \in {"auto", "nginx:vhost_combined"}
                      \/ Cut(l) /\ l.engine \in {"auto", "apache:common"}
    BY DEF AttributedAsServed
  <2>1. LineOK(l) /\ (l.format = "custom" => Complete(l.engine))
    BY TrafficsAssumption DEF TypeOK, TablesTypeOK, CompletePatterns
  <2>2. CASE l.format = "custom"
    BY <2>1, <2>2, CustomAttribution
  <2>3. CASE l.format # "custom"
    <3>1. Preset(l)
      BY <2>1, <2>3 DEF LineOK, Preset
    <3> QED
      BY <3>1, Attribution
  <2> QED
    BY <2>2, <2>3
<1> QED
  BY <1>1, TypeCorrect, PTL

-----------------------------------------------------------------------------
(* Sums over lists of groups.                                              *)

\* Sum is the table of MapThenFoldSet at the whole domain.
LEMMA SumIsTable ==
    ASSUME NEW counts
    PROVE  Sum(counts) =
           (CHOOSE g : g = [s \in SUBSET DOMAIN counts |->
               IF s = {} THEN 0
               ELSE counts[CHOOSE x \in s : TRUE] + g[s \ {CHOOSE x \in s : TRUE}]])[DOMAIN counts]
BY DEF Sum, MapThenSumSet, MapThenFoldSet

\* The groups of a finite set, added up, are as many as its members.
LEMMA SumCounts ==
    ASSUME NEW X, IsFiniteSet(X), NEW key, NEW counts,
           counts = [v \in {key[i] : i \in X} |-> Cardinality({i \in X : key[i] = v})]
    PROVE  IsFiniteSet(DOMAIN counts) /\ Sum(counts) = Cardinality(X)
<1> DEFINE D == {key[i] : i \in X}
           C == [v \in D |-> Cardinality({i \in X : key[i] = v})]
           pick(s) == CHOOSE x \in s : TRUE
           Table(g) == g = [s \in SUBSET D |->
               IF s = {} THEN 0 ELSE C[pick(s)] + g[s \ {pick(s)}]]
           h == [s \in SUBSET D |-> Cardinality({i \in X : key[i] \in s})]
<1>1. IsFiniteSet(D)
  <2> DEFINE f == [i \in X |-> key[i]]
  <2>1. f \in Surjection(X, D)
    BY DEF Surjection
  <2> HIDE DEF f, D
  <2> QED
    BY <2>1, FS_Surjection
<1>2. \A s \in SUBSET D : h[s] \in Nat
  <2> SUFFICES ASSUME NEW s \in SUBSET D PROVE h[s] \in Nat
    OBVIOUS
  <2>1. {i \in X : key[i] \in s} \in SUBSET X
    OBVIOUS
  <2> QED
    BY <2>1, FS_Subset, FS_CardinalityType
<1>3. ASSUME NEW s \in SUBSET D, s # {}
      PROVE  pick(s) \in s /\ C[pick(s)] \in Nat
             /\ h[s] = C[pick(s)] + h[s \ {pick(s)}]
  <2>1. pick(s) \in s
    BY <1>3
  <2> DEFINE x == pick(s)
  <2> HIDE DEF x
  <2>x. x \in s /\ x \in D
    BY <1>3, <2>1 DEF x
  <2> DEFINE one == {i \in X : key[i] = x}
             rest == {i \in X : key[i] \in s \ {x}}
             all == {i \in X : key[i] \in s}
  <2>2. C[x] = Cardinality(one)
    BY <2>x
  <2>3. h[s \ {x}] = Cardinality(rest) /\ h[s] = Cardinality(all)
    BY <1>3
  <2>4. one \cup rest = all /\ one \cap rest = {}
    BY <2>x
  <2>5. one \in SUBSET X /\ rest \in SUBSET X
    OBVIOUS
  <2> HIDE DEF one, rest, all, C, h
  <2>6. /\ IsFiniteSet(one) /\ IsFiniteSet(rest)
        /\ Cardinality(one) \in Nat /\ Cardinality(rest) \in Nat
    BY <2>5, FS_Subset, FS_CardinalityType
  <2>7. Cardinality(all) = Cardinality(one) + Cardinality(rest)
    <3>1. Cardinality(one \cap rest) = 0
      BY <2>4, FS_EmptySet
    <3>2. Cardinality(one \cup rest)
            = Cardinality(one) + Cardinality(rest) - Cardinality(one \cap rest)
      BY <2>6, FS_Union
    <3> QED
      <4> DEFINE both == Cardinality(one \cap rest)
                 any == Cardinality(one \cup rest)
                 a == Cardinality(one)
                 b == Cardinality(rest)
      <4>1. any = Cardinality(all)
        BY <2>4
      <4>2. both = 0 /\ any = a + b - both /\ a \in Nat /\ b \in Nat
        BY <2>6, <3>1, <3>2
      <4> HIDE DEF both, any, a, b
      <4>3. any = a + b
        BY <4>2
      <4> QED
        BY <4>1, <4>3 DEF any, a, b
  <2> QED
    BY <2>x, <2>2, <2>3, <2>6, <2>7 DEF x
<1>4. Table(h)
  <2>1. ASSUME NEW s \in SUBSET D
        PROVE  h[s] = IF s = {} THEN 0 ELSE C[pick(s)] + h[s \ {pick(s)}]
    <3>1. CASE s = {}
      <4>1. {i \in X : key[i] \in s} = {}
        BY <3>1
      <4> QED
        BY <3>1, <4>1, FS_EmptySet
    <3>2. CASE s # {}
      BY <3>2, <1>3
    <3> QED
      BY <3>1, <3>2
  <2>2. h = [s \in SUBSET D |-> h[s]]
    OBVIOUS
  <2> HIDE DEF h, pick, C, D
  <2> QED
    BY <2>1, <2>2
<1> DEFINE it == CHOOSE g : Table(g)
<1>5. Table(it)
  <2> HIDE DEF Table
  <2> QED
    BY <1>4
<1>6. ASSUME NEW s \in SUBSET D, s # {} PROVE it[s] = C[pick(s)] + it[s \ {pick(s)}]
  <2> HIDE DEF it, C, pick, D
  <2> QED
    BY <1>5, <1>6
<1>7. it[{}] = 0
  <2> HIDE DEF it, C, pick, D
  <2> QED
    BY <1>5
<1>8. \A n \in Nat : \A s \in SUBSET D : Cardinality(s) = n => it[s] = h[s]
  <2> DEFINE S == {n \in Nat : \A s \in SUBSET D : Cardinality(s) = n => it[s] = h[s]}
  <2>1. 0 \in S
    <3> SUFFICES ASSUME NEW s \in SUBSET D, Cardinality(s) = 0 PROVE it[s] = h[s]
      OBVIOUS
    <3>1. s = {}
      BY <1>1, FS_Subset, FS_EmptySet
    <3>2. h[{}] = 0
      <4>1. h[{}] = Cardinality({})
        <5>1. {i \in X : key[i] \in {}} = {}
          OBVIOUS
        <5> QED
          BY <5>1
      <4> QED
        BY <4>1, FS_EmptySet
    <3> QED
      BY <3>1, <3>2, <1>7
  <2>2. ASSUME NEW n \in Nat, n \in S PROVE n + 1 \in S
    <3> HIDE DEF it, h, C, D
    <3> SUFFICES ASSUME NEW s \in SUBSET D, Cardinality(s) = n + 1 PROVE it[s] = h[s]
      BY <2>2
    <3> USE DEF it, h, C, D
    <3>1. IsFiniteSet(s) /\ s # {}
      BY <1>1, FS_Subset, FS_EmptySet
    <3>2. h[s] = C[pick(s)] + h[s \ {pick(s)}] /\ pick(s) \in s
      BY <3>1, <1>3
    <3>3. it[s] = C[pick(s)] + it[s \ {pick(s)}]
      BY <3>1, <1>6
    <3>4. Cardinality(s \ {pick(s)}) = n /\ s \ {pick(s)} \in SUBSET D
      <4> HIDE DEF pick, it, h, C, D
      <4>1. Cardinality(s \ {pick(s)}) = Cardinality(s) - 1
        BY <3>1, <3>2, FS_RemoveElement
      <4> QED
        BY <2>2, <3>2, <4>1
    <3>5. it[s \ {pick(s)}] = h[s \ {pick(s)}]
      <4> HIDE DEF it, h, pick, D, C
      <4> QED
        BY <3>4, <2>2
    <3> HIDE DEF it, h, pick, C
    <3> QED
      BY <3>2, <3>3, <3>5
  <2>3. Nat \subseteq S
    <3> HIDE DEF S
    <3> QED
      BY <2>1, <2>2, Naturals
  <2> QED
    BY <2>3
<1>9. h[D] = Cardinality(X)
  <2>1. {i \in X : key[i] \in D} = X
    OBVIOUS
  <2> QED
    BY <2>1
<1>10. it[D] = h[D]
  <2>1. Cardinality(D) \in Nat /\ D \in SUBSET D
    BY <1>1, FS_CardinalityType
  <2> HIDE DEF it, h, D
  <2> QED
    BY <1>8, <2>1
<1>11. Sum(C) = it[D]
  <2>1. DOMAIN C = D
    OBVIOUS
  <2> HIDE DEF C, D
  <2> QED
    BY <2>1, SumIsTable
<1>12. counts = C /\ DOMAIN C = D
  OBVIOUS
<1> QED
  <2> HIDE DEF it, h, pick, C, D
  <2> QED
    BY <1>1, <1>9, <1>10, <1>11, <1>12

\* A list that is not cut short counts every member.
LEMMA TopCounts ==
    ASSUME NEW S, IsFiniteSet(S), NEW key, NEW C, NEW k, NEW list,
           C = [v \in {key[i] : i \in S} |-> Cardinality({i \in S : key[i] = v})],
           list \in Top(C, k), Cardinality(DOMAIN list) < k
    PROVE  Sum(list) = Cardinality(S)
<1>1. IsFiniteSet(DOMAIN C) /\ Sum(C) = Cardinality(S)
  BY SumCounts
<1>2. list = C
  <2> SUFFICES ASSUME ~(Cardinality(DOMAIN C) <= k) PROVE FALSE
    BY DEF Top
  <2>1. PICK T \in kSubset(k, DOMAIN C) : list = [g \in T |-> C[g]]
    BY DEF Top
  <2>2. T \in SUBSET DOMAIN C /\ Cardinality(T) = k /\ DOMAIN list = T
    BY <2>1 DEF kSubset
  <2>3. Cardinality(T) \in Nat
    BY <1>1, <2>2, FS_Subset, FS_CardinalityType
  <2> QED
    BY <2>2, <2>3
<1> QED
  BY <1>1, <1>2

\* The same of the total, which has one group.
LEMMA TotalCounts ==
    ASSUME NEW S, IsFiniteSet(S)
    PROVE  Sum(CountBy(S, LAMBDA i : "all")) = Cardinality(S)
<1> DEFINE key == [i \in S |-> "all"]
           C == [v \in {key[i] : i \in S} |-> Cardinality({i \in S : key[i] = v})]
<1>1. CountBy(S, LAMBDA i : "all") = C
  BY DEF CountBy
<1>2. PICK counts : counts = C
  OBVIOUS
<1>3. Sum(C) = Cardinality(S)
  <2> HIDE DEF key
  <2> QED
    BY <1>2, SumCounts
<1> HIDE DEF C
<1> QED
  BY <1>1, <1>3

\* A histogram with fewer days than it may have has all days: the latest that
\* it does not have would have fewer days before it than the limit.
LEMMA DaysCount ==
    ASSUME TablesTypeOK, NEW S \in SUBSET DOMAIN rows,
           Cardinality(DOMAIN PerDay(S)) < TopLimit["day"]
    PROVE  Sum(PerDay(S)) = Cardinality(S)
<1> DEFINE day(i) == UtcDay(rows[i].time)
           days == {day(i) : i \in S}
           later(d) == {e \in days : e > d}
           K == {i \in S : Cardinality(later(day(i))) < TopLimit["day"]}
           key == [i \in S |-> day(i)]
           C == [v \in {key[i] : i \in K} |-> Cardinality({i \in K : key[i] = v})]
<1>1. PerDay(S) = C
  <2>1. PerDay(S) = CountBy(K, LAMBDA i : UtcDay(rows[i].time))
    BY DEF PerDay
  <2>2. CountBy(K, LAMBDA i : UtcDay(rows[i].time)) = C
    BY DEF CountBy
  <2> QED
    BY <2>1, <2>2
<1>2. IsFiniteSet(S) /\ K \in SUBSET S
  BY RowTypes, FS_Subset
<1>3. IsFiniteSet(K)
  BY <1>2, FS_Subset
<1>4. IsFiniteSet(DOMAIN C) /\ Sum(C) = Cardinality(K)
  <2> HIDE DEF key, K
  <2>1. PICK counts : counts = C
    OBVIOUS
  <2> QED
    BY <2>1, <1>3, SumCounts
<1>5. \A i \in S : day(i) \in Int
  <2> SUFFICES ASSUME NEW i \in S PROVE UtcDay(rows[i].time) \in Int
    OBVIOUS
  <2>1. rows[i].time \in Timestamps
    BY RowTypes
  <2>2. Instant(rows[i].time) \in Int
    BY <2>1 DEF Instant, Timestamps
  <2> QED
    BY <2>2, DayOf DEF UtcDay
<1>6. IsFiniteSet(days)
  <2> DEFINE f == [i \in S |-> day(i)]
  <2>1. f \in Surjection(S, days)
    BY DEF Surjection
  <2> HIDE DEF f, days
  <2> QED
    BY <1>2, <2>1, FS_Surjection
<1>7. TopLimit["day"] \in Nat
  <2>1. 9 \in DOMAIN Lists /\ Lists[9] = "day"
    BY DEF Lists, Columns
  <2> QED
    BY <2>1, TopAssumption
<1>8. DOMAIN C = {day(i) : i \in K}
  OBVIOUS
<1>9. S \subseteq K
  <2> SUFFICES ASSUME NEW i0 \in S, i0 \notin K PROVE FALSE
    OBVIOUS
  <2> DEFINE missing == {d \in days : d \notin DOMAIN C}
             rank(d) == Cardinality(later(d))
             ranks == {rank(d) : d \in missing}
  <2>1. day(i0) \in missing
    OBVIOUS
  <2>2. \A d \in days : later(d) \in SUBSET days /\ IsFiniteSet(later(d)) /\ rank(d) \in Nat
    <3> HIDE DEF days
    <3> QED
      BY <1>6, FS_Subset, FS_CardinalityType
  <2>3. PICK d \in missing : \A e \in missing : rank(d) <= rank(e)
    <3>1. ranks \subseteq Nat /\ ranks # {}
      <4>1. \A e \in missing : rank(e) \in Nat
        BY <2>2
      <4> HIDE DEF rank, missing
      <4> QED
        BY <2>1, <4>1
    <3>2. PICK n \in ranks : \A m \in ranks : n <= m
      <4> HIDE DEF ranks
      <4> QED
        BY <3>1, LeastNatural
    <3> HIDE DEF missing, rank
    <3> QED
      BY <3>2
  <2>4. ASSUME NEW e \in later(d) PROVE e \in DOMAIN C
    <3>1. e \in days /\ e > d /\ d \in days /\ e \in Int /\ d \in Int
      BY <1>5
    <3>2. later(e) \in SUBSET later(d) /\ e \notin later(e) /\ e \in later(d)
      BY <1>5, <3>1
    <3>3. rank(e) <= rank(d) /\ rank(e) # rank(d) /\ rank(e) \in Nat /\ rank(d) \in Nat
      <4> HIDE DEF later
      <4> QED
        BY <2>2, <3>1, <3>2, FS_Subset
    <3> HIDE DEF rank, later, days
    <3> QED
      BY <2>3, <3>1, <3>3
  <2>5. rank(d) <= Cardinality(DOMAIN C) /\ rank(d) \in Nat /\ Cardinality(DOMAIN C) \in Nat
    <3>1. later(d) \in SUBSET DOMAIN C /\ d \in days
      BY <2>4
    <3> HIDE DEF later, days, C
    <3> QED
      BY <1>4, <2>2, <3>1, FS_Subset, FS_CardinalityType
  <2>6. rank(d) < TopLimit["day"]
    <3> HIDE DEF rank, C
    <3> QED
      BY <1>1, <1>7, <2>5
  <2>7. PICK i \in S : d = day(i)
    OBVIOUS
  <2>8. i \in K
    BY <2>6, <2>7
  <2> QED
    BY <2>7, <2>8
<1> QED
  <2> HIDE DEF K, C
  <2>1. K = S
    BY <1>2, <1>9
  <2> QED
    BY <1>1, <1>4, <2>1

-----------------------------------------------------------------------------
(* The statistics.                                                         *)

\* What a statement returns, unless a limit cut it short, counts every row that
\* matches.
LEMMA StatementCounts ==
    ASSUME TablesTypeOK, NEW n \in DOMAIN Lists, NEW f, NEW list \in ListOf(Lists[n], f),
           Lists[n] # "keyword",
           Lists[n] # "total" => Cardinality(DOMAIN list) < TopLimit[Lists[n]]
    PROVE  Sum(list) = Cardinality(Matching(f))
<1>1. Matching(f) \in SUBSET DOMAIN rows /\ IsFiniteSet(Matching(f))
  BY MatchingType, RowTypes, FS_Subset
<1>2. CASE Lists[n] = "total"
  <2>1. list = CountBy(Matching(f), LAMBDA i : "all")
    BY <1>2 DEF ListOf
  <2> QED
    BY <1>1, <2>1, TotalCounts
<1>3. CASE Lists[n] = "day"
  <2>1. list = PerDay(Matching(f))
    BY <1>3 DEF ListOf
  <2> QED
    BY <1>1, <1>3, <2>1, DaysCount
<1>4. CASE Lists[n] \notin {"total", "keyword", "day"}
  <2>1. PICK c : c = Lists[n]
    OBVIOUS
  <2>2. list \in ListOf(c, f)
    BY <2>1
  <2>3. PICK S : S = Matching(f)
    OBVIOUS
  <2> DEFINE key == [i \in S |-> rows[i][c]]
             C == [v \in {key[i] : i \in S} |-> Cardinality({i \in S : key[i] = v})]
  <2>4. list \in Top(CountBy(Matching(f), LAMBDA i : rows[i][c]), TopLimit[c])
    BY <1>4, <2>1, <2>2 DEF ListOf
  <2>5. CountBy(Matching(f), LAMBDA i : rows[i][c]) = C
    BY <2>3 DEF CountBy
  <2>6. PICK counts : counts = C
    OBVIOUS
  <2>7. list \in Top(counts, TopLimit[c])
    <3> HIDE DEF C
    <3> QED
      BY <2>4, <2>5, <2>6
  <2> HIDE DEF key
  <2> QED
    BY <1>1, <1>4, <2>1, <2>3, <2>6, <2>7, TopCounts
<1> QED
  BY <1>2, <1>3, <1>4

\* A list in which every row that matched is counted.
CountsAll(n) == Whole(n) /\ n \notin stats.failed

\* The lists that there are: none counts more than matches now, and none less
\* than one before it.
ListsInv ==
    stats.step > 0 =>
      /\ stats.lists = [n \in 1..stats.step - 1 |-> stats.lists[n]]
      /\ \A n \in 1..stats.step - 1 : CountsAll(n) =>
            /\ Sum(stats.lists[n]) \in Nat
            /\ Sum(stats.lists[n]) <= Cardinality(Matching(stats.filter))
            /\ \A m \in 1..n : CountsAll(m) => Sum(stats.lists[m]) <= Sum(stats.lists[n])

\* A batch only adds to the rows that match.
LEMMA MatchesStay ==
    ASSUME TypeOK, TablesTypeOK', NEW f,
           Ingest \/ UNCHANGED <<traffic, rows, hits>>
    PROVE  /\ Cardinality(Matching(f)) \in Nat
           /\ Cardinality(Matching(f)') \in Nat
           /\ Cardinality(Matching(f)) <= Cardinality(Matching(f)')
<1> DEFINE S == {j \in DOMAIN rows : Matches(f, rows[j])}
           T == {j \in DOMAIN rows' : Matches(f, rows'[j])}
<1>1. Matching(f) = S /\ Matching(f)' = T
  BY DEF Matching
<1>2. DOMAIN rows \subseteq DOMAIN rows' /\ \A j \in DOMAIN rows : rows'[j] = rows[j]
  BY BatchAppends
<1>3. S \in SUBSET T
  BY <1>2
<1>4. IsFiniteSet(T)
  <2>1. Len(rows') \in Nat /\ DOMAIN rows' = 1..Len(rows')
    BY DEF TablesTypeOK
  <2>2. T \in SUBSET DOMAIN rows' /\ IsFiniteSet(DOMAIN rows')
    BY <2>1, FS_Interval
  <2> HIDE DEF T
  <2> QED
    BY <2>2, FS_Subset
<1> HIDE DEF S, T
<1> QED
  BY <1>1, <1>3, <1>4, FS_Subset, FS_CardinalityType

\* A statement adds its list behind the others.
LEMMA ListAdded ==
    ASSUME ListsInv, StatsTypeOK, NEW list,
           stats.step \in DOMAIN Lists,
           stats'.step = stats.step + 1, stats'.lists = Append(stats.lists, list)
    PROVE  /\ stats.step \in Nat \ {0}
           /\ stats'.lists = [n \in 1..stats.step |-> stats'.lists[n]]
           /\ stats'.lists[stats.step] = list
           /\ \A n \in 1..stats.step - 1 : stats'.lists[n] = stats.lists[n]
<1>1. stats.step \in Nat \ {0}
  <2>1. DOMAIN Lists = 1..9
    BY DEF Lists, Columns
  <2> QED
    BY <2>1
<1> DEFINE k == stats.step - 1
           old == stats.lists
           R == {old[n] : n \in 1..k} \cup {list}
<1>2. old = [n \in 1..k |-> old[n]] /\ k \in Nat
  BY <1>1 DEF ListsInv
<1> HIDE DEF old
<1>3. old \in [1..k -> R] /\ list \in R
  BY <1>2
<1> HIDE DEF R, k
<1>4. old \in Seq(R) /\ Len(old) = k
  BY <1>2, <1>3
<1>5. /\ Append(old, list) \in Seq(R) /\ Len(Append(old, list)) = k + 1
      /\ \A n \in 1..k : Append(old, list)[n] = old[n]
      /\ Append(old, list)[k + 1] = list
  BY <1>3, <1>4, AppendProperties
<1>6. Append(old, list) = [n \in 1..k + 1 |-> Append(old, list)[n]]
  BY <1>2, <1>5
<1>7. k + 1 = stats.step
  BY <1>1 DEF k
<1> QED
  BY <1>1, <1>5, <1>6, <1>7 DEF old, k

LEMMA ListsInit ==
    ASSUME Init
    PROVE  ListsInv
<1>1. stats.step = 0
  BY DEF Init, NoStats
<1> QED
  BY <1>1 DEF ListsInv

LEMMA ListsStep ==
    ASSUME Inv, Inv', ListsInv, [Next]_vars
    PROVE  ListsInv'
<1> DEFINE now == Cardinality(Matching(stats.filter))
<1>1. /\ TypeOK /\ TablesTypeOK /\ StatsTypeOK /\ TablesTypeOK' /\ stats.step \in Nat
      /\ DOMAIN stats = DOMAIN NoStats
  <2>1. Len(Lists) \in Nat
    BY DEF Lists, Columns
  <2> QED
    BY <2>1 DEF Inv, TypeOK, StatsTypeOK
<1>2. CASE UNCHANGED stats /\ (Ingest \/ UNCHANGED <<traffic, rows, hits>>)
  <2>1. now \in Nat /\ now' \in Nat /\ now <= now'
    <3>1. PICK f : f = stats.filter
      OBVIOUS
    <3>2. /\ Cardinality(Matching(f)) \in Nat /\ Cardinality(Matching(f)') \in Nat
          /\ Cardinality(Matching(f)) <= Cardinality(Matching(f)')
      BY <1>1, <1>2, MatchesStay
    <3>3. Matching(f)' = Matching(stats.filter)'
      BY <1>2, <3>1 DEF Matching
    <3> QED
      BY <3>1, <3>2, <3>3
  <2>2. \A n : CountsAll(n)' <=> CountsAll(n)
    BY <1>2 DEF CountsAll, Whole
  <2> HIDE DEF now
  <2>3. \A n : Sum(stats.lists[n])' = Sum(stats.lists[n])
    BY <1>2
  <2> QED
    BY <1>2, <2>1, <2>2, <2>3 DEF ListsInv, now
<1>3. CASE OpenStats
  <2>1. stats'.step = 1 /\ stats'.lists = <<>>
    BY <1>3 DEF OpenStats, NoStats
  <2>2. 1..stats'.step - 1 = {}
    BY <2>1
  <2> QED
    BY <2>1, <2>2 DEF ListsInv
<1>4. ASSUME RunStatement \/ StatementFails PROVE ListsInv'
  <2>1. PICK list :
          /\ stats.step \in DOMAIN Lists
          /\ stats'.step = stats.step + 1 /\ stats'.lists = Append(stats.lists, list)
          /\ stats'.filter = stats.filter /\ UNCHANGED <<traffic, rows, hits>>
          /\ \/ stats'.failed = stats.failed /\ list \in ListOf(Lists[stats.step], stats.filter)
             \/ stats'.failed = stats.failed \cup {stats.step}
    <3>1. {"step", "filter", "lists", "failed"} \subseteq DOMAIN stats
      BY <1>1 DEF NoStats
    <3>2. CASE RunStatement
      BY <3>1, <3>2 DEF RunStatement
    <3>3. CASE StatementFails
      BY <3>1, <3>3 DEF StatementFails
    <3> QED
      BY <1>4, <3>2, <3>3
  <2>0. PICK k : k = stats.step
    OBVIOUS
  <2>2. /\ k \in Nat \ {0}
        /\ stats'.lists = [n \in 1..k |-> stats'.lists[n]]
        /\ stats'.lists[k] = list
        /\ \A n \in 1..k - 1 : stats'.lists[n] = stats.lists[n]
    BY <1>1, <2>0, <2>1, ListAdded
  <2>3. now' = now /\ now \in Nat
    <3>1. Matching(stats.filter)' = Matching(stats.filter)
      BY <2>1 DEF Matching
    <3>2. IsFiniteSet(Matching(stats.filter))
      BY <1>1, MatchingType, RowTypes, FS_Subset
    <3> QED
      BY <3>1, <3>2, FS_CardinalityType
  <2>4. \A n \in 1..k - 1 : CountsAll(n)' => CountsAll(n)
    <3> SUFFICES ASSUME NEW n \in 1..k - 1, CountsAll(n)' PROVE CountsAll(n)
      OBVIOUS
    <3>1. stats'.lists[n] = stats.lists[n]
      BY <2>2
    <3>2. n \in DOMAIN stats.lists
      BY <1>1, <2>0, <2>2 DEF ListsInv
    <3>3. n \notin stats.failed
      BY <2>1 DEF CountsAll
    <3> QED
      BY <3>1, <3>2, <3>3 DEF CountsAll, Whole
  <2>5. CountsAll(k)' => Sum(list) = now
    <3> SUFFICES ASSUME CountsAll(k)' PROVE Sum(list) = now
      OBVIOUS
    <3>1. k \notin stats'.failed /\ Whole(k)'
      BY DEF CountsAll
    <3>2. list \in ListOf(Lists[k], stats.filter)
      BY <2>0, <2>1, <3>1
    <3>3. /\ Lists[k] # "keyword"
          /\ Lists[k] # "total" => Cardinality(DOMAIN list) < TopLimit[Lists[k]]
      BY <2>2, <3>1 DEF Whole
    <3> QED
      BY <1>1, <2>0, <2>1, <3>2, <3>3, StatementCounts
  <2>6. \A n \in 1..k - 1 : CountsAll(n) =>
          /\ Sum(stats.lists[n]) \in Nat /\ Sum(stats.lists[n]) <= now
          /\ \A m \in 1..n : CountsAll(m) => Sum(stats.lists[m]) <= Sum(stats.lists[n])
    BY <2>0, <2>2 DEF ListsInv
  <2>7. ASSUME NEW n \in 1..k, CountsAll(n)'
        PROVE  /\ Sum(stats'.lists[n]) \in Nat
               /\ Sum(stats'.lists[n]) <= now
               /\ \A m \in 1..n : CountsAll(m)' => Sum(stats'.lists[m]) <= Sum(stats'.lists[n])
    <3> HIDE DEF now
    <3>1. CASE n = k
      <4>1. Sum(stats'.lists[n]) = now
        BY <2>2, <2>5, <2>7, <3>1
      <4>2. ASSUME NEW m \in 1..n, CountsAll(m)', m # k
            PROVE  Sum(stats'.lists[m]) <= now
        <5>1. m \in 1..k - 1
          BY <2>2, <3>1, <4>2
        <5> QED
          BY <2>2, <2>4, <2>6, <4>2, <5>1
      <4> QED
        BY <2>2, <2>3, <2>5, <4>1, <4>2
    <3>2. CASE n # k
      <4>1. n \in 1..k - 1 /\ \A m \in 1..n : m \in 1..k - 1
        BY <2>2, <3>2
      <4> QED
        BY <2>2, <2>4, <2>6, <2>7, <4>1
    <3> QED
      BY <3>1, <3>2
  <2>8. stats'.step - 1 = k
    BY <2>0, <2>1, <2>2
  <2>9. \A n : Sum(stats.lists[n])' = Sum(stats'.lists[n])
    OBVIOUS
  <2>10. Cardinality(Matching(stats.filter))' = now
    BY <2>3
  <2> HIDE DEF now
  <2> QED
    BY <2>2, <2>7, <2>8, <2>9, <2>10 DEF ListsInv
<1> QED
  <2>1. CASE UNCHANGED vars
    BY <1>2, <2>1 DEF vars
  <2>2. CASE Ingest
    BY <1>2, <2>2 DEF Ingest
  <2>3. CASE OpenList \/ CountRows \/ SelectPage \/ SelectBreaksOff \/ LoadFails
              \/ NextPage \/ PrevPage
    BY <1>2, <2>3
       DEF OpenList, CountRows, SelectPage, SelectBreaksOff, LoadFails, NextPage, PrevPage
  <2> QED
    BY <1>3, <1>4, <2>1, <2>2, <2>3 DEF Next

\* The lists of one answer of handleStats, which come from nine statements in no
\* transaction, differ only by what was inserted between them: each counts all
\* that those before it counted and nothing the filter excludes, unless a limit
\* cut it short or its statement failed.
THEOREM ListsOnlyLag == Spec => []StatsOnlyLag
<1>1. Inv /\ ListsInv => StatsOnlyLag
  <2> SUFFICES ASSUME Inv, ListsInv, stats.step > Len(Lists)
               PROVE  StatsOnlyLag
    BY DEF StatsOnlyLag
  <2>1. stats.step \in Nat /\ stats.step > 0
    <3>1. Len(Lists) = 9
      BY DEF Lists, Columns
    <3> QED
      BY <3>1 DEF Inv, TypeOK, StatsTypeOK
  <2>2. DOMAIN stats.lists = 1..stats.step - 1
    BY <2>1 DEF ListsInv
  <2> DEFINE W == {n \in DOMAIN stats.lists : Whole(n) /\ n \notin stats.failed}
             count == [n \in W |-> Sum(stats.lists[n])]
             now == Cardinality(Matching(stats.filter))
  <2>3. ASSUME NEW n \in W
        PROVE  count[n] <= now /\ \A m \in W : m <= n => count[m] <= count[n]
    <3>1. n \in 1..stats.step - 1 /\ CountsAll(n)
      BY <2>2 DEF CountsAll
    <3>2. ASSUME NEW m \in W, m <= n
          PROVE  m \in 1..n /\ CountsAll(m)
      BY <2>1, <2>2, <3>1, <3>2 DEF CountsAll
    <3> QED
      BY <2>1, <3>1, <3>2 DEF ListsInv
  <2> QED
    BY <2>3 DEF StatsOnlyLag
<1>2. Init => ListsInv
  BY ListsInit
<1>3. Inv /\ Inv' /\ ListsInv /\ [Next]_vars => ListsInv'
  BY ListsStep
<1> QED
  BY <1>1, <1>2, <1>3, Invariant, PTL DEF Spec
=============================================================================
