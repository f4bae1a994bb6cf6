--------------------------- MODULE SyslogReceiver ---------------------------
(***************************************************************************)
(* internal/watcher/syslog.go: one syslog source, through the receivers    *)
(* the manager starts for it one after the other, each with its own        *)
(* protocol and keywords.  A receiver has a listener goroutine per         *)
(* protocol, a goroutine per listener that closes the socket once the      *)
(* context is cancelled, and one per TCP connection, which nobody waits    *)
(* for.  Every parsed message is inserted by storage.Insert: the request,  *)
(* then its keyword hits, one statement each.                              *)
(*                                                                         *)
(* net is external: Close first makes pending and later reads fail, and    *)
(* frees the port when the last reference to the socket is dropped.        *)
(***************************************************************************)
EXTENDS Naturals, Sequences

CONSTANTS
    Messages,    \* what peers send; each one is sent once
    Unparsable,  \* those the parser rejects
    Oversize,    \* those longer than the scanner's buffer, and so than a datagram
    Words,       \* keywords
    Matches,     \* Matches[m]: the words in the path of m
    Conns,       \* TCP connections
    Offered,     \* what the source may be configured to
    NoMessage,
    MaxStarts,   \* bound: receivers started
    MaxFaults    \* bound: failures and crashes

Nets == {"udp", "tcp"}
Receivers == 1..MaxStarts
Configuration == [proto : Nets \cup {"both"}, keywords : SUBSET Words]

ASSUME SyslogAssumption ==
    /\ Unparsable \subseteq Messages /\ Oversize \subseteq Messages
    /\ Matches \in [Messages -> SUBSET Words]
    /\ Offered \subseteq Configuration
    /\ NoMessage \notin Messages
    /\ MaxStarts \in Nat /\ MaxFaults \in Nat
    /\ Conns \cap Receivers = {}

\* The goroutines that run processMessage: the UDP listener of a receiver, and
\* every connection.
Workers == Receivers \cup Conns

VARIABLES
    config,     \* the configurations of the receivers started so far
    cancelled,  \* the receivers whose context is cancelled
    loop,       \* loop[n][g]: the listener goroutine
    socket,     \* socket[n][g]: the listening socket
    conn,       \* conn[c]: the connection
    owner,      \* owner[c]: the receiver whose listener it came to
    inbox,      \* inbox[w]: what the kernel has queued for w
    job,        \* job[w]: the message w works on
    stored,     \* the messages with a row in the requests table
    hits,       \* hits[m]: the keyword_hits rows of that row
    sent,       \* the messages sent
    faults,     \* failures and crashes so far
    late,       \* auxiliary: messages a connection read after its stop
    failed      \* auxiliary: messages of which an insert failed

netVars == <<socket, conn, owner, inbox>>
tableVars == <<stored, hits>>
auxVars == <<late, failed>>
vars == <<config, cancelled, loop, netVars, job, tableVars, sent, faults, auxVars>>

Job == [step : {"idle", "read", "request", "hits"}, msg : Messages \cup {NoMessage},
        todo : SUBSET Words]
NoJob == [step |-> "idle", msg |-> NoMessage, todo |-> {}]

TypeOK ==
    /\ config \in Seq(Offered) /\ Len(config) <= MaxStarts
    /\ cancelled \subseteq 1..Len(config)
    /\ loop \in [Nets -> [Receivers -> {"off", "bind", "wait", "returned"}]]
    /\ socket \in [Nets -> [Receivers -> {"none", "open", "evicted", "closed"}]]
    /\ conn \in [Conns -> {"off", "backlog", "open", "closed"}]
    /\ owner \in [Conns -> 0..MaxStarts]
    /\ inbox \in [Workers -> Seq(Messages)]
    /\ job \in [Workers -> Job]
    /\ \A w \in Workers : job[w].step = "idle" <=> job[w].msg = NoMessage
    /\ \A w \in Workers : job[w].step = "hits" <=> job[w].todo # {}
    /\ stored \subseteq Messages
    /\ hits \in [Messages -> SUBSET Words]
    /\ sent \subseteq Messages
    /\ faults \in 0..MaxFaults
    /\ late \subseteq Messages /\ failed \subseteq Messages

Init ==
    /\ config = <<>> /\ cancelled = {}
    /\ loop = [n \in Nets |-> [g \in Receivers |-> "off"]]
    /\ socket = [n \in Nets |-> [g \in Receivers |-> "none"]]
    /\ conn = [c \in Conns |-> "off"] /\ owner = [c \in Conns |-> 0]
    /\ inbox = [w \in Workers |-> <<>>]
    /\ job = [w \in Workers |-> NoJob]
    /\ stored = {} /\ hits = [m \in Messages |-> {}]
    /\ sent = {} /\ faults = 0
    /\ late = {} /\ failed = {}

-----------------------------------------------------------------------------
(* Helpers.                                                                *)

Current == Len(config)
ReceiverOf(w) == IF w \in Conns THEN owner[w] ELSE w

\* The port is taken, by this or an earlier receiver.
Bound(n) == \E g \in Receivers : socket[n][g] \in {"open", "evicted"}

\* Listen has returned and the manager's done channel is closed.
Returned(g) == \A n \in Nets : loop[n][g] \in {"off", "returned"}

\* processMessage up to the parser's verdict.
Parsed(m) ==
    IF m \in Unparsable THEN NoJob ELSE [step |-> "request", msg |-> m, todo |-> {}]

\* The goroutine of a connection returns.
Hangup(c) ==
    /\ conn' = [conn EXCEPT ![c] = "closed"]
    /\ inbox' = [inbox EXCEPT ![c] = <<>>]
    /\ job' = [job EXCEPT ![c] = NoJob]

-----------------------------------------------------------------------------
(* The manager: stopLocked and startLocked.                                *)

Start ==
    /\ Current < MaxStarts
    /\ Current > 0 => Current \in cancelled /\ Returned(Current)
    /\ \E r \in Offered :
          /\ config' = Append(config, r)
          /\ loop' = [n \in Nets |-> [loop[n] EXCEPT ![Current + 1] =
                         IF r.proto \in {n, "both"} THEN "bind" ELSE "off"]]
    /\ UNCHANGED <<cancelled, netVars, job, tableVars, sent, faults, auxVars>>

Cancel ==
    /\ Current > 0
    /\ Current \notin cancelled
    /\ cancelled' = cancelled \cup {Current}
    /\ UNCHANGED <<config, loop, netVars, job, tableVars, sent, faults, auxVars>>

-----------------------------------------------------------------------------
(* The listeners.                                                          *)

\* net.Listen: it fails when the port is taken.
Bind(n, g) ==
    /\ loop[n][g] = "bind"
    /\ \/ /\ ~Bound(n)
          /\ socket' = [socket EXCEPT ![n][g] = "open"]
          /\ loop' = [loop EXCEPT ![n][g] = "wait"]
       \/ /\ Bound(n)
          /\ loop' = [loop EXCEPT ![n][g] = "returned"]
          /\ UNCHANGED socket
    /\ UNCHANGED <<config, cancelled, conn, owner, inbox, job, tableVars, sent, faults,
                   auxVars>>

\* A read error: Listen returns it.  The socket stays open until the stop.
ListenFails(n, g) ==
    /\ loop[n][g] = "wait" /\ (n = "udp" => job[g] = NoJob)
    /\ g \notin cancelled
    /\ faults < MaxFaults
    /\ faults' = faults + 1
    /\ loop' = [loop EXCEPT ![n][g] = "returned"]
    /\ UNCHANGED <<config, cancelled, netVars, job, tableVars, sent, auxVars>>

\* Mutant of ReceiveUDP: a message the parser rejects ends the listener.
ReceiveUDPStrict(g) ==
    /\ loop["udp"][g] = "wait" /\ socket["udp"][g] = "open"
    /\ job[g] = NoJob
    /\ inbox[g] # <<>>
    /\ inbox' = [inbox EXCEPT ![g] = Tail(@)]
    /\ job' = [job EXCEPT ![g] = Parsed(Head(inbox[g]))]
    /\ loop' = IF Head(inbox[g]) \in Unparsable
               THEN [loop EXCEPT !["udp"][g] = "returned"] ELSE loop
    /\ UNCHANGED <<config, cancelled, socket, conn, owner, tableVars, sent, faults, auxVars>>

\* ReadFromUDP and processMessage.
ReceiveUDP(g) ==
    /\ loop["udp"][g] = "wait" /\ socket["udp"][g] = "open"
    /\ job[g] = NoJob
    /\ inbox[g] # <<>>
    /\ inbox' = [inbox EXCEPT ![g] = Tail(@)]
    /\ job' = [job EXCEPT ![g] = Parsed(Head(inbox[g]))]
    /\ UNCHANGED <<config, cancelled, loop, socket, conn, owner, tableVars, sent, faults,
                   auxVars>>

AcceptTCP(g) ==
    /\ loop["tcp"][g] = "wait" /\ socket["tcp"][g] = "open"
    /\ \E c \in Conns :
          /\ conn[c] = "backlog" /\ owner[c] = g
          /\ conn' = [conn EXCEPT ![c] = "open"]
    /\ UNCHANGED <<config, cancelled, loop, socket, owner, inbox, job, tableVars, sent,
                   faults, auxVars>>

\* Mutant of CloseBegins: only the UDP listener has a goroutine that closes it.
CloseBeginsUDP(n, g) ==
    /\ n = "udp"
    /\ g \in cancelled
    /\ socket[n][g] = "open"
    /\ socket' = [socket EXCEPT ![n][g] = "evicted"]
    /\ UNCHANGED <<config, cancelled, loop, conn, owner, inbox, job, tableVars, sent,
                   faults, auxVars>>

\* The goroutine behind <-ctx.Done() calls Close: reads fail from now on ...
CloseBegins(n, g) ==
    /\ g \in cancelled
    /\ socket[n][g] = "open"
    /\ socket' = [socket EXCEPT ![n][g] = "evicted"]
    /\ UNCHANGED <<config, cancelled, loop, conn, owner, inbox, job, tableVars, sent,
                   faults, auxVars>>

\* ... and then the port is free.  What nobody took is lost.
CloseEnds(n, g) ==
    /\ socket[n][g] = "evicted"
    /\ socket' = [socket EXCEPT ![n][g] = "closed"]
    /\ LET reset == {c \in Conns : n = "tcp" /\ conn[c] = "backlog" /\ owner[c] = g}
       IN  /\ conn' = [c \in Conns |-> IF c \in reset THEN "closed" ELSE conn[c]]
           /\ inbox' = [w \in Workers |->
                 IF w \in reset \/ (n = "udp" /\ w = g) THEN <<>> ELSE inbox[w]]
    /\ UNCHANGED <<config, cancelled, loop, owner, job, tableVars, sent, faults, auxVars>>

\* The read or Accept failed and ctx.Done is closed.
Return(n, g) ==
    /\ loop[n][g] = "wait" /\ (n = "udp" => job[g] = NoJob)
    /\ socket[n][g] \in {"evicted", "closed"}
    /\ loop' = [loop EXCEPT ![n][g] = "returned"]
    /\ UNCHANGED <<config, cancelled, netVars, job, tableVars, sent, faults, auxVars>>

-----------------------------------------------------------------------------
(* handleTCPConn, and storage.Insert.                                      *)

\* scanner.Scan: a message, or the end of the connection.
Scan(c) ==
    /\ conn[c] = "open" /\ job[c] = NoJob
    /\ inbox[c] # <<>>
    /\ LET m == Head(inbox[c]) IN
          \/ /\ m \in Oversize
             /\ Hangup(c)
             /\ UNCHANGED late
          \/ /\ m \notin Oversize
             /\ inbox' = [inbox EXCEPT ![c] = Tail(@)]
             /\ job' = [job EXCEPT ![c] = [step |-> "read", msg |-> m, todo |-> {}]]
             /\ late' = IF owner[c] \in cancelled THEN late \cup {m} ELSE late
             /\ UNCHANGED conn
    /\ UNCHANGED <<config, cancelled, loop, socket, owner, tableVars, sent, faults, failed>>

\* Mutant of Check: the context is not looked at.
CheckNothing(c) ==
    /\ job[c].step = "read"
    /\ job' = [job EXCEPT ![c] = Parsed(@.msg)]
    /\ UNCHANGED <<config, cancelled, loop, netVars, tableVars, sent, faults, auxVars>>

\* A stopped connection gives up the message it just read, and the rest.
Check(c) ==
    /\ job[c].step = "read"
    /\ \/ /\ owner[c] \in cancelled
          /\ Hangup(c)
       \/ /\ owner[c] \notin cancelled
          /\ job' = [job EXCEPT ![c] = Parsed(@.msg)]
          /\ UNCHANGED <<conn, inbox>>
    /\ UNCHANGED <<config, cancelled, loop, socket, owner, tableVars, sent, faults, auxVars>>

\* Mutant of Remaining: the last row does not end the job.
RemainingOn(m, words) == [step |-> "hits", msg |-> m, todo |-> words]

\* What is left of the job when its rows of these words are still to insert.
Remaining(m, words) ==
    IF words = {} THEN NoJob ELSE [step |-> "hits", msg |-> m, todo |-> words]

InsertRequest(w) ==
    /\ job[w].step = "request"
    /\ stored' = stored \cup {job[w].msg}
    /\ job' = [job EXCEPT ![w] =
          Remaining(@.msg, Matches[@.msg] \cap config[ReceiverOf(w)].keywords)]
    /\ UNCHANGED <<config, cancelled, loop, netVars, hits, sent, faults, auxVars>>

\* Mutant of InsertHit: the loop over the keywords ends with the first hit.
InsertFirstHit(w) ==
    /\ job[w].step = "hits"
    /\ LET k == CHOOSE k \in job[w].todo : TRUE IN
          hits' = [hits EXCEPT ![job[w].msg] = @ \cup {k}]
    /\ job' = [job EXCEPT ![w] = NoJob]
    /\ UNCHANGED <<config, cancelled, loop, netVars, stored, sent, faults, auxVars>>

\* The keywords are tried in one order.
InsertHit(w) ==
    /\ job[w].step = "hits"
    /\ LET k == CHOOSE k \in job[w].todo : TRUE IN
          /\ hits' = [hits EXCEPT ![job[w].msg] = @ \cup {k}]
          /\ job' = [job EXCEPT ![w] = Remaining(@.msg, @.todo \ {k})]
    /\ UNCHANGED <<config, cancelled, loop, netVars, stored, sent, faults, auxVars>>

\* A statement fails: the error is logged, the rest of the message is given up.
InsertFails(w) ==
    /\ job[w].step \in {"request", "hits"}
    /\ faults < MaxFaults
    /\ faults' = faults + 1
    /\ failed' = failed \cup {job[w].msg}
    /\ job' = [job EXCEPT ![w] = NoJob]
    /\ UNCHANGED <<config, cancelled, loop, netVars, tableVars, sent, late>>

-----------------------------------------------------------------------------
(* The peers and the process.                                              *)

Deliver(w, m) == inbox' = [inbox EXCEPT ![w] = Append(@, m)]

\* A datagram reaches the socket; one that is lost is one never sent.
SendUDP(m) ==
    /\ m \notin sent /\ m \notin Oversize
    /\ sent' = sent \cup {m}
    /\ \E g \in Receivers : socket["udp"][g] = "open" /\ Deliver(g, m)
    /\ UNCHANGED <<config, cancelled, loop, socket, conn, owner, job, tableVars, faults,
                   auxVars>>

Connect(c) ==
    /\ conn[c] = "off"
    /\ \E g \in Receivers :
          /\ socket["tcp"][g] = "open"
          /\ owner' = [owner EXCEPT ![c] = g]
    /\ conn' = [conn EXCEPT ![c] = "backlog"]
    /\ UNCHANGED <<config, cancelled, loop, socket, inbox, job, tableVars, sent, faults,
                   auxVars>>

SendTCP(c, m) ==
    /\ m \notin sent
    /\ conn[c] \in {"backlog", "open"}
    /\ sent' = sent \cup {m}
    /\ Deliver(c, m)
    /\ UNCHANGED <<config, cancelled, loop, socket, conn, owner, job, tableVars, faults,
                   auxVars>>

\* The peer has closed the connection and everything was read.
Eof(c) ==
    /\ conn[c] = "open" /\ job[c] = NoJob
    /\ inbox[c] = <<>>
    /\ Hangup(c)
    /\ UNCHANGED <<config, cancelled, loop, socket, owner, tableVars, sent, faults, auxVars>>

\* The process is gone; the kernel closes its sockets.
Crash ==
    /\ faults < MaxFaults
    /\ faults' = faults + 1
    /\ failed' = failed \cup ({job[w].msg : w \in Workers} \ {NoMessage})
    /\ cancelled' = 1..Current
    /\ loop' = [n \in Nets |-> [g \in Receivers |->
                   IF loop[n][g] = "off" THEN "off" ELSE "returned"]]
    /\ socket' = [n \in Nets |-> [g \in Receivers |->
                     IF socket[n][g] = "none" THEN "none" ELSE "closed"]]
    /\ conn' = [c \in Conns |-> IF conn[c] = "off" THEN "off" ELSE "closed"]
    /\ inbox' = [w \in Workers |-> <<>>]
    /\ job' = [w \in Workers |-> NoJob]
    /\ UNCHANGED <<config, owner, tableVars, sent, late>>

Insert(w) == InsertRequest(w) \/ InsertHit(w)

Listener(n, g) ==
    \/ Bind(n, g) \/ Return(n, g)
    \/ n = "udp" /\ (ReceiveUDP(g) \/ Insert(g))
    \/ n = "tcp" /\ AcceptTCP(g)

Closer(n, g) == CloseBegins(n, g) \/ CloseEnds(n, g)

Connection(c) == Scan(c) \/ Check(c) \/ Insert(c)

Next ==
    \/ Start \/ Cancel \/ Crash
    \/ \E n \in Nets, g \in Receivers : Listener(n, g) \/ Closer(n, g) \/ ListenFails(n, g)
    \/ \E c \in Conns : Connection(c) \/ Connect(c) \/ Eof(c)
    \/ \E w \in Workers : InsertFails(w)
    \/ \E m \in Messages : SendUDP(m) \/ \E c \in Conns : SendTCP(c, m)

\* Every goroutine is scheduled; of the two that close the sockets of a receiver
\* it is enough that one of them moves.  Nothing is assumed of peers, stops,
\* starts and faults.
Fairness ==
    /\ \A g \in Receivers : \A n \in Nets : WF_vars(Listener(n, g))
    /\ \A g \in Receivers : WF_vars(\E n \in Nets : Closer(n, g))
    /\ \A c \in Conns : WF_vars(Connection(c))

Spec == Init /\ [][Next]_vars /\ Fairness

-----------------------------------------------------------------------------
(* Properties.                                                             *)

\* A stop is final: no message that a connection reads after the stop of its
\* receiver is stored (it would be with the old parser and keywords), and once
\* a successor is started no UDP listener before it works on anything.
PredecessorIsSilent ==
    /\ late \cap stored = {}
    /\ \A g \in 1..(Current - 1) : job[g] = NoJob

\* Insert's statements add up: a request nobody works on any more has the hits
\* of its receiver's keywords, unless a statement failed.  The keywords are
\* those of one receiver, also when a restart changes them half-way.
HitsAreComplete ==
    \A m \in stored \ failed :
        (\A w \in Workers : job[w].msg # m) =>
            \E g \in 1..Current : hits[m] = Matches[m] \cap config[g].keywords

\* Listen returns once its context is cancelled: the manager's wait ends.
StopReturns == \A g \in Receivers : g \in cancelled ~> Returned(g)

\* What reached a socket of a receiver that is not stopped is stored in the
\* end, unless its own insert fails: no unparsable message before it, no end of
\* the other listener, no other connection and no stop of a predecessor holds it
\* up.  Only an oversized message ends its connection.
Queued(w, m) ==
    \E i \in DOMAIN inbox[w] :
        /\ inbox[w][i] = m
        /\ w \in Conns => \A j \in 1..i : inbox[w][j] \notin Oversize

\* The listener that w needs has met a read error.
Abandoned(w) ==
    /\ faults > 0
    /\ IF w \in Conns THEN conn[w] = "backlog" /\ loop["tcp"][owner[w]] = "returned"
                      ELSE loop["udp"][w] = "returned"

EveryMessageStored ==
    \A m \in Messages \ Unparsable :
        (\E w \in Workers : ReceiverOf(w) \notin cancelled /\ Queued(w, m))
            ~> \/ m \in stored \cup failed
               \/ Current \in cancelled
               \/ \E w \in Workers : Queued(w, m) /\ Abandoned(w)

\* manager.go: the wait makes that "a follow-up start sees the previous reader
\* fully released (matters for syslog listeners that bind a port)": a receiver
\* that nothing else disturbs gets its port.
RestartBinds ==
    \A g \in Receivers, n \in Nets :
        loop[n][g] = "bind" ~> socket[n][g] = "open" \/ g \in cancelled \/ faults > 0
=============================================================================
