----------------------------- MODULE SyslogProofs -----------------------------
(***************************************************************************)
(* Theorems about SyslogReceiver for every set of messages, connections    *)
(* and configurations and any bound on receivers and faults.               *)
(***************************************************************************)
EXTENDS SyslogReceiver, SequenceTheorems, TLAPS

-----------------------------------------------------------------------------
(* The inductive invariant.                                                *)

\* What exists belongs to a receiver that was started, and every receiver but
\* the last is stopped.
StartedInv ==
    /\ \A n \in Nets, g \in Receivers :
          loop[n][g] # "off" \/ socket[n][g] # "none" => g <= Current
    /\ \A c \in Conns : conn[c] # "off" => owner[c] \in 1..Current
    /\ \A g \in Receivers : g < Current => g \in cancelled /\ Returned(g)

\* Who works on a message: a UDP listener that has not returned, or a
\* connection that is open.  Only a connection looks at the context in between.
WorkInv ==
    /\ \A g \in Receivers : job[g] # NoJob => loop["udp"][g] = "wait"
    /\ \A g \in Receivers : job[g].step # "read"
    /\ \A c \in Conns : job[c] # NoJob => conn[c] = "open"

\* A message that was sent is in one place: at one position of one inbox, with
\* one worker, or behind.
QueuesApart ==
    \A w, v \in Workers : \A i \in DOMAIN inbox[w], j \in DOMAIN inbox[v] :
        inbox[w][i] = inbox[v][j] => w = v /\ i = j

JobsApart ==
    \A w, v \in Workers : job[w].msg = job[v].msg /\ w # v => job[w].msg = NoMessage

\* A queued message was sent and neither read nor stored yet.
QueuedInv ==
    \A w \in Workers : \A i \in DOMAIN inbox[w] :
        /\ inbox[w][i] \in sent \ (stored \cup late)
        /\ \A v \in Workers : job[v].msg # inbox[w][i]

OnceInv ==
    /\ QueuesApart /\ JobsApart /\ QueuedInv
    /\ \A w \in Workers : job[w].msg \in sent \cup {NoMessage}
    /\ \A w \in Workers : job[w].step \in {"read", "request"} => job[w].msg \notin stored
    /\ stored \cup late \subseteq sent

\* A message read after the stop is with a connection about to give it up.
LateInv ==
    \A m \in late :
        /\ m \notin stored
        /\ \A w \in Workers : job[w].msg = m =>
              w \in Conns /\ job[w].step = "read" /\ owner[w] \in cancelled

\* The hits of a message are those that its worker has not still to insert.
HitsInv ==
    /\ \A m \in Messages \ stored : hits[m] = {}
    /\ \A w \in Workers : job[w].step = "hits" =>
          /\ job[w].msg \in stored
          /\ hits[job[w].msg] \cup job[w].todo =
                Matches[job[w].msg] \cap config[ReceiverOf(w)].keywords

Inv ==
    /\ TypeOK /\ StartedInv /\ WorkInv /\ OnceInv /\ LateInv /\ HitsInv
    /\ HitsAreComplete

USE SyslogAssumption DEF netVars, tableVars, auxVars, Current

-----------------------------------------------------------------------------
(* What most steps leave alone.                                            *)

\* A step that moves no message keeps the messages apart.
LEMMA OnceFrame ==
    ASSUME OnceInv, UNCHANGED <<inbox, job, sent, stored, late>>
    PROVE  OnceInv'
BY DEF OnceInv, QueuesApart, JobsApart, QueuedInv

\* A receiver that exists was started: the keywords of a worker are known.
LEMMA WorkersAreOwned ==
    ASSUME TypeOK, StartedInv, WorkInv
    PROVE  /\ \A w \in Workers : job[w] # NoJob => ReceiverOf(w) \in 1..Current
           /\ Current \in 0..MaxStarts
<1>1. Current \in 0..MaxStarts
  BY DEF TypeOK
<1>2. ASSUME NEW w \in Workers, job[w] # NoJob PROVE ReceiverOf(w) \in 1..Current
  <2>1. CASE w \in Conns
    BY <1>2, <2>1 DEF WorkInv, StartedInv, ReceiverOf
  <2>2. CASE w \in Receivers
    <3>1. loop["udp"][w] # "off" /\ "udp" \in Nets
      BY <1>2, <2>2 DEF WorkInv, Nets
    <3> QED
      BY <1>1, <2>2, <3>1 DEF StartedInv, ReceiverOf, Receivers
  <2> QED
    BY <2>1, <2>2 DEF Workers
<1> QED
  BY <1>1, <1>2

\* Hits stay complete in a step that writes none, when whoever gives up a
\* stored message has failed at it.
LEMMA HitsFrame ==
    ASSUME HitsAreComplete, UNCHANGED <<config, stored, hits>>, failed \subseteq failed',
           \A m \in stored \ failed' :
              (\E w \in Workers : job[w].msg = m) => \E w \in Workers : job'[w].msg = m
    PROVE  HitsAreComplete'
BY DEF HitsAreComplete

\* Every initial state satisfies the invariant.
LEMMA InitInv == Init => Inv
<1> SUFFICES ASSUME Init PROVE Inv
  OBVIOUS
<1> USE DEF Init, NoJob, Workers
<1>1. TypeOK
  BY DEF TypeOK, Job
<1>2. StartedInv
  <2>1. Len(config) = 0 /\ \A g \in Receivers : g > 0
    BY DEF Receivers
  <2>2. \A n \in Nets, g \in Receivers : loop[n][g] = "off" /\ socket[n][g] = "none"
    OBVIOUS
  <2>3. \A c \in Conns : conn[c] = "off"
    OBVIOUS
  <2> QED
    BY <2>1, <2>2, <2>3 DEF StartedInv, Receivers
<1>3. WorkInv
  BY DEF WorkInv
<1>4. OnceInv
  BY DEF OnceInv, QueuesApart, JobsApart, QueuedInv
<1>5. LateInv /\ HitsInv /\ HitsAreComplete
  BY DEF LateInv, HitsInv, HitsAreComplete
<1> QED
  BY <1>1, <1>2, <1>3, <1>4, <1>5 DEF Inv

-----------------------------------------------------------------------------
(* The manager.                                                            *)

\* A successor is started: it has a number of its own, and nothing is at work
\* for it yet.
LEMMA StartInv ==
    ASSUME Inv, Start
    PROVE  Inv'
<1>1. PICK r \in Offered :
         /\ config' = Append(config, r)
         /\ loop' = [n \in Nets |-> [loop[n] EXCEPT ![Current + 1] =
                        IF r.proto \in {n, "both"} THEN "bind" ELSE "off"]]
  BY DEF Start
<1>2. /\ config \in Seq(Offered) /\ Len(config) < MaxStarts
      /\ Len(config') = Len(config) + 1
      /\ \A g \in 1..Len(config) : config'[g] = config[g]
  BY <1>1 DEF Inv, TypeOK, Start
<1>3. UNCHANGED <<cancelled, socket, conn, owner, inbox, job, stored, hits, sent, faults,
                  late, failed>>
  BY DEF Start
<1>4. \A n \in Nets, g \in Receivers : g # Len(config) + 1 => loop'[n][g] = loop[n][g]
  BY <1>1 DEF Inv, TypeOK
<1>5. \A n \in Nets : loop[n][Len(config) + 1] = "off"
  BY <1>2 DEF Inv, TypeOK, StartedInv, Receivers
<1>6. TypeOK'
  <2>1. config' \in Seq(Offered) /\ Len(config') <= MaxStarts /\ cancelled' \subseteq 1..Len(config')
    BY <1>1, <1>2, <1>3 DEF Inv, TypeOK
  <2>2. loop' \in [Nets -> [Receivers -> {"off", "bind", "wait", "returned"}]]
    BY <1>1 DEF Inv, TypeOK
  <2> QED
    BY <1>3, <2>1, <2>2 DEF Inv, TypeOK
<1>7. StartedInv'
  <2>1. \A n \in Nets, g \in Receivers :
           loop'[n][g] # "off" \/ socket'[n][g] # "none" => g <= Len(config')
    BY <1>2, <1>3, <1>4 DEF Inv, StartedInv, Receivers
  <2>2. \A c \in Conns : conn'[c] # "off" => owner'[c] \in 1..Len(config')
    BY <1>2, <1>3 DEF Inv, StartedInv
  <2>3. \A g \in Receivers : g < Len(config') => g \in cancelled /\ Returned(g)
    BY <1>2 DEF Inv, StartedInv, Start, Receivers
  <2>4. \A g \in Receivers : g < Len(config') => g \in cancelled' /\ Returned(g)'
    BY <1>2, <1>3, <1>4, <2>3 DEF Returned, Receivers
  <2> QED
    BY <2>1, <2>2, <2>4 DEF StartedInv
<1>8. WorkInv'
  <2>1. \A g \in Receivers : job[g] # NoJob => loop'["udp"][g] = "wait"
    BY <1>4, <1>5 DEF Inv, WorkInv, Nets
  <2> QED
    BY <1>3, <2>1 DEF Inv, WorkInv
<1>9. OnceInv' /\ LateInv'
  BY <1>3, OnceFrame DEF Inv, LateInv
<1>10. HitsInv'
  <2>1. \A w \in Workers : job[w].step = "hits" =>
           config'[ReceiverOf(w)].keywords = config[ReceiverOf(w)].keywords
    BY <1>2, WorkersAreOwned DEF Inv, NoJob
  <2> QED
    BY <1>3, <2>1 DEF Inv, HitsInv, ReceiverOf
<1>11. HitsAreComplete'
  <2>1. 1..Len(config) \subseteq 1..Len(config')
    BY <1>2
  <2> QED
    BY <1>2, <1>3, <2>1 DEF Inv, HitsAreComplete
<1> QED
  BY <1>6, <1>7, <1>8, <1>9, <1>10, <1>11 DEF Inv

\* The receiver is stopped.
LEMMA CancelInv ==
    ASSUME Inv, Cancel
    PROVE  Inv'
<1> USE DEF Cancel
<1>1. TypeOK'
  <2>1. Len(config) \in Nat /\ Len(config) > 0
    BY DEF Inv, TypeOK
  <2>2. Len(config) \in 1..Len(config) /\ cancelled \subseteq 1..Len(config)
    BY <2>1 DEF Inv, TypeOK
  <2>3. cancelled' \subseteq 1..Len(config)
    BY <2>2
  <2> QED
    BY <2>3 DEF Inv, TypeOK
<1>2. StartedInv'
  BY DEF Inv, StartedInv, Returned
<1>3. WorkInv'
  BY DEF Inv, WorkInv
<1>4. OnceInv' /\ LateInv' /\ HitsInv'
  BY OnceFrame DEF Inv, LateInv, HitsInv, ReceiverOf
<1>5. HitsAreComplete'
  BY HitsFrame DEF Inv
<1> QED
  BY <1>1, <1>2, <1>3, <1>4, <1>5 DEF Inv

-----------------------------------------------------------------------------
(* The listeners.                                                          *)

\* net.Listen succeeds or fails.
LEMMA BindInv ==
    ASSUME Inv, NEW n \in Nets, NEW g \in Receivers, Bind(n, g)
    PROVE  Inv'
<1>1. /\ UNCHANGED <<config, cancelled, conn, owner, inbox, job, stored, hits, sent, faults,
                     late, failed>>
      /\ loop[n][g] = "bind"
      /\ \/ /\ socket' = [socket EXCEPT ![n][g] = "open"]
            /\ loop' = [loop EXCEPT ![n][g] = "wait"]
         \/ /\ loop' = [loop EXCEPT ![n][g] = "returned"]
            /\ socket' = socket
  BY DEF Bind
<1>2. TypeOK'
  <2>1. /\ loop' \in [Nets -> [Receivers -> {"off", "bind", "wait", "returned"}]]
        /\ socket' \in [Nets -> [Receivers -> {"none", "open", "evicted", "closed"}]]
    <3>1. CASE loop' = [loop EXCEPT ![n][g] = "wait"] /\ socket' = [socket EXCEPT ![n][g] = "open"]
      BY <3>1 DEF Inv, TypeOK
    <3>2. CASE loop' = [loop EXCEPT ![n][g] = "returned"] /\ socket' = socket
      BY <3>2 DEF Inv, TypeOK
    <3> QED
      BY <1>1, <3>1, <3>2
  <2> QED
    BY <1>1, <2>1 DEF Inv, TypeOK
<1>3. \A k \in Nets, h \in Receivers : <<k, h>> # <<n, g>> =>
         loop'[k][h] = loop[k][h] /\ socket'[k][h] = socket[k][h]
  BY <1>1 DEF Inv, TypeOK
<1>4. g = Len(config)
  <2>1. g <= Len(config)
    BY <1>1 DEF Inv, StartedInv
  <2>2. ~(g < Len(config))
    BY <1>1 DEF Inv, StartedInv, Returned
  <2> QED
    BY <2>1, <2>2 DEF Inv, TypeOK, Receivers
<1>5. StartedInv'
  <2>1. \A k \in Nets, h \in Receivers :
           loop'[k][h] # "off" \/ socket'[k][h] # "none" => h <= Len(config)
    BY <1>3, <1>4 DEF Inv, StartedInv, Receivers
  <2>2. \A h \in Receivers : h < Len(config) => Returned(h)'
    BY <1>3, <1>4 DEF Inv, StartedInv, Returned
  <2> QED
    BY <1>1, <2>1, <2>2 DEF Inv, StartedInv
<1>6. WorkInv'
  <2>1. \A h \in Receivers : job[h] # NoJob => loop'["udp"][h] = "wait"
    BY <1>1, <1>3 DEF Inv, WorkInv, Nets
  <2> QED
    BY <1>1, <2>1 DEF Inv, WorkInv
<1>7. OnceInv' /\ LateInv' /\ HitsInv'
  BY <1>1, OnceFrame DEF Inv, LateInv, HitsInv, ReceiverOf
<1>8. HitsAreComplete'
  BY <1>1, HitsFrame DEF Inv
<1> QED
  BY <1>2, <1>5, <1>6, <1>7, <1>8 DEF Inv

\* A read error ends a listener that works on nothing.
LEMMA ListenFailsInv ==
    ASSUME Inv, NEW n \in Nets, NEW g \in Receivers, ListenFails(n, g)
    PROVE  Inv'
<1> USE DEF ListenFails
<1>1. TypeOK'
  BY DEF Inv, TypeOK
<1>2. StartedInv'
  BY DEF Inv, TypeOK, StartedInv, Returned
<1>3. WorkInv'
  BY DEF Inv, TypeOK, WorkInv, Workers
<1>4. OnceInv' /\ LateInv' /\ HitsInv'
  BY OnceFrame DEF Inv, LateInv, HitsInv, ReceiverOf
<1>5. HitsAreComplete'
  BY HitsFrame DEF Inv
<1> QED
  BY <1>1, <1>2, <1>3, <1>4, <1>5 DEF Inv

\* A listener whose socket was closed returns.
LEMMA ReturnInv ==
    ASSUME Inv, NEW n \in Nets, NEW g \in Receivers, Return(n, g)
    PROVE  Inv'
<1> USE DEF Return
<1>1. TypeOK'
  BY DEF Inv, TypeOK
<1>2. StartedInv'
  BY DEF Inv, TypeOK, StartedInv, Returned
<1>3. WorkInv'
  BY DEF Inv, TypeOK, WorkInv, Workers
<1>4. OnceInv' /\ LateInv' /\ HitsInv'
  BY OnceFrame DEF Inv, LateInv, HitsInv, ReceiverOf
<1>5. HitsAreComplete'
  BY HitsFrame DEF Inv
<1> QED
  BY <1>1, <1>2, <1>3, <1>4, <1>5 DEF Inv

\* A connection is accepted.
LEMMA AcceptInv ==
    ASSUME Inv, NEW g \in Receivers, AcceptTCP(g)
    PROVE  Inv'
<1> USE DEF AcceptTCP
<1>1. TypeOK'
  BY DEF Inv, TypeOK
<1>2. StartedInv'
  BY DEF Inv, TypeOK, StartedInv, Returned
<1>3. WorkInv'
  BY DEF Inv, TypeOK, WorkInv, Workers
<1>4. OnceInv' /\ LateInv' /\ HitsInv'
  BY OnceFrame DEF Inv, LateInv, HitsInv, ReceiverOf
<1>5. HitsAreComplete'
  BY HitsFrame DEF Inv
<1> QED
  BY <1>1, <1>2, <1>3, <1>4, <1>5 DEF Inv

\* Reads of the socket fail from now on.
LEMMA CloseBeginsInv ==
    ASSUME Inv, NEW n \in Nets, NEW g \in Receivers, CloseBegins(n, g)
    PROVE  Inv'
<1> USE DEF CloseBegins
<1>1. TypeOK'
  BY DEF Inv, TypeOK
<1>2. StartedInv'
  BY DEF Inv, TypeOK, StartedInv, Returned
<1>3. WorkInv'
  BY DEF Inv, TypeOK, WorkInv, Workers
<1>4. OnceInv' /\ LateInv' /\ HitsInv'
  BY OnceFrame DEF Inv, LateInv, HitsInv, ReceiverOf
<1>5. HitsAreComplete'
  BY HitsFrame DEF Inv
<1> QED
  BY <1>1, <1>2, <1>3, <1>4, <1>5 DEF Inv

\* The port is free; what nobody took from the socket is lost.
LEMMA CloseEndsInv ==
    ASSUME Inv, NEW n \in Nets, NEW g \in Receivers, CloseEnds(n, g)
    PROVE  Inv'
<1> USE DEF CloseEnds
<1>1. TypeOK'
  BY DEF Inv, TypeOK, Workers
<1>2. StartedInv'
  BY DEF Inv, TypeOK, StartedInv, Returned
<1>3. WorkInv'
  BY DEF Inv, TypeOK, WorkInv, Workers
<1>4. \A w \in Workers : inbox'[w] = inbox[w] \/ inbox'[w] = <<>>
  OBVIOUS
<1>5. OnceInv'
  BY <1>4 DEF Inv, OnceInv, QueuesApart, JobsApart, QueuedInv
<1>6. LateInv' /\ HitsInv'
  BY DEF Inv, LateInv, HitsInv, ReceiverOf
<1>7. HitsAreComplete'
  BY HitsFrame DEF Inv
<1> QED
  BY <1>1, <1>2, <1>3, <1>5, <1>6, <1>7 DEF Inv

-----------------------------------------------------------------------------
(* The workers.                                                            *)

\* Workers that give up their message, and inboxes that are dropped, move none.
LEMMA GiveUpFrame ==
    ASSUME Inv,
           \A w \in Workers : job'[w] = job[w] \/ job'[w] = NoJob,
           \A w \in Workers : inbox'[w] = inbox[w] \/ inbox'[w] = <<>>,
           cancelled \subseteq cancelled',
           UNCHANGED <<config, sent, stored, hits, late, owner>>
    PROVE  OnceInv' /\ LateInv' /\ HitsInv'
<1>1. OnceInv'
  <2>1. QueuesApart' /\ JobsApart'
    BY DEF Inv, OnceInv, QueuesApart, JobsApart, NoJob
  <2>2. QueuedInv'
    <3>1. \A w \in Workers : \A i \in DOMAIN inbox[w] : inbox[w][i] # NoMessage
      BY DEF Inv, TypeOK
    <3> QED
      BY <3>1 DEF Inv, OnceInv, QueuedInv, NoJob
  <2>3. \A w \in Workers : job'[w].msg \in sent \cup {NoMessage}
    BY DEF Inv, OnceInv, NoJob
  <2>4. \A w \in Workers : job'[w].step \in {"read", "request"} => job'[w].msg \notin stored
    BY DEF Inv, OnceInv, NoJob
  <2> QED
    BY <2>1, <2>2, <2>3, <2>4 DEF Inv, OnceInv
<1>2. LateInv'
  <2> SUFFICES ASSUME NEW m \in late, NEW w \in Workers, job'[w].msg = m
               PROVE  w \in Conns /\ job'[w].step = "read" /\ owner[w] \in cancelled'
    BY DEF Inv, LateInv
  <2>1. job'[w] = job[w]
    BY DEF Inv, TypeOK, NoJob
  <2> QED
    BY <2>1 DEF Inv, LateInv
<1>3. HitsInv'
  <2>1. \A w \in Workers : job'[w].step = "hits" => job'[w] = job[w]
    BY DEF NoJob
  <2> QED
    BY <2>1 DEF Inv, HitsInv, ReceiverOf
<1> QED
  BY <1>1, <1>2, <1>3

\* An idle worker is well typed.
LEMMA NoJobType ==
    /\ NoJob \in Job
    /\ NoJob.step = "idle" /\ NoJob.msg = NoMessage /\ NoJob.todo = {}
BY DEF NoJob, Job

\* A connection ends: nobody had stored the message it gives up.
LEMMA HangupInv ==
    ASSUME Inv, NEW c \in Conns, Hangup(c), conn[c] = "open", job[c].step \in {"idle", "read"},
           UNCHANGED <<config, cancelled, loop, socket, owner, stored, hits, sent, faults,
                       late, failed>>
    PROVE  Inv'
<1>1. c \in Workers /\ c \notin Receivers
  BY DEF Workers
<1>2. /\ job'[c] = NoJob /\ \A v \in Workers : v # c => job'[v] = job[v]
      /\ \A w \in Workers : inbox'[w] = inbox[w] \/ inbox'[w] = <<>>
      /\ conn'[c] = "closed" /\ \A d \in Conns : d # c => conn'[d] = conn[d]
  BY <1>1 DEF Hangup, Inv, TypeOK
<1>3. TypeOK'
  <2>1. /\ conn' \in [Conns -> {"off", "backlog", "open", "closed"}]
        /\ inbox' \in [Workers -> Seq(Messages)]
        /\ job' \in [Workers -> Job]
    BY <1>1, NoJobType DEF Hangup, Inv, TypeOK
  <2>2. \A w \in Workers : /\ job'[w].step = "idle" <=> job'[w].msg = NoMessage
                           /\ job'[w].step = "hits" <=> job'[w].todo # {}
    BY <1>2, NoJobType DEF Inv, TypeOK
  <2> QED
    BY <2>1, <2>2 DEF Inv, TypeOK
<1>4. WorkInv'
  <2>1. \A g \in Receivers : job'[g] = job[g]
    BY <1>1, <1>2 DEF Workers
  <2>2. \A d \in Conns : job'[d] # NoJob => d # c /\ conn'[d] = conn[d] /\ job[d] # NoJob
    BY <1>2 DEF Workers
  <2> QED
    BY <2>1, <2>2 DEF Inv, WorkInv
<1>7. StartedInv'
  BY <1>2 DEF Inv, StartedInv, Returned
<1>5. OnceInv' /\ LateInv' /\ HitsInv'
  BY <1>2, GiveUpFrame
<1>6. HitsAreComplete'
  <2>1. job[c].msg \notin stored
    BY <1>1 DEF Inv, TypeOK, OnceInv
  <2> QED
    BY <1>2, <2>1, HitsFrame DEF Inv
<1> QED
  BY <1>3, <1>4, <1>5, <1>6, <1>7 DEF Inv

\* A message leaves its inbox for the worker's hands.
LEMMA TakeFrame ==
    ASSUME Inv, NEW w \in Workers, inbox[w] # <<>>, job[w] = NoJob,
           inbox' = [inbox EXCEPT ![w] = Tail(@)],
           NEW j \in Job, j.step \in {"idle", "read", "request"},
           j.msg \in {Head(inbox[w]), NoMessage},
           job' = [job EXCEPT ![w] = j],
           late \subseteq late', late' \subseteq late \cup {Head(inbox[w])},
           UNCHANGED <<config, sent, stored, hits, owner, failed>>
    PROVE  /\ inbox' \in [Workers -> Seq(Messages)]
           /\ OnceInv' /\ HitsInv' /\ HitsAreComplete'
           /\ \A v \in Workers : v # w => job'[v].msg # Head(inbox[w])
<1> DEFINE m == Head(inbox[w])
<1>1. /\ inbox[w] \in Seq(Messages) /\ Len(inbox[w]) \in Nat \ {0}
      /\ m = inbox[w][1] /\ 1 \in DOMAIN inbox[w]
      /\ Tail(inbox[w]) \in Seq(Messages)
      /\ DOMAIN Tail(inbox[w]) = 1..(Len(inbox[w]) - 1)
      /\ \A i \in DOMAIN Tail(inbox[w]) :
            i + 1 \in DOMAIN inbox[w] /\ Tail(inbox[w])[i] = inbox[w][i + 1]
  BY DEF Inv, TypeOK
<1>2. inbox' \in [Workers -> Seq(Messages)] /\ inbox'[w] = Tail(inbox[w])
  BY <1>1 DEF Inv, TypeOK
<1>3. \A v \in Workers : v # w => inbox'[v] = inbox[v] /\ job'[v] = job[v]
  BY DEF Inv, TypeOK
<1>4. job'[w] = j /\ job[w].msg = NoMessage
  BY DEF Inv, TypeOK, NoJob
<1>5. /\ m \in sent \ (stored \cup late)
      /\ \A v \in Workers : job[v].msg # m
  BY <1>1 DEF Inv, OnceInv, QueuedInv
<1>6. \A v \in Workers : \A i \in DOMAIN inbox'[v] :
         /\ inbox'[v][i] # m
         /\ \E k \in DOMAIN inbox[v] : inbox'[v][i] = inbox[v][k]
  <2> TAKE v \in Workers
  <2> TAKE i \in DOMAIN inbox'[v]
  <2>1. CASE v = w
    BY <1>1, <1>2, <2>1 DEF Inv, OnceInv, QueuesApart
  <2>2. CASE v # w
    BY <1>1, <1>3, <2>2 DEF Inv, OnceInv, QueuesApart
  <2> QED
    BY <2>1, <2>2
<1> HIDE DEF m
<1>7. QueuesApart'
  <2> SUFFICES ASSUME NEW u \in Workers, NEW v \in Workers,
                      NEW i \in DOMAIN inbox'[u], NEW k \in DOMAIN inbox'[v],
                      inbox'[u][i] = inbox'[v][k]
               PROVE  u = v /\ i = k
    BY DEF QueuesApart
  <2>1. PICK a \in DOMAIN inbox[u] : inbox'[u][i] = inbox[u][a] /\ (IF u = w THEN a = i + 1 ELSE a = i)
    BY <1>1, <1>2, <1>3
  <2>2. PICK b \in DOMAIN inbox[v] : inbox'[v][k] = inbox[v][b] /\ (IF v = w THEN b = k + 1 ELSE b = k)
    BY <1>1, <1>2, <1>3
  <2>3. u = v /\ a = b
    BY <2>1, <2>2 DEF Inv, OnceInv, QueuesApart
  <2>4. i \in Int /\ k \in Int
    <3>1. inbox'[u] \in Seq(Messages) /\ inbox'[v] \in Seq(Messages)
      BY <1>2
    <3> QED
      BY <3>1
  <2> QED
    BY <2>1, <2>2, <2>3, <2>4
<1>8. JobsApart'
  BY <1>3, <1>4, <1>5 DEF Inv, OnceInv, JobsApart, m
<1>9. QueuedInv'
  BY <1>3, <1>4, <1>5, <1>6 DEF Inv, OnceInv, QueuedInv, TypeOK, m
<1>10. OnceInv'
  <2>1. \A v \in Workers : job'[v].msg \in sent \cup {NoMessage}
    BY <1>3, <1>4, <1>5 DEF Inv, OnceInv, m
  <2>2. \A v \in Workers : job'[v].step \in {"read", "request"} => job'[v].msg \notin stored
    BY <1>3, <1>4, <1>5 DEF Inv, OnceInv, TypeOK, m
  <2>3. stored \cup late' \subseteq sent
    BY <1>5 DEF Inv, OnceInv, m
  <2> QED
    BY <1>7, <1>8, <1>9, <2>1, <2>2, <2>3 DEF OnceInv
<1>11. HitsInv'
  <2>1. \A v \in Workers : job'[v].step = "hits" => job'[v] = job[v]
    BY <1>3, <1>4
  <2>2. \A v \in Workers : ReceiverOf(v)' = ReceiverOf(v)
    BY DEF ReceiverOf
  <2> QED
    BY <2>1, <2>2 DEF Inv, HitsInv
<1>12. HitsAreComplete'
  <2>1. \A l \in stored : (\E v \in Workers : job[v].msg = l) => \E v \in Workers : job'[v].msg = l
    BY <1>3, <1>4 DEF Inv, TypeOK
  <2> QED
    BY <2>1, HitsFrame DEF Inv
<1> QED
  BY <1>2, <1>3, <1>5, <1>10, <1>11, <1>12 DEF m

\* A datagram is read and parsed.
LEMMA ReceiveInv ==
    ASSUME Inv, NEW g \in Receivers, ReceiveUDP(g)
    PROVE  Inv'
<1> DEFINE j == Parsed(Head(inbox[g]))
<1>1. g \in Workers /\ Head(inbox[g]) \in Messages
  BY DEF ReceiveUDP, Workers, Inv, TypeOK
<1>2. /\ j \in Job /\ j.step \in {"idle", "request"}
      /\ j.msg \in {Head(inbox[g]), NoMessage}
      /\ j.step = "idle" <=> j.msg = NoMessage
      /\ j.step = "hits" <=> j.todo # {}
  BY <1>1 DEF Parsed, NoJob, Job
<1> HIDE DEF j
<1>3. /\ inbox' \in [Workers -> Seq(Messages)]
      /\ OnceInv' /\ HitsInv' /\ HitsAreComplete'
  BY <1>1, <1>2, TakeFrame DEF ReceiveUDP, j
<1>4. /\ job' \in [Workers -> Job] /\ job'[g] = j
      /\ \A v \in Workers : v # g => job'[v] = job[v]
  BY <1>1, <1>2 DEF ReceiveUDP, Inv, TypeOK, j
<1>5. TypeOK'
  BY <1>2, <1>3, <1>4 DEF ReceiveUDP, Inv, TypeOK
<1>6. StartedInv'
  BY DEF ReceiveUDP, Inv, StartedInv, Returned
<1>7. WorkInv'
  BY <1>2, <1>4 DEF ReceiveUDP, Inv, WorkInv, Workers
<1>8. LateInv'
  BY <1>1, <1>2, <1>4 DEF ReceiveUDP, Inv, TypeOK, LateInv, OnceInv, QueuedInv
<1> QED
  BY <1>3, <1>5, <1>6, <1>7, <1>8 DEF Inv

\* A connection reads a message, or meets one that its buffer cannot hold.
LEMMA ScanInv ==
    ASSUME Inv, NEW c \in Conns, Scan(c)
    PROVE  Inv'
<1>1. c \in Workers /\ c \notin Receivers
  BY DEF Workers
<1> DEFINE m == Head(inbox[c])
           j == [step |-> "read", msg |-> m, todo |-> {}]
<1>2. CASE Hangup(c) /\ late' = late
  BY <1>2, HangupInv DEF Scan, NoJob
<1>3. CASE /\ inbox' = [inbox EXCEPT ![c] = Tail(@)]
           /\ job' = [job EXCEPT ![c] = j]
           /\ late' = IF owner[c] \in cancelled THEN late \cup {m} ELSE late
           /\ conn' = conn
  <2>1. m \in Messages /\ m # NoMessage
    BY <1>1 DEF Scan, Inv, TypeOK
  <2>2. j \in Job /\ j.step = "read" /\ j.msg = m /\ j.todo = {}
    BY <2>1 DEF Job
  <2> HIDE DEF j
  <2>3. /\ inbox' \in [Workers -> Seq(Messages)]
        /\ OnceInv' /\ HitsInv' /\ HitsAreComplete'
        /\ \A v \in Workers : v # c => job'[v].msg # m
    <3>1. late \subseteq late' /\ late' \subseteq late \cup {m}
      BY <1>3
    <3> QED
      BY <1>1, <1>3, <2>2, <3>1, TakeFrame DEF Scan
  <2>4. /\ job' \in [Workers -> Job] /\ job'[c] = j
        /\ \A v \in Workers : v # c => job'[v] = job[v]
    BY <1>1, <1>3, <2>2 DEF Inv, TypeOK
  <2>5. TypeOK'
    BY <1>3, <2>1, <2>2, <2>3, <2>4 DEF Scan, Inv, TypeOK
  <2>6. StartedInv' /\ WorkInv'
    BY <1>1, <1>3, <2>4 DEF Scan, Inv, StartedInv, WorkInv, Returned, Workers
  <2>7. LateInv'
    <3> SUFFICES ASSUME NEW l \in late'
                 PROVE  /\ l \notin stored
                        /\ \A w \in Workers : job'[w].msg = l =>
                              w \in Conns /\ job'[w].step = "read" /\ owner[w] \in cancelled
      BY DEF Scan, LateInv
    <3>1. m \notin stored \cup late
      BY <1>1 DEF Scan, Inv, TypeOK, OnceInv, QueuedInv
    <3>2. CASE l \in late
      BY <2>2, <2>4, <3>1, <3>2 DEF Inv, LateInv
    <3>3. CASE l = m /\ owner[c] \in cancelled
      BY <2>2, <2>3, <2>4, <3>1, <3>3
    <3> QED
      BY <1>3, <3>2, <3>3
  <2> QED
    BY <2>3, <2>5, <2>6, <2>7 DEF Inv
<1> QED
  BY <1>2, <1>3 DEF Scan

\* A connection looks at its context: it hangs up, or parses what it read.
LEMMA CheckInv ==
    ASSUME Inv, NEW c \in Conns, Check(c)
    PROVE  Inv'
<1>1. c \in Workers /\ job[c].step = "read" /\ job[c] \in Job
  BY DEF Workers, Check, Inv, TypeOK
<1>2. CASE Hangup(c)
  <2>1. conn[c] = "open"
    BY <1>1 DEF Inv, WorkInv, NoJob
  <2> QED
    BY <1>1, <1>2, <2>1, HangupInv DEF Check
<1>3. CASE /\ owner[c] \notin cancelled
           /\ job' = [job EXCEPT ![c] = Parsed(@.msg)]
           /\ UNCHANGED <<conn, inbox>>
  <2> DEFINE j == Parsed(job[c].msg)
  <2>1. /\ j \in Job /\ j.step \in {"idle", "request"}
        /\ j.msg \in {job[c].msg, NoMessage}
        /\ j.step = "idle" <=> j.msg = NoMessage
        /\ j.step = "hits" <=> j.todo # {}
        /\ job[c].msg \in Messages /\ job[c].msg # NoMessage
    BY <1>1 DEF Parsed, NoJob, Job, Inv, TypeOK
  <2>2. job' = [job EXCEPT ![c] = j]
    BY <1>3
  <2> HIDE DEF j
  <2>3. job'[c] = j /\ \A v \in Workers : v # c => job'[v] = job[v]
    BY <1>1, <2>2 DEF Inv, TypeOK
  <2>4. TypeOK'
    BY <1>3, <2>1, <2>2, <2>3 DEF Check, Inv, TypeOK
  <2>10. StartedInv'
    BY <1>3 DEF Check, Inv, StartedInv, Returned
  <2>5. WorkInv'
    <3>1. job[c] # NoJob /\ c \notin Receivers
      BY <1>1 DEF NoJob, Workers
    <3> QED
      BY <1>1, <1>3, <2>3, <3>1 DEF Check, Inv, WorkInv, Workers
  <2>6. OnceInv'
    BY <1>1, <1>3, <2>1, <2>3
       DEF Check, Inv, OnceInv, QueuesApart, JobsApart, QueuedInv, TypeOK
  <2>7. LateInv'
    BY <1>1, <1>3, <2>1, <2>3 DEF Check, Inv, LateInv, TypeOK
  <2>8. HitsInv'
    <3>1. \A v \in Workers : job'[v].step = "hits" => job'[v] = job[v]
      BY <2>1, <2>3
    <3> QED
      BY <3>1 DEF Check, Inv, HitsInv, ReceiverOf
  <2>9. HitsAreComplete'
    BY <1>1, <2>3, HitsFrame DEF Check, Inv, OnceInv
  <2> QED
    BY <2>4, <2>5, <2>6, <2>7, <2>8, <2>9, <2>10 DEF Inv
<1> QED
  BY <1>2, <1>3 DEF Check

\* The request is inserted, with its keyword hits to follow.
LEMMA InsertRequestInv ==
    ASSUME Inv, NEW w \in Workers, InsertRequest(w)
    PROVE  Inv'
<1> DEFINE m == job[w].msg
           words == Matches[m] \cap config[ReceiverOf(w)].keywords
           j == Remaining(m, words)
<1>1. /\ job[w].step = "request" /\ m \in Messages /\ m # NoMessage
      /\ stored' = stored \cup {m}
      /\ job' = [job EXCEPT ![w] = j]
      /\ UNCHANGED <<config, cancelled, loop, socket, conn, owner, inbox, hits, sent, faults,
                     late, failed>>
  BY DEF InsertRequest, Inv, TypeOK, Job
<1>2. /\ words \subseteq Words /\ ReceiverOf(w) \in 1..Len(config)
      /\ job[w] # NoJob
  BY <1>1, WorkersAreOwned DEF Inv, NoJob
<1> HIDE DEF words
<1>3. /\ j \in Job /\ j.step \in {"idle", "hits"} /\ j.msg \in {m, NoMessage}
      /\ j.step = "idle" <=> j.msg = NoMessage
      /\ j.step = "hits" <=> j.todo # {}
      /\ j.todo = words
  BY <1>1, <1>2 DEF Remaining, NoJob, Job
<1> HIDE DEF j
<1>4. job'[w] = j /\ \A v \in Workers : v # w => job'[v] = job[v] /\ job[v].msg # m
  BY <1>1 DEF Inv, TypeOK, OnceInv, JobsApart
<1>5. m \notin stored \cup late
  BY <1>1 DEF Inv, OnceInv, LateInv
<1> HIDE DEF m
<1>6. TypeOK'
  BY <1>1, <1>3, <1>4 DEF Inv, TypeOK
<1>7. StartedInv' /\ WorkInv'
  BY <1>1, <1>2, <1>3, <1>4 DEF Inv, StartedInv, WorkInv, Returned, Workers
<1>8. OnceInv'
  <2>1. QueuesApart' /\ JobsApart'
    BY <1>1, <1>3, <1>4 DEF Inv, OnceInv, QueuesApart, JobsApart
  <2>2. QueuedInv'
    BY <1>1, <1>3, <1>4 DEF Inv, TypeOK, OnceInv, QueuedInv, m
  <2>3. m \in sent
    BY <1>1 DEF Inv, OnceInv, m
  <2> QED
    BY <1>1, <1>3, <1>4, <2>1, <2>2, <2>3 DEF Inv, OnceInv
<1>9. LateInv'
  BY <1>1, <1>3, <1>4, <1>5 DEF Inv, LateInv, TypeOK
<1>10. HitsInv'
  <2>1. hits[m] = {}
    BY <1>1, <1>5 DEF Inv, HitsInv
  <2>2. ReceiverOf(w)' = ReceiverOf(w)
    BY <1>1 DEF ReceiverOf
  <2>3. j.step = "hits" => hits[m] \cup j.todo = Matches[m] \cap config[ReceiverOf(w)].keywords
    BY <1>3, <2>1 DEF words
  <2> QED
    BY <1>1, <1>3, <1>4, <2>2, <2>3 DEF Inv, HitsInv, ReceiverOf
<1>11. HitsAreComplete'
  <2> SUFFICES ASSUME NEW l \in stored' \ failed, \A v \in Workers : job'[v].msg # l
               PROVE  \E g \in 1..Len(config) : hits[l] = Matches[l] \cap config[g].keywords
    BY <1>1 DEF HitsAreComplete
  <2>1. CASE l = m
    <3>1. j.step = "idle" /\ words = {}
      BY <1>3, <1>4, <2>1
    <3>2. hits[m] = {}
      BY <1>1, <1>5 DEF Inv, HitsInv
    <3> QED
      BY <1>2, <2>1, <3>1, <3>2 DEF words
  <2>2. CASE l \in stored /\ l # m
    <3>1. \A v \in Workers : job[v].msg # l
      BY <1>4, <2>2 DEF m
    <3> QED
      BY <2>2, <3>1 DEF Inv, HitsAreComplete
  <2> QED
    BY <1>1, <2>1, <2>2
<1> QED
  BY <1>6, <1>7, <1>8, <1>9, <1>10, <1>11 DEF Inv

\* One keyword hit is inserted.
LEMMA InsertHitInv ==
    ASSUME Inv, NEW w \in Workers, InsertHit(w)
    PROVE  Inv'
<1> DEFINE m == job[w].msg
           k == CHOOSE x \in job[w].todo : TRUE
           rest == job[w].todo \ {k}
           j == Remaining(m, rest)
<1>1. /\ job[w].step = "hits" /\ m \in Messages /\ m # NoMessage
      /\ k \in job[w].todo /\ job[w].todo \subseteq Words
      /\ hits' = [hits EXCEPT ![m] = @ \cup {k}]
      /\ job' = [job EXCEPT ![w] = j]
      /\ UNCHANGED <<config, cancelled, loop, socket, conn, owner, inbox, stored, sent, faults,
                     late, failed>>
  BY DEF InsertHit, Inv, TypeOK, Job
<1>2. ReceiverOf(w) \in 1..Len(config) /\ job[w] # NoJob
  BY <1>1, WorkersAreOwned DEF Inv, NoJob
<1> HIDE DEF k
<1>3. /\ j \in Job /\ j.step \in {"idle", "hits"} /\ j.msg \in {m, NoMessage}
      /\ j.step = "idle" <=> j.msg = NoMessage
      /\ j.step = "hits" <=> j.todo # {}
      /\ j.todo = rest
  BY <1>1 DEF Remaining, NoJob, Job
<1> HIDE DEF j
<1>4. job'[w] = j /\ \A v \in Workers : v # w => job'[v] = job[v] /\ job[v].msg # m
  BY <1>1 DEF Inv, TypeOK, OnceInv, JobsApart
<1>5. /\ m \in stored
      /\ hits[m] \cup job[w].todo = Matches[m] \cap config[ReceiverOf(w)].keywords
  BY <1>1 DEF Inv, HitsInv
<1>6. /\ hits'[m] \cup rest = Matches[m] \cap config[ReceiverOf(w)].keywords
      /\ \A l \in Messages : l # m => hits'[l] = hits[l]
  BY <1>1, <1>5 DEF Inv, TypeOK
<1> HIDE DEF m
<1>7. TypeOK'
  BY <1>1, <1>3, <1>4 DEF Inv, TypeOK
<1>8. StartedInv' /\ WorkInv'
  BY <1>1, <1>2, <1>3, <1>4 DEF Inv, StartedInv, WorkInv, Returned, Workers
<1>9. OnceInv'
  <2>1. QueuesApart' /\ JobsApart'
    BY <1>1, <1>3, <1>4 DEF Inv, OnceInv, QueuesApart, JobsApart
  <2>2. QueuedInv'
    BY <1>1, <1>3, <1>4 DEF Inv, TypeOK, OnceInv, QueuedInv, m
  <2> QED
    BY <1>1, <1>3, <1>4, <2>1, <2>2 DEF Inv, OnceInv, m
<1>10. LateInv'
  <2>1. m \notin late
    BY <1>5 DEF Inv, LateInv
  <2>2. \A l \in late : l # NoMessage
    BY DEF Inv, TypeOK
  <2>3. \A l \in late, v \in Workers : job'[v].msg = l => v # w
    BY <1>3, <1>4, <2>1, <2>2
  <2> QED
    BY <1>1, <1>4, <2>3 DEF Inv, LateInv
<1>11. HitsInv'
  <2>1. \A v \in Workers : ReceiverOf(v)' = ReceiverOf(v)
    BY <1>1 DEF ReceiverOf
  <2>2. \A v \in Workers : job'[v].step = "hits" =>
           /\ job'[v].msg \in stored
           /\ hits'[job'[v].msg] \cup job'[v].todo =
                 Matches[job'[v].msg] \cap config[ReceiverOf(v)].keywords
    <3> TAKE v \in Workers
    <3>1. CASE v = w
      BY <1>3, <1>4, <1>5, <1>6, <3>1 DEF Inv, TypeOK
    <3>2. CASE v # w
      BY <1>4, <1>6, <3>2 DEF Inv, TypeOK, HitsInv
    <3> QED
      BY <3>1, <3>2
  <2>3. \A l \in Messages \ stored : hits'[l] = {}
    BY <1>5, <1>6 DEF Inv, HitsInv
  <2> QED
    BY <1>1, <2>1, <2>2, <2>3 DEF HitsInv
<1>12. HitsAreComplete'
  <2> SUFFICES ASSUME NEW l \in stored \ failed, \A v \in Workers : job'[v].msg # l
               PROVE  \E g \in 1..Len(config) : hits'[l] = Matches[l] \cap config[g].keywords
    BY <1>1 DEF HitsAreComplete
  <2>1. CASE l = m
    <3>1. rest = {}
      BY <1>3, <1>4, <2>1
    <3> QED
      BY <1>2, <1>6, <2>1, <3>1
  <2>2. CASE l # m
    <3>1. \A v \in Workers : job[v].msg # l
      BY <1>4, <2>2 DEF m
    <3>2. hits'[l] = hits[l]
      BY <1>6, <2>2 DEF Inv, TypeOK
    <3> QED
      BY <3>1, <3>2 DEF Inv, HitsAreComplete
  <2> QED
    BY <2>1, <2>2
<1> QED
  BY <1>7, <1>8, <1>9, <1>10, <1>11, <1>12 DEF Inv

\* A statement fails: the message is given up and counts as failed.
LEMMA InsertFailsInv ==
    ASSUME Inv, NEW w \in Workers, InsertFails(w)
    PROVE  Inv'
<1>1. /\ job' = [job EXCEPT ![w] = NoJob]
      /\ failed' = failed \cup {job[w].msg}
      /\ UNCHANGED <<config, cancelled, loop, socket, conn, owner, inbox, stored, hits, sent,
                     late>>
      /\ faults' \in 0..MaxFaults /\ job[w].msg \in Messages
  BY DEF InsertFails, Inv, TypeOK, Job
<1>2. job'[w] = NoJob /\ \A v \in Workers : v # w => job'[v] = job[v]
  BY <1>1 DEF Inv, TypeOK
<1>3. TypeOK'
  BY <1>1, <1>2, NoJobType DEF Inv, TypeOK
<1>7. StartedInv'
  BY <1>1 DEF Inv, StartedInv, Returned
<1>4. WorkInv'
  <2>1. \A v \in Workers : job'[v] = NoJob \/ job'[v] = job[v]
    BY <1>2
  <2> QED
    BY <1>1, <2>1, NoJobType DEF Inv, WorkInv, Workers
<1>5. OnceInv' /\ LateInv' /\ HitsInv'
  BY <1>1, <1>2, GiveUpFrame DEF Inv
<1>6. HitsAreComplete'
  BY <1>1, <1>2, HitsFrame DEF Inv
<1> QED
  BY <1>3, <1>4, <1>5, <1>6, <1>7 DEF Inv

-----------------------------------------------------------------------------
(* The peers and the process.                                              *)

\* A message is sent: it joins the end of one inbox.
LEMMA DeliverFrame ==
    ASSUME Inv, NEW w \in Workers, NEW m \in Messages, m \notin sent, Deliver(w, m),
           sent' = sent \cup {m},
           UNCHANGED <<config, job, stored, hits, late, failed, owner>>
    PROVE  /\ inbox' \in [Workers -> Seq(Messages)]
           /\ OnceInv' /\ HitsInv' /\ HitsAreComplete'
<1>1. inbox[w] \in Seq(Messages) /\ inbox'[w] = Append(inbox[w], m)
  BY DEF Deliver, Inv, TypeOK
<1>2. inbox' \in [Workers -> Seq(Messages)]
  BY <1>1 DEF Deliver, Inv, TypeOK
<1>3. \A v \in Workers : v # w => inbox'[v] = inbox[v]
  BY DEF Deliver, Inv, TypeOK
<1>4. /\ DOMAIN inbox'[w] = 1..(Len(inbox[w]) + 1) /\ DOMAIN inbox[w] = 1..Len(inbox[w])
      /\ Len(inbox[w]) \in Nat
      /\ inbox'[w][Len(inbox[w]) + 1] = m
      /\ \A i \in 1..Len(inbox[w]) : inbox'[w][i] = inbox[w][i]
  BY <1>1
<1>5. \A v \in Workers : \A i \in DOMAIN inbox'[v] :
         \/ i \in DOMAIN inbox[v] /\ inbox'[v][i] = inbox[v][i] /\ inbox[v][i] # m
         \/ v = w /\ i = Len(inbox[w]) + 1 /\ inbox'[v][i] = m
  <2> TAKE v \in Workers
  <2> TAKE i \in DOMAIN inbox'[v]
  <2>1. i \in DOMAIN inbox[v] => inbox[v][i] # m
    BY DEF Inv, OnceInv, QueuedInv
  <2>2. CASE v # w
    BY <1>3, <2>1, <2>2
  <2>3. CASE v = w
    <3>1. i \in 1..Len(inbox[w]) \/ i = Len(inbox[w]) + 1
      BY <1>4, <2>3
    <3> QED
      BY <1>4, <2>1, <2>3, <3>1
  <2> QED
    BY <2>2, <2>3
<1>6. QueuesApart'
  <2> SUFFICES ASSUME NEW u \in Workers, NEW v \in Workers,
                      NEW i \in DOMAIN inbox'[u], NEW k \in DOMAIN inbox'[v],
                      inbox'[u][i] = inbox'[v][k]
               PROVE  u = v /\ i = k
    BY DEF QueuesApart
  <2> QED
    BY <1>5 DEF Inv, OnceInv, QueuesApart
<1>7. QueuedInv'
  <2>1. m \notin stored \cup late /\ m # NoMessage /\ \A v \in Workers : job[v].msg # m
    BY DEF Inv, OnceInv
  <2> QED
    BY <1>5, <2>1 DEF Inv, OnceInv, QueuedInv
<1>8. OnceInv'
  BY <1>6, <1>7 DEF Inv, OnceInv, JobsApart
<1>9. HitsInv' /\ HitsAreComplete'
  BY HitsFrame DEF Inv, HitsInv, ReceiverOf
<1> QED
  BY <1>2, <1>8, <1>9

\* A datagram arrives.
LEMMA SendUDPInv ==
    ASSUME Inv, NEW m \in Messages, SendUDP(m)
    PROVE  Inv'
<1>1. PICK g \in Receivers : Deliver(g, m)
  BY DEF SendUDP
<1>2. /\ inbox' \in [Workers -> Seq(Messages)]
      /\ OnceInv' /\ HitsInv' /\ HitsAreComplete'
  BY <1>1, DeliverFrame DEF SendUDP, Workers
<1>3. TypeOK'
  BY <1>2 DEF SendUDP, Inv, TypeOK
<1>4. StartedInv' /\ WorkInv' /\ LateInv'
  BY DEF SendUDP, Inv, StartedInv, WorkInv, LateInv, Returned
<1> QED
  BY <1>2, <1>3, <1>4 DEF Inv

\* A message arrives on a connection.
LEMMA SendTCPInv ==
    ASSUME Inv, NEW c \in Conns, NEW m \in Messages, SendTCP(c, m)
    PROVE  Inv'
<1>1. /\ inbox' \in [Workers -> Seq(Messages)]
      /\ OnceInv' /\ HitsInv' /\ HitsAreComplete'
  BY DeliverFrame DEF SendTCP, Workers
<1>2. TypeOK'
  BY <1>1 DEF SendTCP, Inv, TypeOK
<1>3. StartedInv' /\ WorkInv' /\ LateInv'
  BY DEF SendTCP, Inv, StartedInv, WorkInv, LateInv, Returned
<1> QED
  BY <1>1, <1>2, <1>3 DEF Inv

\* A peer connects to an open socket, and so to a receiver that was started.
LEMMA ConnectInv ==
    ASSUME Inv, NEW c \in Conns, Connect(c)
    PROVE  Inv'
<1>1. PICK g \in Receivers : socket["tcp"][g] = "open" /\ owner' = [owner EXCEPT ![c] = g]
  BY DEF Connect
<1>2. g \in 1..Len(config) /\ g \in 0..MaxStarts
  BY <1>1 DEF Inv, TypeOK, StartedInv, Nets, Receivers
<1>3. /\ conn[c] = "off" /\ conn' = [conn EXCEPT ![c] = "backlog"]
      /\ UNCHANGED <<config, cancelled, loop, socket, inbox, job, stored, hits, sent, faults,
                     late, failed>>
  BY DEF Connect
<1>4. job[c] = NoJob /\ c \in Workers
  BY <1>3 DEF Inv, WorkInv, Workers
<1>5. /\ owner'[c] = g /\ conn'[c] = "backlog"
      /\ \A d \in Conns : d # c => owner'[d] = owner[d] /\ conn'[d] = conn[d]
  BY <1>1, <1>3 DEF Inv, TypeOK
<1>6. TypeOK'
  <2>1. /\ owner' \in [Conns -> 0..MaxStarts]
        /\ conn' \in [Conns -> {"off", "backlog", "open", "closed"}]
    BY <1>1, <1>2, <1>3 DEF Inv, TypeOK
  <2> QED
    BY <1>3, <2>1 DEF Inv, TypeOK
<1>7. StartedInv'
  BY <1>2, <1>3, <1>5 DEF Inv, StartedInv, Returned
<1>8. WorkInv'
  BY <1>3, <1>4, <1>5 DEF Inv, WorkInv
<1>9. OnceInv'
  BY <1>3, OnceFrame DEF Inv
<1>10. LateInv'
  <2>1. \A m \in late, w \in Workers : job[w].msg = m => w # c
    BY <1>4, NoJobType DEF Inv, TypeOK
  <2> QED
    BY <1>3, <1>5, <2>1 DEF Inv, LateInv
<1>11. HitsInv'
  <2>1. \A w \in Workers : job[w].step = "hits" => ReceiverOf(w)' = ReceiverOf(w)
    BY <1>4, <1>5, NoJobType DEF ReceiverOf
  <2> QED
    BY <1>3, <2>1 DEF Inv, HitsInv
<1>12. HitsAreComplete'
  BY <1>3, HitsFrame DEF Inv
<1> QED
  BY <1>6, <1>7, <1>8, <1>9, <1>10, <1>11, <1>12 DEF Inv

\* The peer is done.
LEMMA EofInv ==
    ASSUME Inv, NEW c \in Conns, Eof(c)
    PROVE  Inv'
BY HangupInv, NoJobType DEF Eof

\* The process is gone, with what it worked on.
LEMMA CrashInv ==
    ASSUME Inv, Crash
    PROVE  Inv'
<1>1. /\ failed' = failed \cup ({job[w].msg : w \in Workers} \ {NoMessage})
      /\ cancelled' = 1..Len(config)
      /\ UNCHANGED <<config, owner, stored, hits, sent, late>>
      /\ \A w \in Workers : inbox'[w] = <<>> /\ job'[w] = NoJob
      /\ \A n \in Nets, g \in Receivers :
            /\ loop'[n][g] = IF loop[n][g] = "off" THEN "off" ELSE "returned"
            /\ socket'[n][g] = IF socket[n][g] = "none" THEN "none" ELSE "closed"
      /\ \A c \in Conns : conn'[c] = IF conn[c] = "off" THEN "off" ELSE "closed"
  BY DEF Crash
<1>2. cancelled \subseteq cancelled'
  BY <1>1 DEF Inv, TypeOK
<1>3. TypeOK'
  <2>1. /\ loop' \in [Nets -> [Receivers -> {"off", "bind", "wait", "returned"}]]
        /\ socket' \in [Nets -> [Receivers -> {"none", "open", "evicted", "closed"}]]
        /\ conn' \in [Conns -> {"off", "backlog", "open", "closed"}]
        /\ inbox' \in [Workers -> Seq(Messages)]
        /\ job' \in [Workers -> Job]
    BY NoJobType DEF Crash
  <2>2. failed' \subseteq Messages /\ faults' \in 0..MaxFaults
    <3>1. \A w \in Workers : job[w].msg \in Messages \cup {NoMessage}
      BY DEF Inv, TypeOK, Job
    <3> QED
      BY <1>1, <3>1 DEF Crash, Inv, TypeOK
  <2> QED
    BY <1>1, <2>1, <2>2, NoJobType DEF Inv, TypeOK
<1>4. StartedInv'
  <2>1. \A g \in Receivers : Returned(g)'
    BY <1>1 DEF Returned
  <2>2. \A g \in Receivers : g < Len(config) => g \in cancelled'
    BY <1>2 DEF Inv, StartedInv
  <2> QED
    BY <1>1, <2>1, <2>2 DEF Inv, StartedInv
<1>5. WorkInv'
  BY <1>1, NoJobType DEF WorkInv, Workers
<1>6. OnceInv' /\ LateInv' /\ HitsInv'
  BY <1>1, <1>2, GiveUpFrame
<1>7. HitsAreComplete'
  <2>1. \A m \in stored \ failed' : \A w \in Workers : job[w].msg # m
    BY <1>1 DEF Inv, TypeOK
  <2> QED
    BY <1>1, <2>1, HitsFrame DEF Inv
<1> QED
  BY <1>3, <1>4, <1>5, <1>6, <1>7 DEF Inv

-----------------------------------------------------------------------------
(* The theorems.                                                           *)

\* Every step keeps the invariant.
LEMMA StepInv == Inv /\ [Next]_vars => Inv'
<1> SUFFICES ASSUME Inv, [Next]_vars PROVE Inv'
  OBVIOUS
<1>1. CASE Start \/ Cancel \/ Crash
  BY <1>1, StartInv, CancelInv, CrashInv
<1>2. ASSUME NEW w \in Workers, Insert(w) \/ InsertFails(w) PROVE Inv'
  BY <1>2, InsertRequestInv, InsertHitInv, InsertFailsInv DEF Insert
<1>3. ASSUME NEW n \in Nets, NEW g \in Receivers,
             Listener(n, g) \/ Closer(n, g) \/ ListenFails(n, g)
      PROVE  Inv'
  <2>1. CASE Insert(g)
    BY <1>2, <2>1 DEF Workers
  <2>2. CASE Bind(n, g) \/ Return(n, g) \/ ReceiveUDP(g) \/ AcceptTCP(g)
    BY <2>2, BindInv, ReturnInv, ReceiveInv, AcceptInv
  <2>3. CASE Closer(n, g) \/ ListenFails(n, g)
    BY <2>3, CloseBeginsInv, CloseEndsInv, ListenFailsInv DEF Closer
  <2> QED
    BY <1>3, <2>1, <2>2, <2>3 DEF Listener
<1>4. ASSUME NEW c \in Conns, Connection(c) \/ Connect(c) \/ Eof(c) PROVE Inv'
  <2>1. CASE Insert(c)
    BY <1>2, <2>1 DEF Workers
  <2>2. CASE Scan(c) \/ Check(c) \/ Connect(c) \/ Eof(c)
    BY <2>2, ScanInv, CheckInv, ConnectInv, EofInv
  <2> QED
    BY <1>4, <2>1, <2>2 DEF Connection
<1>5. ASSUME NEW m \in Messages, SendUDP(m) \/ \E c \in Conns : SendTCP(c, m) PROVE Inv'
  BY <1>5, SendUDPInv, SendTCPInv
<1>6. CASE UNCHANGED vars
  <2> USE <1>6 DEF vars, Inv
  <2>1. TypeOK'
    BY DEF TypeOK
  <2>2. StartedInv' /\ WorkInv' /\ LateInv'
    BY DEF StartedInv, Returned, WorkInv, LateInv
  <2>3. HitsInv' /\ HitsAreComplete'
    BY HitsFrame DEF HitsInv, ReceiverOf
  <2> QED
    BY <2>1, <2>2, <2>3, OnceFrame
<1> QED
  BY <1>1, <1>2, <1>3, <1>4, <1>5, <1>6 DEF Next

\* The invariant holds throughout.
LEMMA Invariance == Spec => []Inv
<1> QED
  BY InitInv, StepInv, PTL DEF Spec

\* The variables of the syslog source keep their types, whatever is configured,
\* sent, stopped and lost.
THEOREM TypeCorrect == Spec => []TypeOK
<1>1. Inv => TypeOK
  BY DEF Inv
<1> QED
  BY <1>1, Invariance, PTL

\* A stop of the receiver is final: nothing a connection reads after it is
\* stored, and no UDP listener before the current one works on anything.
THEOREM StopIsFinal == Spec => []PredecessorIsSilent
<1>1. Inv => PredecessorIsSilent
  <2> SUFFICES ASSUME Inv PROVE PredecessorIsSilent
    OBVIOUS
  <2>1. late \cap stored = {}
    BY DEF Inv, LateInv
  <2>2. \A g \in 1..(Len(config) - 1) : job[g] = NoJob
    <3> TAKE g \in 1..(Len(config) - 1)
    <3>1. g \in Receivers /\ g < Len(config)
      BY DEF Inv, TypeOK, Receivers
    <3>2. loop["udp"][g] # "wait"
      BY <3>1 DEF Inv, StartedInv, Returned, Nets
    <3> QED
      BY <3>1, <3>2 DEF Inv, WorkInv
  <2> QED
    BY <2>1, <2>2 DEF PredecessorIsSilent
<1> QED
  BY <1>1, Invariance, PTL

\* The statements of Insert add up: a stored request that nobody works on has
\* the keyword hits of one receiver, unless a statement failed.
THEOREM HitsComplete == Spec => []HitsAreComplete
<1>1. Inv => HitsAreComplete
  BY DEF Inv
<1> QED
  BY <1>1, Invariance, PTL
=============================================================================
