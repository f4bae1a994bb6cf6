---------------------------- MODULE AtLeastOnce -----------------------------
(***************************************************************************)
(* What a source that remembers its place promises, whatever files, names, *)
(* offsets and fingerprints it is built from: lines are delivered to the   *)
(* requests table in attempts.  The lines of an attempt that is settled    *)
(* are not delivered again; those of an attempt that failed may be.        *)
(***************************************************************************)
EXTENDS Naturals

CONSTANTS
    Lines,      \* the lines there may be, 1..n
    MaxCopies   \* copies of a line are counted up to here

VARIABLES
    appended,   \* lines written so far
    copies,     \* copies[l]: how often line l was delivered
    open,       \* lines delivered by the attempt under way
    retry       \* lines of failed attempts

vars == <<appended, copies, open, retry>>

Init ==
    /\ appended = 0
    /\ copies = [l \in Lines |-> 0]
    /\ open = {}
    /\ retry = {}

Append ==
    /\ appended' = appended + 1
    /\ UNCHANGED <<copies, open, retry>>

\* Each line of a delivery has been written, is new to the attempt, and is new
\* to the table unless an attempt at it failed.
Fresh(B) ==
    \A l \in B : /\ l <= appended
                 /\ l \notin open
                 /\ copies[l] = 0 \/ l \in retry

Add(B) ==
    copies' = [l \in Lines |-> IF l \in B /\ copies[l] < MaxCopies
                               THEN copies[l] + 1 ELSE copies[l]]

Deliver(B) ==
    /\ Fresh(B)
    /\ Add(B)
    /\ open' = open \cup B
    /\ UNCHANGED <<appended, retry>>

\* The attempt is remembered as done ...
Settle ==
    /\ open' = {}
    /\ UNCHANGED <<appended, copies, retry>>

\* ... or it is not, be it after a last delivery.
GiveUp(B) ==
    /\ Fresh(B)
    /\ Add(B)
    /\ open' = {}
    /\ retry' = retry \cup open \cup B
    /\ UNCHANGED appended

Next ==
    \/ Append
    \/ Settle
    \/ \E B \in SUBSET Lines : Deliver(B) \/ GiveUp(B)

Spec == Init /\ [][Next]_vars
=============================================================================
