------------------------------- MODULE Ingest -------------------------------
(***************************************************************************)
(* What the file and the directory source share: the line scanner with its *)
(* bounded buffer, the batches of parsed entries, and the requests table   *)
(* they are inserted into.  Parsing itself is abstracted to whether a token*)
(* is a complete line.                                                     *)
(***************************************************************************)
EXTENDS LogDirectory, FiniteSets

CONSTANTS
    BatchSize,  \* entries inserted in one transaction
    ChunkSize,  \* the scanner's buffer, in cells
    Oversize,   \* lines longer than the scanner's buffer
    MaxStored   \* bound: rows of one line are counted up to here

ASSUME ScannerAssumption ==
    /\ BatchSize \in Nat \ {0}
    /\ ChunkSize \in Nat \ {0}
    /\ Oversize \subseteq Lines
    /\ MaxStored \in Nat \ {0, 1}

VARIABLE
    stored      \* stored[l]: how many rows of the requests table hold line l,
                \* counted up to MaxStored

StoredTypeOK == stored \in [Lines -> 0..MaxStored]
StoredInit == stored = [l \in Lines |-> 0]

Prefix(s, n) == SubSeq(s, 1, IF n < Len(s) THEN n ELSE Len(s))

\* What the scanner's next read of the file with these cells returns.
Chunk(s, pos) == Prefix(SubSeq(s, pos + 1, Len(s)), ChunkSize)

\* The i-th cell of s ends a token the parser accepts: a terminated line, or
\* the second half of a line right behind the first.  A half on its own is a
\* token too, but not one that parses.
Completes(s, i) ==
    \/ s[i].part = "whole"
    \/ s[i].part = "tail" /\ i > 1 /\ s[i - 1].part = "head"

\* The line cut in two by the end of s.
HalfLine(s) ==
    {s[i].line : i \in {n \in DOMAIN s : n = Len(s) /\ s[n].part = "head"}}

TooLong(s) == \E i \in DOMAIN s : s[i].line \in Oversize

\* A gzip stream read to its end.
Finished(s) == ~TooLong(s) /\ s # <<>> /\ s[Len(s)] = Trailer

\* The entries a scanner produces from s: it stops for good at a token that
\* does not fit its buffer.
Entries(s) ==
    {i \in DOMAIN s : /\ Completes(s, i)
                      /\ \A j \in 1..i : s[j].line \notin Oversize}

\* The k-th cell of s completes the first batch.
EndsBatch(s, k) ==
    /\ k \in Entries(s)
    /\ Cardinality({i \in Entries(s) : i <= k}) = BatchSize

BatchFull(s) == \E k \in DOMAIN s : EndsBatch(s, k)

\* The lines the cells E of s belong to.
LinesAt(s, E) == {s[i].line : i \in E}

\* storage.InsertBatch: one transaction for all the entries that end at the
\* cells E of s.  No line occurs twice in one file.
InsertBatch(s, E) ==
    stored' = [l \in Lines |->
                 IF stored[l] < MaxStored /\ \E i \in E : s[i].line = l
                 THEN stored[l] + 1
                 ELSE stored[l]]
=============================================================================
