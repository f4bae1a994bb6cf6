---------------------------- MODULE LogDirectory ----------------------------
(***************************************************************************)
(* The directory the watchers read: web servers append to live log files   *)
(* and a log rotator renames, truncates and compresses them.  None of this *)
(* is code of the repository; it is modelled from how the watchers use it  *)
(* (os.Stat, os.Open, inode numbers, sizes) and from the rotations the     *)
(* tests and the README name: rename + recreate, copytruncate, gzip.       *)
(*                                                                         *)
(* The unit of a file's size and of every offset is the cell: a whole      *)
(* terminated line, one of the two halves of a line whose write was split, *)
(* or the end-of-stream trailer of a gzip archive.  The n-th line written  *)
(* is the line n, so no two lines have the same bytes.                     *)
(***************************************************************************)
EXTENDS Naturals, Sequences

CONSTANTS
    Paths,          \* the file names under the source's root
    Live,           \* the names web servers append to
    Rotating,       \* those of them the rotator is configured for
    RotatedName,    \* RotatedName[p]: what rotation renames or copies p to
    ArchiveName,    \* ArchiveName[p]: where the rotated file of p is compressed
    Inodes,         \* inode numbers; a freed one may be reused
    NoInode,        \* "no such file"
    RotationKinds,  \* what the rotator does, a subset of RotationKind
    SplitLines,     \* the lines a server may write in two pieces
    MaxLines,       \* bound: lines ever written
    MaxRotations    \* bound: rotation steps of every kind

RotationKind == {"rename", "copytruncate", "compress", "publish"}

ASSUME PathsAssumption ==
    /\ Paths # {}
    /\ Live \subseteq Paths /\ Rotating \subseteq Live
    /\ RotatedName \in [Rotating -> Paths]
    /\ ArchiveName \in [Rotating -> Paths]

ASSUME InodesAssumption == NoInode \notin Inodes

ASSUME RotationAssumption ==
    /\ RotationKinds \subseteq RotationKind
    /\ SplitLines \subseteq 1..MaxLines

ASSUME BoundsAssumption == MaxLines \in Nat /\ MaxRotations \in Nat

VARIABLES
    dir,       \* dir[p]: the inode the name p refers to, or NoInode
    data,      \* data[i]: the cells of inode i, in order
    wfd,       \* wfd[p]: the inode the server writing p has open, or NoInode
    written,   \* how many lines have been written (or begun)
    rotations  \* how many rotation steps were taken

dirVars == <<dir, data, wfd, written, rotations>>

Lines == 1..MaxLines
Whole(l) == [line |-> l, part |-> "whole"]
HeadOf(l) == [line |-> l, part |-> "head"]
TailOf(l) == [line |-> l, part |-> "tail"]
Trailer == [line |-> 0, part |-> "trailer"]
Cell == [line : Lines, part : {"whole", "head", "tail"}] \cup {Trailer}

DirTypeOK ==
    /\ dir \in [Paths -> Inodes \cup {NoInode}]
    /\ data \in [Inodes -> Seq(Cell)]
    /\ wfd \in [Live -> Inodes \cup {NoInode}]
    /\ written \in 0..MaxLines
    /\ rotations \in 0..MaxRotations

DirInit ==
    /\ dir = [p \in Paths |-> NoInode]
    /\ data = [i \in Inodes |-> <<>>]
    /\ wfd = [p \in Live |-> NoInode]
    /\ written = 0
    /\ rotations = 0

Exists(p) == dir[p] # NoInode

\* An inode is free when no name refers to it and no process holds it open;
\* held is the set of inodes the reading process has open.
Free(held) ==
    {i \in Inodes \ held : /\ \A p \in Paths : dir[p] # i
                           /\ \A p \in Live : wfd[p] # i}

HalfWritten(i) ==
    data[i] # <<>> /\ data[i][Len(data[i])].part = "head"

-----------------------------------------------------------------------------
(* The web servers.                                                        *)

\* (Re)open the log, creating it: at start-up, or on the signal that follows
\* a rename.  Until then the server goes on writing to the renamed file.
OpenLog(p, held) ==
    /\ ~Exists(p)
    /\ \E i \in Free(held) :
          /\ dir' = [dir EXCEPT ![p] = i]
          /\ data' = [data EXCEPT ![i] = <<>>]
          /\ wfd' = [wfd EXCEPT ![p] = i]
    /\ UNCHANGED <<written, rotations>>

Write(p, c) ==
    /\ wfd[p] # NoInode
    /\ data' = [data EXCEPT ![wfd[p]] = Append(@, c)]
    /\ UNCHANGED <<dir, wfd, rotations>>

WriteLine(p) ==
    /\ written < MaxLines
    /\ wfd[p] # NoInode => ~HalfWritten(wfd[p])
    /\ Write(p, Whole(written + 1))
    /\ written' = written + 1

WriteHead(p) ==
    /\ written < MaxLines
    /\ written + 1 \in SplitLines
    /\ wfd[p] # NoInode => ~HalfWritten(wfd[p])
    /\ Write(p, HeadOf(written + 1))
    /\ written' = written + 1

WriteTail(p) ==
    /\ wfd[p] # NoInode
    /\ HalfWritten(wfd[p])
    /\ Write(p, TailOf(data[wfd[p]][Len(data[wfd[p]])].line))
    /\ UNCHANGED written

-----------------------------------------------------------------------------
(* The log rotator.                                                        *)

Rotates(kind) ==
    /\ kind \in RotationKinds
    /\ rotations < MaxRotations
    /\ rotations' = rotations + 1

Rename(p) ==
    /\ Exists(p)
    /\ Rotates("rename")
    /\ dir' = [dir EXCEPT ![p] = NoInode, ![RotatedName[p]] = dir[p]]
    /\ UNCHANGED <<data, wfd, written>>

CopyTruncate(p, held) ==
    /\ Exists(p)
    /\ Rotates("copytruncate")
    /\ \E i \in Free(held) :
          /\ dir' = [dir EXCEPT ![RotatedName[p]] = i]
          /\ data' = [data EXCEPT ![i] = data[dir[p]], ![dir[p]] = <<>>]
    /\ UNCHANGED <<wfd, written>>

\* gzip creates the archive, fills it cell by cell, ends it with the trailer
\* and then unlinks its input.
StartCompress(p, held) ==
    /\ Exists(RotatedName[p])
    /\ ~Exists(ArchiveName[p])
    /\ Rotates("compress")
    /\ \E i \in Free(held) :
          /\ dir' = [dir EXCEPT ![ArchiveName[p]] = i]
          /\ data' = [data EXCEPT ![i] = <<>>]
    /\ UNCHANGED <<wfd, written>>

Compressing(p) ==
    /\ Exists(RotatedName[p]) /\ Exists(ArchiveName[p])
    /\ \A n \in DOMAIN data[dir[ArchiveName[p]]] :
          data[dir[ArchiveName[p]]][n] # Trailer

CompressCell(p) ==
    /\ Compressing(p)
    /\ LET from == data[dir[RotatedName[p]]]
           to   == data[dir[ArchiveName[p]]]
       IN  /\ data' = [data EXCEPT ![dir[ArchiveName[p]]] =
                          Append(to, IF Len(to) < Len(from)
                                     THEN from[Len(to) + 1] ELSE Trailer)]
           /\ dir' = IF Len(to) < Len(from)
                     THEN dir ELSE [dir EXCEPT ![RotatedName[p]] = NoInode]
    /\ UNCHANGED <<wfd, written, rotations>>

\* The careful rotator: the finished archive appears under its name at once.
PublishArchive(p, held) ==
    /\ Exists(RotatedName[p])
    /\ ~Exists(ArchiveName[p])
    /\ Rotates("publish")
    /\ \E i \in Free(held) :
          /\ dir' = [dir EXCEPT ![ArchiveName[p]] = i, ![RotatedName[p]] = NoInode]
          /\ data' = [data EXCEPT ![i] = Append(data[dir[RotatedName[p]]], Trailer)]
    /\ UNCHANGED <<wfd, written>>

Rotate(p, held) ==
    \/ Rename(p)
    \/ CopyTruncate(p, held)
    \/ StartCompress(p, held)
    \/ CompressCell(p)
    \/ PublishArchive(p, held)

Serve(p, held) ==
    \/ OpenLog(p, held)
    \/ WriteLine(p)
    \/ WriteHead(p)
    \/ WriteTail(p)
=============================================================================
