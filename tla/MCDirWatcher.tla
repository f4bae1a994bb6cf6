--------------------------- MODULE MCDirWatcher ----------------------------
(* Instances of DirWatcher for TLC.  a, a1 and a2 stand for access.log,    *)
(* access.log.1 and access.log.1.gz; e is a second live log, of a virtual  *)
(* host in a subdirectory.                                                 *)
EXTENDS DirWatcher, TLC

CONSTANTS a, a1, a2, e

MCPaths == {a, a1, a2, e}
MCRank == a :> 1 @@ a1 :> 2 @@ a2 :> 3 @@ e :> 0
MCRotatedName == a :> a1
MCArchiveName == a :> a2

\* Inode numbers are interchangeable: sound for the runs without liveness.
InodeSymmetry == Permutations(Inodes)
=============================================================================
