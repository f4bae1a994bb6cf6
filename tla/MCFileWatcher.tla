--------------------------- MODULE MCFileWatcher ---------------------------
(* Instances of FileWatcher for TLC: access.log, access.log.1 and          *)
(* access.log.1.gz.                                                        *)
EXTENDS FileWatcher, TLC

CONSTANTS a, a1, a2

MCPaths == {a, a1, a2}
MCRotatedName == a :> a1
MCArchiveName == a :> a2

\* Inode numbers are interchangeable: sound for the run without liveness.
InodeSymmetry == Permutations(Inodes)
=============================================================================
