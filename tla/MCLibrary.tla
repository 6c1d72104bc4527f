------------------------------- MODULE MCLibrary --------------------------------
(* A small instance of Library for TLC. *)
EXTENDS Library

CONSTANTS x, y, p, q

SomeLeaves == 1..3
SomeFolders == {x, y}
SomeSources == {p, q}

\* No definition tells one folder or one source from another.
FolderSymmetry == Permutations(SomeFolders) \cup Permutations(SomeSources)
=============================================================================
