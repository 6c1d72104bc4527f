---------------------------- MODULE MCVaultEngine ----------------------------
(* Small instances of VaultEngine, and of its refinement mapping, for TLC. *)
EXTENDS VaultRefinement, VaultInvariant, TLC

CONSTANT NameA

\* One folder, which holds the first name only.
MCUnder == [f \in Folders |-> {NameA}]

\* Chunk indices are interchangeable: the allocator picks at random and no
\* index is compared with another.  MC keeps its place.
ChunkSymmetry == Permutations(Chunks \ {MC})
=============================================================================
