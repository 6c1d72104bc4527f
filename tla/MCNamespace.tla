------------------------------ MODULE MCNamespace ------------------------------
(* Small instances of Namespace for TLC. *)
EXTENDS Namespace, TLC

CONSTANTS A, B

\* Nested folders of two names, and files in them, beside them, and named like
\* one of them; a path with a trailing slash, and ones that no call accepts.
MCFolderPaths == {<<A>>, <<B>>, <<A, B>>, <<B, A>>, <<A, Empty>>, <<B, Control>>}
MCFileNames == {<<A>>, <<B>>, <<A, B>>, <<B, A>>, <<A, B, A>>, <<A, Control>>}

BodySymmetry == Permutations(Bodies)
=============================================================================
