------------------------------- MODULE MCLicense --------------------------------
(* A small instance of License for TLC: two licenses of this Mac, and one with
   each fault.  Two of this Mac tell which of two activations is in the store. *)
EXTENDS License, TLC

Token(signed, major, bound) == [signed |-> signed, major |-> major, bound |-> bound]

SomeLicenses ==
  {Token(TRUE, 1, {"here"}), Token(TRUE, 1, {"here", "there"}), Token(TRUE, 1, {"there"}),
   Token(TRUE, 2, {"here"}), Token(FALSE, 1, {"here"}), Token(TRUE, 1, {})}

InodeSymmetry == Permutations(Inodes)

\* What a file shows that nothing refers to makes no difference, nor does which
\* of the verdicts other than "valid" the application shows or is sent.
Relevant ==
  <<[i \in Inodes |-> IF i \in Unused THEN Torn ELSE content[i]], synced \ Unused, store, tmp,
    earlier, save, {<<r.by, r.verdict = "valid">> : r \in pending}, shown = "valid", begun,
    overlapped, reported>>
=============================================================================
