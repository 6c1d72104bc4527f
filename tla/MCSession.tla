------------------------------- MODULE MCSession -------------------------------
(* Small instances of Session for TLC. *)
EXTENDS Session, TLC

\* Sound for the runs without liveness: no path is told apart from another.
VaultSymmetry == Permutations(Vaults)
=============================================================================
