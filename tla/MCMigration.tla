------------------------------ MODULE MCMigration ------------------------------
(* A small instance of Migration for TLC. *)
EXTENDS Migration, TLC

\* A migration that has failed, or that cannot pass its verification any more.
Doomed(p) == job[p].pc = "failed" \/ \E f \in Files : job[p].made.files[f] = Damaged

\* The files whose content any later step or property looks at: the vault, its
\* backup, one that an add has open, a copy that may be returned.  Of another
\* only whether it opens makes a difference, of one that does not open nothing.
Watched == {dir["src"], dir["bak"], cliOpen} \cup {job[p].dst : p \in {q \in Procs : ~Doomed(q)}}

Visible(i) == CASE i \in Unused \/ ~vaults[i].whole -> Blank
                [] i \in Watched -> vaults[i]
                [] OTHER -> [Blank EXCEPT !.whole = TRUE]

\* Of a job that failed only the path it leaves a file at; the capacity asked for
\* is not looked at again once the file exists.
Pending(p) ==
  CASE job[p].pc = "failed" -> [NoJob EXCEPT !.pc = "failed", !.at = job[p].at]
    [] job[p].pc \in {"idle", "opening", "building"} -> job[p]
    [] OTHER -> [job[p] EXCEPT !.cap = Same]

Reachable == <<[i \in Ids |-> Visible(i)], dir, lock, [p \in Procs |-> Pending(p)],
               appOpen, cliOpen, begun, edits, acked, noted, foreign, misled>>

\* The engine and the invariants treat all files alike.
FileSymmetry == Permutations(Files)
=============================================================================
