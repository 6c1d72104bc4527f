---------------------------- MODULE VaultInvariant ----------------------------
(***************************************************************************)
(* The inductive invariant of VaultEngine: what is true between any two    *)
(* writes, and strong enough to be re-established by every step.           *)
(***************************************************************************)
EXTENDS VaultEngine

\* m2 has the entry of name n exactly as m1 has it.
SameEntry(m1, m2, n) ==
  m1.chunks[n] = m2.chunks[n] /\ (n \in m1.names <=> n \in m2.names)

\* Chunk c belongs to no file but those named in S, as the live manifest sees it.
Confined(c, S) == \A n \in Names \ S : c \notin Listed(live, n)

\* A mutation that is to leave manifest m, with jobs js and shreds ss to go:
\* names outside S keep their entries and their chunks; ...
Elsewhere(S, js, ss, m) ==
  /\ \A n \in Names \ S : SameEntry(live, m, n)
  /\ m.counter >= live.counter
  /\ \A j \in js : j.to \in Owned(m) /\ Confined(j.to, S)
  /\ \A c \in ss : c # MC /\ c \notin Owned(m) /\ Confined(c, S)

\* ... no fresh write destroys what a later one copies; and every chunk of a
\* name in S either holds what it is meant to, or will be written with it.
Underway(S, js, m, g) ==
  /\ \A j, k \in js : j.val = Keep => j.from # k.to
  /\ \A n \in S :
       /\ Len(m.chunks[n]) = Len(g[n])
       /\ \A i \in 1..Len(m.chunks[n]) :
            /\ \A j \in js : j.to = m.chunks[n][i] => FreshContent(j) = g[n][i]
            /\ (\A j \in js : j.to # m.chunks[n][i]) => disk[m.chunks[n][i]] = g[n][i]

\* A given-up chunk is still to be shredded or has been.
Erased == \A c \in freed : c # MC /\ c \notin Owned(cand) /\ (c \in shred \/ disk[c] = Junk)

InFlight ==
  pc # "idle" =>
    /\ open /\ ~poisoned
    /\ Elsewhere(touch, jobs, shred, cand)
    /\ Underway(touch, jobs, cand, goal)
    /\ Erased

PhaseOrder ==
  /\ pc = "idle" => touch = {}
  /\ pc \in {"shred", "manifest", "sync"} => jobs = {}
  /\ pc \in {"manifest", "sync"} => shred = {}
  /\ pc = "sync" => cand = live

SessionOnDisk == open /\ ~poisoned => disk[MC] = Header /\ dman = live

CounterFloor ==
  /\ disk[MC] = Header => dman.counter >= acked
  /\ media[MC] = Header => mman.counter >= acked
  /\ open => live.counter >= acked

\* What has not been written since the last sync is the same on the medium, and
\* that is where all of a settled file is.
Synced ==
  /\ \A c \in Chunks \ dirty : disk[c] = media[c]
  /\ \A n \in sure :
       /\ Holds(mman, media, n)
       /\ SameEntry(mman, dman, n)
       /\ Listed(dman, n) \cap dirty = {}

\* What holds between any two writes of a mutation, and what a fault at any of
\* them leaves: it implies the safety properties and every step re-establishes it.
Inductive ==
  /\ ChunkOwnership /\ InFlight /\ PhaseOrder /\ SessionOnDisk /\ CounterFloor /\ Synced
=============================================================================
