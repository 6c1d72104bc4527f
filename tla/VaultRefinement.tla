---------------------------- MODULE VaultRefinement ----------------------------
(***************************************************************************)
(* The refinement mapping from VaultEngine to VaultStore: what the file on *)
(* disk says through its manifest, read chunk by chunk.                    *)
(***************************************************************************)
EXTENDS VaultEngine

CONSTANT Gone  \* the outcome of a name that no manifest lists

\* A reader of the disk as it is.  While the manifest is torn nothing can be
\* read; a power loss may bring back the settled files, unchanged.
Found(n) ==
  IF disk[MC] = Header
    THEN IF n \in dman.names THEN [i \in 1..Len(dman.chunks[n]) |-> disk[dman.chunks[n][i]]] ELSE Gone
    ELSE IF n \in there THEN want[n] ELSE Gone

Outcome(n) == IF n \in touch \cap cand.names THEN goal[n] ELSE Gone

Store == INSTANCE VaultStore WITH
  Outcomes <- Seq(Block) \cup {Gone},
  files    <- [n \in Names |-> Found(n)],
  settled  <- sure,
  lost     <- disk[MC] # Header,
  quiet    <- pc = "idle" /\ dirty = {},
  asked    <- touch,
  answer   <- [n \in Names |-> Outcome(n)]

\* The engine implements the store: any sequence of calls, I/O errors, kills,
\* power losses and reopenings has on the files exactly the effects that
\* VaultStore allows.
ImplementsStore == Store!Spec
=============================================================================
