------------------------------ MODULE VaultStore ------------------------------
(***************************************************************************)
(* What the storage engine promises its callers, without chunks, phases or *)
(* manifests: files with contents, one request at a time, and a set of     *)
(* names whose content is settled.                                         *)
(*                                                                         *)
(* A request is about some names and has a definite outcome for each.      *)
(* When it is acknowledged, the files have that outcome and are settled.   *)
(* Until then, and after a failure, the named files may be anything; every *)
(* other settled file stays as it is.  A vault at rest - no request in     *)
(* progress, nothing unsynced - does not change, and cannot be lost.       *)
(***************************************************************************)
CONSTANTS
  Names,    \* file names
  Outcomes, \* what a file can be found as
  Gone      \* the outcome "there is no such file"

VARIABLES
  files,    \* name -> what a reader finds
  settled,  \* the names whose content has been acknowledged since last endangered
  lost,     \* the vault cannot be opened
  quiet,    \* nothing in progress and nothing unsynced
  asked,    \* the names the request in progress is about
  answer    \* the outcome it asks for

storeVars == <<files, settled, lost, quiet, asked, answer>>

NoAnswer == [n \in Names |-> Gone]

Init ==
  /\ files = NoAnswer
  /\ settled = Names
  /\ lost = FALSE
  /\ quiet = TRUE
  /\ asked = {}
  /\ answer = NoAnswer

\* A caller's request is accepted.
Ask ==
  /\ asked = {}
  /\ asked' \in SUBSET Names
  /\ answer' \in [Names -> Outcomes]
  /\ quiet' = FALSE
  /\ UNCHANGED <<files, settled, lost>>

\* Work on a request, its failure, or the end of unsynced writes: names of the
\* request can become unsettled, and files that are not settled can change.
Work ==
  /\ ~quiet
  /\ settled' \subseteq settled
  /\ settled \ settled' \subseteq asked
  /\ \A n \in settled' : files'[n] = files[n]
  /\ \/ UNCHANGED <<asked, answer>>
     \/ asked' = {} /\ answer' = NoAnswer

\* The request returns Ok: its outcome holds and is settled.
Acknowledge ==
  /\ ~quiet
  /\ ~lost
  /\ \A n \in asked : files[n] = answer[n]
  /\ settled' = settled \cup asked
  /\ quiet' = TRUE
  /\ asked' = {}
  /\ answer' = NoAnswer
  /\ UNCHANGED <<files, lost>>

Next == Ask \/ Work \/ Acknowledge

Spec == Init /\ [][Next]_storeVars
=============================================================================
