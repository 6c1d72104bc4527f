--------------------------- MODULE MCSlotEnrollment ---------------------------
(* A small instance of SlotEnrollment for TLC. *)
EXTENDS SlotEnrollment, TLC

\* Processes, and devices, are interchangeable.
SlotSymmetry == Permutations(Callers) \cup Permutations(Devices)
=============================================================================
