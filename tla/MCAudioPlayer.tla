----------------------------- MODULE MCAudioPlayer -------------------------------
(* A small instance of AudioPlayer for TLC. *)
EXTENDS AudioPlayer

\* Three packets of three frames, which is five buffers if all can be decoded.
ThreePackets(o) == [k \in 1..3 |-> [outcome |-> o[k], frames |-> [i \in 1..3 |-> 3 * k + i]]]

\* Each packet decoded or not; and one recording that does not declare its length.
SomeRecordings ==
  {[total |-> 9, packets |-> ThreePackets(o)] : o \in [1..3 -> Outcomes]}
    \cup {[total |-> 0, packets |-> ThreePackets([k \in 1..3 |-> "decoded"])]}
=============================================================================
