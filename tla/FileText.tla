-------------------------------- MODULE FileText --------------------------------
(***************************************************************************)
(* What the callers of add_file, write_file_range and truncate_file are    *)
(* promised about one file: a string of bytes, without chunks, sizes or    *)
(* room.  A call changes it as it says or, when refused, not at all; only  *)
(* a growing truncate takes several steps, and it may stop on the way.     *)
(***************************************************************************)
EXTENDS Naturals, Sequences

CONSTANTS
  Zero,     \* the byte 0
  Data,     \* what one call may be given to write
  Offsets   \* where, and the lengths to cut to or grow to

VARIABLES
  text,     \* the bytes of the file
  goal,     \* the length a truncate is growing the file to
  growing,  \* one is under way
  result    \* what the last call returned

vars == <<text, goal, growing, result>>

\* pwrite on the string s: d at off, zeros in a hole.
Overlay(s, off, d) ==
  [i \in 1..(IF off + Len(d) <= Len(s) THEN Len(s) ELSE off + Len(d)) |->
     IF i > off /\ i <= off + Len(d) THEN d[i - off]
     ELSE IF i <= Len(s) THEN s[i] ELSE Zero]

Becomes(s) ==
  /\ ~growing
  /\ text' = s
  /\ result' = "Ok"
  /\ UNCHANGED <<goal, growing>>

Replace(d) == Becomes(d)
PWrite(off, d) == d # <<>> /\ Becomes(Overlay(text, off, d))
Cut(n) == n < Len(text) /\ Becomes(SubSeq(text, 1, n))

Refused ==
  /\ ~growing
  /\ result' \in {"Full", "Overflow"}
  /\ UNCHANGED <<text, goal, growing>>

Extend(n) ==
  /\ ~growing
  /\ n > Len(text)
  /\ goal' = n /\ growing' = TRUE
  /\ UNCHANGED <<text, result>>

\* More zeros, never past the goal.
Lengthen(n) ==
  /\ growing
  /\ Len(text) + n <= goal
  /\ text' = Overlay(text, Len(text), [i \in 1..n |-> Zero])
  /\ UNCHANGED <<goal, growing, result>>

\* It returns Ok at its goal and not before.
Returns ==
  /\ growing
  /\ result' \in IF Len(text) = goal THEN {"Ok", "Io"} ELSE {"Full", "Overflow", "Io"}
  /\ goal' = 0 /\ growing' = FALSE
  /\ UNCHANGED text

Init == text = <<>> /\ goal = 0 /\ growing = FALSE /\ result = "Ok"

Next ==
  \/ Refused
  \/ Returns
  \/ \E n \in Offsets : Extend(n) \/ Lengthen(n) \/ Cut(n)
  \/ \E d \in Data : Replace(d)
  \/ \E off \in Offsets, d \in Data : PWrite(off, d)

Spec == Init /\ [][Next]_vars
=============================================================================
