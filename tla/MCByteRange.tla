------------------------------ MODULE MCByteRange ------------------------------
(* Small instances of ByteRange for TLC. *)
EXTENDS ByteRange
=============================================================================
