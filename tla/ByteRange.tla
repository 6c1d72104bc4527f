------------------------------- MODULE ByteRange -------------------------------
(***************************************************************************)
(* The byte arithmetic of add_file, write_file_range, read_file_range and  *)
(* truncate_file on one file: which chunks a call re-encrypts, with which  *)
(* plaintext, and when it is refused.  Each mutation is one step here (its *)
(* writes and faults are VaultEngine's subject); only growing with         *)
(* truncate_file is several, one write_file_range window each.             *)
(*                                                                         *)
(* Offsets are the code's u64 in small: MaxU stands for u64::MAX, MaxIndex *)
(* for u32::MAX.  Positions of bytes count from 0, of sequences from 1.    *)
(***************************************************************************)
EXTENDS Naturals, Sequences, SequencesExt

CONSTANTS
  Byte,      \* byte values
  Zero,      \* the byte 0
  CP,        \* CHUNK_PLAINTEXT_LEN
  Window,    \* GROW_WINDOW, in chunks
  Pool,      \* data chunks of the vault
  MaxU,      \* u64::MAX
  MaxIndex,  \* u32::MAX, the largest number of chunks of a file
  MaxLen     \* bound: bytes passed to one call

ASSUME SizeAssumption ==
  /\ CP \in Nat \ {0} /\ Window \in Nat \ {0}
  /\ Pool \in Nat /\ MaxIndex \in Nat /\ MaxLen \in Nat
  /\ MaxU \in Nat /\ Pool * CP + CP <= MaxU
ASSUME ByteAssumption == Zero \in Byte

VARIABLES
  size,     \* FileEntry.size
  chunks,   \* the plaintext of each chunk of FileEntry.chunks
  target,   \* new_size of the truncate that is growing the file
  growing,  \* it is in its loop
  result,   \* what the last call returned
  before    \* history: size when the last call was made

fileVars == <<size, chunks, target, growing, result, before>>

Inputs == UNION {[1..n -> Byte] : n \in 0..MaxLen}

\* The number of chunks of n bytes.
Count(n) == (n + CP - 1) \div CP

Free == Pool - Len(chunks)

\* allocate_chunks succeeds.
Allocates(n) == n <= Free

(***************************************************************************)
(* write_file_range                                                        *)
(***************************************************************************)
\* u64 addition without a check wraps.
NewSize(off, len) == Max({(off + len) % (MaxU + 1), size})

\* A mutant: the additions are not checked.
OverflowsNever(off, len) == FALSE

\* What the call refuses before it allocates or writes anything.
Overflows(off, len) ==
  \/ off + len > MaxU
  \/ NewSize(off, len) + CP - 1 > MaxU
  \/ Count(NewSize(off, len)) > MaxIndex

\* The first position to re-encrypt.
FirstDirty(off) ==
  CASE size = 0                -> 0
    [] size > 0 /\ off <= size -> off \div CP
    [] OTHER                   -> (size - 1) \div CP

\* What is left of position g: its old plaintext, when it held any byte.
Preserved(g) ==
  IF g < Len(chunks) /\ Min({(g + 1) * CP, size}) > g * CP THEN chunks[g + 1] ELSE <<>>

\* A mutant: every re-encrypted chunk is filled up with zeros.
NewChunkFilled(g, off, d, new) ==
  [k \in 1..CP |->
     LET pos == g * CP + k - 1
     IN  IF pos >= off /\ pos < off + Len(d) THEN d[pos - off + 1]
         ELSE IF k <= Len(Preserved(g)) THEN Preserved(g)[k]
         ELSE Zero]

\* The plaintext of position g when d is written at off: zeros, under the
\* preserved bytes, under the part of d that falls there.
NewChunk(g, off, d, new) ==
  [k \in 1..(Min({new, (g + 1) * CP}) - g * CP) |->
     LET pos == g * CP + k - 1
     IN  IF pos >= off /\ pos < off + Len(d) THEN d[pos - off + 1]
         ELSE IF k <= Len(Preserved(g)) THEN Preserved(g)[k]
         ELSE Zero]

\* The chunks after the call: those before the first dirty one stay in place.
NewChunks(off, d) ==
  [i \in 1..Count(NewSize(off, Len(d))) |->
     IF i <= FirstDirty(off) THEN chunks[i]
     ELSE NewChunk(i - 1, off, d, NewSize(off, Len(d)))]

Written(off, d) ==
  /\ size' = NewSize(off, Len(d))
  /\ chunks' = NewChunks(off, d)

WriteAllocates(off, len) == Allocates(Count(NewSize(off, len)) - FirstDirty(off))

Refuse(error) ==
  /\ result' = error
  /\ UNCHANGED <<size, chunks>>

\* (A call with no data returns at once.)
Write(off, d) ==
  /\ ~growing
  /\ d # <<>>
  /\ before' = size
  /\ \/ Overflows(off, Len(d)) /\ Refuse("Overflow")
     \/ ~Overflows(off, Len(d)) /\ ~WriteAllocates(off, Len(d)) /\ Refuse("Full")
     \/ /\ ~Overflows(off, Len(d)) /\ WriteAllocates(off, Len(d))
        /\ Written(off, d)
        /\ result' = "Ok"
  /\ UNCHANGED <<target, growing>>

(***************************************************************************)
(* add_file: an empty file gets one chunk; own chunks count as free.       *)
(***************************************************************************)
AddFile(d) ==
  LET needed == Max({Count(Len(d)), 1})
  IN  /\ ~growing
      /\ before' = size
      /\ \/ ~Allocates(needed - Min({needed, Len(chunks)})) /\ Refuse("Full")
         \/ /\ Allocates(needed - Min({needed, Len(chunks)}))
            /\ size' = Len(d)
            /\ chunks' = [i \in 1..needed |-> SubSeq(d, (i - 1) * CP + 1, Min({i * CP, Len(d)}))]
            /\ result' = "Ok"
      /\ UNCHANGED <<target, growing>>

(***************************************************************************)
(* truncate_file                                                           *)
(***************************************************************************)
\* A mutant: whether the cut falls inside a chunk is decided by its end in
\* the file instead of by the old and the new length.
CutsAtEnd(n) == n # size /\ n > 0 /\ n % CP # 0 /\ Count(n) = Count(size)

\* The chunk that becomes the last one gets shorter.
Cuts(n) == n > 0 /\ n # Min({Count(n) * CP, size})

CutChunks(n) ==
  [i \in 1..Count(n) |->
     IF Cuts(n) /\ i = Count(n) THEN SubSeq(chunks[i], 1, n - (i - 1) * CP) ELSE chunks[i]]

Shrink(n) ==
  /\ ~growing
  /\ n < size
  /\ before' = size
  /\ \/ Cuts(n) /\ ~Allocates(1) /\ Refuse("Full")
     \/ /\ Cuts(n) => Allocates(1)
        /\ size' = n
        /\ chunks' = CutChunks(n)
        /\ result' = "Ok"
  /\ UNCHANGED <<target, growing>>

\* The check before the first window compares with space(): free chunks only.
Grow(n) ==
  /\ ~growing
  /\ n > size
  /\ before' = size
  /\ \/ n - size > Free * CP /\ Refuse("Full") /\ UNCHANGED <<target, growing>>
     \/ /\ n - size <= Free * CP
        /\ target' = n /\ growing' = TRUE
        /\ UNCHANGED <<size, chunks, result>>

\* A mutant: one window more, of no bytes, when the target is reached.
GrowsOnceMore == size <= target

\* The loop condition; its cursor is the size the windows have reached.
Grows == size < target

Returned == growing' = FALSE /\ target' = 0

\* One window of zeros.
GrowStep ==
  LET n == Min({Window * CP, target - size})
  IN  /\ growing
      /\ Grows
      /\ \/ /\ Overflows(size, n) /\ Refuse("Overflow") /\ Returned
         \/ /\ ~Overflows(size, n) /\ ~WriteAllocates(size, n) /\ Refuse("Full") /\ Returned
         \/ /\ ~Overflows(size, n) /\ WriteAllocates(size, n)
            /\ Written(size, [i \in 1..n |-> Zero])
            /\ UNCHANGED <<target, growing, result>>
      /\ UNCHANGED before

GrowReturns ==
  /\ growing
  /\ ~Grows
  /\ result' = "Ok"
  /\ Returned
  /\ UNCHANGED <<size, chunks, before>>

\* An I/O error in a window ends the call there.
GrowFails ==
  /\ growing
  /\ Refuse("Io")
  /\ Returned
  /\ UNCHANGED before

-----------------------------------------------------------------------------
\* create_file: no bytes, no chunks.
FileInit ==
  /\ size = 0 /\ chunks = <<>>
  /\ target = 0 /\ growing = FALSE
  /\ result = "Ok" /\ before = 0

FileNext ==
  \/ \E d \in Inputs : AddFile(d)
  \/ \E off \in 0..MaxU, d \in Inputs : Write(off, d)
  \/ \E n \in 0..MaxU : Shrink(n) \/ Grow(n)
  \/ GrowStep \/ GrowReturns \/ GrowFails

\* A call that runs goes on to return.
Fairness == WF_fileVars(GrowStep) /\ WF_fileVars(GrowReturns)

FileSpec == FileInit /\ [][FileNext]_fileVars /\ Fairness
-----------------------------------------------------------------------------
(***************************************************************************)
(* Reading                                                                 *)
(***************************************************************************)
\* read_file: all chunks, cut to the size.
Plain(list, len) == SubSeq(FlattenSeq(list), 1, Min({len, Len(FlattenSeq(list))}))
ReadFile == Plain(chunks, size)

\* A mutant: the first chunk of the window is read from its start.
FromAlways(off, g) == 0

\* Where the window starts and ends in position g.
From(off, g) == IF off > g * CP THEN off - g * CP ELSE 0
Upto(end, g) == Min({end - g * CP, Len(chunks[g + 1])})

\* read_file_range, for a window of at least one byte that starts in the file.
ReadRange(off, len) ==
  LET end   == off + Min({len, size - off})
      first == off \div CP
      last  == Min({Count(end), Len(chunks)})
  IN  FlattenSeq([i \in 1..(last - first) |->
        LET g == first + i - 1 IN SubSeq(chunks[g + 1], From(off, g) + 1, Upto(end, g))])

\* The file as its callers see it.
File == INSTANCE FileText WITH
  Data    <- Inputs,
  Offsets <- 0..MaxU,
  text    <- ReadFile,
  goal    <- target

-----------------------------------------------------------------------------
(***************************************************************************)
(* Properties                                                              *)
(***************************************************************************)
\* Types; the file never has more chunks than the vault.
FileTypeOK ==
  /\ size \in 0..(Pool * CP) /\ before \in 0..(Pool * CP)
  /\ Len(chunks) <= Pool
  /\ \A i \in 1..Len(chunks) : chunks[i] \in Seq(Byte)
  /\ target \in 0..MaxU /\ growing \in BOOLEAN
  /\ result \in {"Ok", "Full", "Overflow", "Io"}

\* Every chunk but the last is full and the last holds the rest, whatever
\* sequence of writes, holes, cuts and growths led here: read_file_range and
\* truncate_file slice plaintexts by these lengths.
ChunkLengths ==
  /\ size > 0 => Len(chunks) = Count(size)
  /\ \A i \in 1..Len(chunks) :
       Len(chunks[i]) = IF size > (i - 1) * CP THEN Min({CP, size - (i - 1) * CP}) ELSE 0

\* Any window reads the bytes of the file that it overlaps, no more, no less.
WindowsAgree ==
  \A off \in 0..MaxU, len \in 1..MaxU :
    off < size => ReadRange(off, len) = SubSeq(ReadFile, off + 1, Min({off + len, size}))

\* A write that is accepted, at any offset of any file, does to the bytes what
\* pwrite does; in particular it loses no byte outside its range, keeps no
\* stale one in a hole, and never wraps around.
WritesAreOverlays ==
  \A off \in 0..MaxU, d \in Inputs \ {<<>>} :
    ~Overflows(off, Len(d)) /\ WriteAllocates(off, Len(d)) =>
      Plain(NewChunks(off, d), NewSize(off, Len(d))) = File!Overlay(ReadFile, off, d)

\* The file implements a string of bytes: every call, refused or not, and every
\* window of a growing truncate does to it what FileText allows; the truncate
\* never grows past its target and returns Ok only there.
ImplementsText == File!Spec

\* A growing truncate returns: no window stands still.
GrowEnds == growing ~> ~growing

(***************************************************************************)
(* truncate_file: "Capacity pre-flight first, so an impossible grow is     *)
(* refused before the first window is committed."  The code's check does   *)
(* not count the last chunk, which every unaligned window re-encrypts.     *)
(***************************************************************************)
\* A grow refused for lack of room has changed nothing.
GrowRefusedUpFront == ~growing /\ result = "Full" => size = before
=============================================================================
