------------------------------- MODULE Library ---------------------------------
(***************************************************************************)
(* The files of the open vault as the application handles them: the FFI    *)
(* calls on files and folders, the lists the application keeps of them,    *)
(* the viewer, the editor, and the import of files from the disk with the  *)
(* erasure of their originals.                                             *)
(*                                                                         *)
(* All of it runs on the main thread.  What happens in between is done by  *)
(* others: programs that rewrite or replace the files being imported, I/O  *)
(* errors, writes damaged on the way, and the end of the process.          *)
(*                                                                         *)
(* Contents are sequences of units; a chunk of the engine, and a window    *)
(* the application moves at once, hold two.  One FFI call takes effect     *)
(* whole or not at all, which is VaultEngine's subject.                    *)
(***************************************************************************)
EXTENDS Integers, Sequences, FiniteSets, FiniteSetsExt, SequencesExt, Functions

CONSTANTS
  Leaves,       \* 1..n: the name a source has and what uniqueName makes of it: " 2", " 3", ...
  Folders,      \* folder paths, all top-level
  Sources,      \* paths on the disk, all with the same last component
  Chunks,       \* chunks of the vault, the manifest's included
  MaxSize,      \* bound: units in a source or an edited text
  MaxStamp,     \* bound: distinct units written by the user or other programs
  MaxOps        \* bound: operations begun

Root == "root"

ASSUME LibraryAssumption ==
  /\ IsFiniteSet(Leaves) /\ Leaves = 1..Cardinality(Leaves) /\ Leaves # {}
  /\ IsFiniteSet(Folders) /\ Root \notin Folders
  /\ IsFiniteSet(Sources)
  /\ Chunks \in Nat \ {0, 1}   \* the manifest's, and that of the file in Init
  /\ MaxSize \in Nat /\ MaxOps \in Nat
  /\ MaxStamp \in Nat /\ MaxStamp > Cardinality(Sources)

ChunkUnits == 2   \* CHUNK_PLAINTEXT_LEN

Names == (Folders \cup {Root}) \X Leaves
NoName == <<"no name", 0>>
NoContent == <<-2>>
Garbage == 0    \* what an overwritten original holds
Damaged == -1   \* a unit that does not come back as it was written

VARIABLES
  vault,      \* the manifest: contents of the files, explicit folders
  other,      \* what the vault may turn out to hold once it is opened again
  poisoned,   \* the session refuses mutations
  disk,       \* disk[p]: the file (inode) at a path outside the vault
  inodes,     \* inodes[i]: its content and modification time
  files,      \* VaultModel.files: names and sizes as last listed
  folders,    \* VaultModel.folders
  selected,   \* VaultModel.selectedFileID
  shown,      \* VaultModel.selectedContent
  op,         \* the operation in progress
  ops,        \* number of operations begun
  stamp,      \* the last stamp used
  \* history
  stale,      \* an edit has failed half way since the files were listed
  torn,       \* the same since the vault was opened
  full,       \* an operation was refused for lack of room after its check
  doomed      \* contents the originals had when they were about to be erased

engine == <<vault, other, poisoned>>
outside == <<disk, inodes>>
view == <<files, folders, selected, shown>>
history == <<stale, torn, full, doomed>>
vars == <<engine, outside, view, op, ops, stamp, history>>

NoInode == 0
Inodes == 1..(Cardinality(Sources) + MaxStamp)

\* An import has sources still to do and names reserved; of the present source,
\* whose path is Head(todo), the inode, size and mtime when it was opened, what
\* has been read so far.  An edit has the text and how much of it is written.
Idle == [pc |-> "idle", name |-> NoName, erase |-> FALSE, todo |-> <<>>, reserved |-> {},
         inode |-> NoInode, size |-> 0, mtime |-> 0, off |-> 0, data |-> <<>>]

(***************************************************************************)
(* The engine behind the FFI                                               *)
(***************************************************************************)
ChunksFor(n) == (n + ChunkUnits - 1) \div ChunkUnits

UsedChunks(v) == MapThenSumSet(LAMBDA n : ChunksFor(Len(v.files[n])), DOMAIN v.files)

FreeChunks(v) == Chunks - 1 - UsedChunks(v)

\* farewell_space: what is free, in bytes.
Free(v) == ChunkUnits * FreeChunks(v)

With(v, n, data) == [v EXCEPT !.files = [m \in DOMAIN v.files \cup {n} |-> IF m = n THEN data ELSE v.files[m]]]
Without(v, S) == [v EXCEPT !.files = Restrict(v.files, DOMAIN v.files \ S)]

\* farewell_create_exclusive.
Creates(v, n) == With(v, n, <<>>)

\* farewell_write_range needs a fresh chunk for every chunk it touches, before
\* the old ones are given back.
HasRoomFor(v, n, off, data) ==
  ChunksFor(Max({off + Len(data), Len(v.files[n])})) - off \div ChunkUnits <= FreeChunks(v)

Overlay(old, off, data) ==
  SubSeq(old, 1, off) \o data \o SubSeq(old, off + Len(data) + 1, Len(old))

Writes(v, n, off, data) == With(v, n, Overlay(v.files[n], off, data))

\* farewell_truncate.
Truncates(v, n, size) == With(v, n, SubSeq(v.files[n], 1, size))

\* farewell_delete.
Deletes(v, n) == Without(v, {n})

\* farewell_rename replaces the destination.
Renames(v, a, b) == With(Without(v, {a}), b, v.files[a])

\* farewell_create_folder.
CreatesFolder(v, d) == [v EXCEPT !.dirs = @ \cup {d}]

InFolder(v, d) == {n \in DOMAIN v.files : n[1] = d}

\* farewell_delete_folder.
DeletesFolder(v, d) == [Without(v, InFolder(v, d)) EXCEPT !.dirs = @ \ {d}]

\* farewell_rename_folder: refused if a file would get a name that is taken.
MayRenameFolder(v, d, e) == d # e /\ \A n \in InFolder(v, d) : <<e, n[2]>> \notin DOMAIN v.files

Moved(n, d, e) == IF n[1] = d THEN <<e, n[2]>> ELSE n

RenamesFolder(v, d, e) ==
  [files |-> [m \in {Moved(n, d, e) : n \in DOMAIN v.files} |->
                v.files[CHOOSE n \in DOMAIN v.files : Moved(n, d, e) = m]],
   dirs  |-> IF d \in v.dirs THEN (v.dirs \ {d}) \cup {e} ELSE v.dirs]

\* A call that changes the vault to v.
Succeeds(v) == ~poisoned /\ vault' = v /\ other' = v /\ UNCHANGED poisoned

\* It fails: refused, or half way through, which poisons the session and leaves
\* it to the medium which of the two manifests is found later.
Errs(v) ==
  /\ UNCHANGED vault
  /\ \/ UNCHANGED <<other, poisoned>>
     \/ ~poisoned /\ poisoned' = TRUE /\ other' = v

(***************************************************************************)
(* What the application shows                                              *)
(***************************************************************************)
\* farewell_readdir, farewell_folders.
Listed(v) == [n \in DOMAIN v.files |-> Len(v.files[n])]
FoldersOf(v) == v.dirs \cup {n[1] : n \in DOMAIN v.files \ InFolder(v, Root)}

\* reloadSelectedContent: nothing unless the list has the selected file; its
\* content, or an error, by farewell_stat and farewell_read_range.
Loads(v, fs, sel) ==
  IF sel \in DOMAIN fs /\ sel \in DOMAIN v.files THEN {v.files[sel], NoContent} ELSE {NoContent}

\* selectedFileID = sel, while the list is fs.
Selects(v, fs, sel) ==
  /\ selected' = sel
  /\ IF sel = selected THEN UNCHANGED shown ELSE shown' \in Loads(v, fs, sel)

Begins == op.pc = "idle" /\ ops < MaxOps /\ ops' = ops + 1

Init ==
  /\ vault = [files |-> [n \in {<<Root, 1>>} |-> <<1>>], dirs |-> Folders]
  /\ other = vault /\ poisoned = FALSE
  /\ \E f \in Bijection(Sources, 1..Cardinality(Sources)) :
       /\ disk = f
       /\ inodes = [i \in Inodes |-> IF i \in {f[p] : p \in Sources}
                                       THEN [data |-> [k \in 1..MaxSize |-> i + 1], mtime |-> 0]
                                       ELSE [data |-> <<>>, mtime |-> 0]]
  /\ files = Listed(vault) /\ folders = FoldersOf(vault)
  /\ selected = NoName /\ shown = NoContent
  /\ op = Idle
  /\ ops = 0 /\ stamp = Cardinality(Sources) + 1
  /\ stale = FALSE /\ torn = FALSE /\ full = FALSE /\ doomed = {}

(***************************************************************************)
(* Operations of one call                                                  *)
(***************************************************************************)
SelectFile(n) ==
  /\ op.pc = "idle" /\ n \in DOMAIN files
  /\ Selects(vault, files, n)
  /\ UNCHANGED <<engine, outside, files, folders, op, ops, stamp, history>>

\* The call that was to lead to v fails: a message, and nothing is listed again.
Fails(v) == Errs(v) /\ UNCHANGED <<view, stale>>

\* refreshFiles
Lists(v) == files' = Listed(v) /\ stale' = FALSE

\* uniqueName
FreeLeaves(reserved) == {k \in Leaves : <<Root, k>> \notin reserved}
UniqueName(reserved) == <<Root, Min(FreeLeaves(reserved))>>

NewNote ==
  /\ Begins
  /\ FreeLeaves(DOMAIN files) # {}
  /\ LET n == UniqueName(DOMAIN files)
         v == Creates(vault, n) IN
       \/ /\ n \notin DOMAIN vault.files
          /\ Succeeds(v) /\ Lists(v) /\ Selects(v, Listed(v), n)
          /\ UNCHANGED folders
       \/ Fails(v)
  /\ UNCHANGED <<outside, op, stamp, torn, full, doomed>>

DeleteFile(n) ==
  /\ Begins
  /\ n \in DOMAIN files \cap DOMAIN vault.files
  /\ LET v == Deletes(vault, n) IN
       \/ /\ Succeeds(v) /\ Lists(v) /\ folders' = FoldersOf(v)
          /\ Selects(v, files, IF selected = n THEN NoName ELSE selected)
       \/ Fails(v)
  /\ doomed' = doomed \ {vault.files[n]}
  /\ UNCHANGED <<outside, op, stamp, torn, full>>

\* A mutant: the engine's rename, which replaces, is called right away.
RenameFileOver(n, k) ==
  LET m == <<n[1], k>>
      v == Renames(vault, n, m) IN
  /\ Begins
  /\ n \in DOMAIN files \cap DOMAIN vault.files
  /\ m # n
  /\ \/ /\ Succeeds(v) /\ Lists(v)
        /\ Selects(v, Listed(v), IF selected = n THEN m ELSE selected)
        /\ UNCHANGED folders
     \/ Fails(v)
  /\ UNCHANGED <<outside, op, stamp, torn, full, doomed>>

\* Within its folder, and refused if the list has the new name.
RenameFile(n, k) ==
  LET m == <<n[1], k>>
      v == Renames(vault, n, m) IN
  /\ Begins
  /\ n \in DOMAIN files \cap DOMAIN vault.files
  /\ m # n /\ m \notin DOMAIN files
  /\ \/ /\ Succeeds(v) /\ Lists(v)
        /\ Selects(v, Listed(v), IF selected = n THEN m ELSE selected)
        /\ UNCHANGED folders
     \/ Fails(v)
  /\ UNCHANGED <<outside, op, stamp, torn, full, doomed>>

\* The selection follows before the list does: the viewer is left empty.
MoveFile(n, d) ==
  LET m == <<d, n[2]>>
      v == Renames(vault, n, m) IN
  /\ Begins
  /\ n \in DOMAIN files \cap DOMAIN vault.files
  /\ m # n /\ m \notin DOMAIN files
  /\ \/ /\ Succeeds(v) /\ Lists(v) /\ folders' = FoldersOf(v)
        /\ Selects(v, files, IF selected = n THEN m ELSE selected)
     \/ Fails(v)
  /\ UNCHANGED <<outside, op, stamp, torn, full, doomed>>

CreateFolder(d) ==
  /\ Begins
  /\ LET v == CreatesFolder(vault, d) IN
       \/ Succeeds(v) /\ folders' = FoldersOf(v) /\ UNCHANGED <<files, selected, shown, stale>>
       \/ Fails(v)
  /\ UNCHANGED <<outside, op, stamp, torn, full, doomed>>

\* A mutant: a selected file in the folder stays selected.
DeleteFolderOnly(d) ==
  /\ Begins
  /\ LET v == DeletesFolder(vault, d) IN
       \/ /\ Succeeds(v) /\ Lists(v) /\ folders' = FoldersOf(v)
          /\ UNCHANGED <<selected, shown>>
       \/ Fails(v)
  /\ doomed' = doomed \ {vault.files[n] : n \in InFolder(vault, d)}
  /\ UNCHANGED <<outside, op, stamp, torn, full>>

DeleteFolder(d) ==
  /\ Begins
  /\ LET v == DeletesFolder(vault, d) IN
       \/ /\ Succeeds(v) /\ Lists(v) /\ folders' = FoldersOf(v)
          /\ Selects(v, files, IF selected[1] = d THEN NoName ELSE selected)
       \/ Fails(v)
  /\ doomed' = doomed \ {vault.files[n] : n \in InFolder(vault, d)}
  /\ UNCHANGED <<outside, op, stamp, torn, full>>

RenameFolder(d, e) ==
  /\ Begins
  /\ MayRenameFolder(vault, d, e)
  /\ LET v == RenamesFolder(vault, d, e) IN
       \/ /\ Succeeds(v) /\ Lists(v) /\ folders' = FoldersOf(v)
          /\ Selects(v, files, NoName)
       \/ Fails(v)
  /\ UNCHANGED <<outside, op, stamp, torn, full, doomed>>

(***************************************************************************)
(* The editor: saveText                                                    *)
(***************************************************************************)
\* A mutant of the size of a window: it does not match the engine's chunk.
HalfWindow == 1

\* The unit the application reads and writes by.
Window == 2

Piece(data, off) == SubSeq(data, off + 1, Min({off + Window, Len(data)}))

\* The check counts the old content, at its listed size, as free; then the file
\* is truncated.
SaveBegins(size) ==
  LET v == Truncates(vault, selected, 0) IN
  /\ Begins
  /\ selected \in DOMAIN files \cap DOMAIN vault.files
  /\ stamp < MaxStamp
  /\ size <= Free(vault) + files[selected]
  /\ stamp' = stamp + 1
  /\ \/ /\ Succeeds(v)
        /\ op' = [Idle EXCEPT !.pc = "saving", !.name = selected,
                              !.data = [k \in 1..size |-> stamp + 1]]
     \/ Errs(v) /\ UNCHANGED op
  /\ doomed' = doomed \ {vault.files[selected]}
  /\ UNCHANGED <<outside, view, stale, torn, full>>

\* A failure is returned at once: the lists and the viewer keep the old state.
SaveWrites ==
  LET w == Piece(op.data, op.off)
      v == Writes(vault, op.name, op.off, w)
      fits == HasRoomFor(vault, op.name, op.off, w) IN
  /\ op.pc = "saving" /\ op.off < Len(op.data)
  /\ \/ /\ fits /\ Succeeds(v)
        /\ op' = [op EXCEPT !.off = @ + Len(w)]
        /\ UNCHANGED <<stale, torn, full>>
     \/ /\ IF fits THEN Errs(v) ELSE UNCHANGED engine
        /\ op' = Idle
        /\ full' = (full \/ (~fits /\ ~stale))
        /\ stale' = TRUE /\ torn' = TRUE
  /\ UNCHANGED <<outside, view, ops, stamp, doomed>>

SaveEnds ==
  /\ op.pc = "saving" /\ op.off = Len(op.data)
  /\ op' = Idle
  /\ Lists(vault)
  /\ shown' \in Loads(vault, Listed(vault), selected)
  /\ UNCHANGED <<engine, outside, folders, selected, ops, stamp, torn, full, doomed>>

(***************************************************************************)
(* Imports                                                                 *)
(***************************************************************************)
ImportBegins(batch, erase) ==
  /\ Begins
  /\ op' = [Idle EXCEPT !.pc = "next", !.todo = batch, !.reserved = DOMAIN files, !.erase = erase]
  /\ UNCHANGED <<engine, outside, view, stamp, history>>

\* On to the next source, the names taken so far staying reserved.
Proceeds == op' = [op EXCEPT !.pc = "next", !.todo = Tail(@), !.inode = NoInode, !.data = <<>>, !.off = 0]

\* importOne: the source is opened, and measured through the descriptor; room
\* for the whole of it is asked for; its name is created and must be new.
ImportOpens ==
  /\ op.pc = "next" /\ op.todo # <<>>
  /\ IF FreeLeaves(op.reserved) = {}
       THEN op' = [op EXCEPT !.todo = Tail(@)] /\ UNCHANGED engine
       ELSE LET i == disk[Head(op.todo)]
                n == UniqueName(op.reserved)
                v == Creates(vault, n)
                reserving == [op EXCEPT !.reserved = @ \cup {n}] IN
            \/ /\ i # NoInode /\ Len(inodes[i].data) <= Free(vault)
               /\ n \notin DOMAIN vault.files
               /\ \/ /\ Succeeds(v)
                     /\ op' = [reserving EXCEPT !.pc = "copying", !.name = n, !.inode = i,
                                    !.size = Len(inodes[i].data), !.mtime = inodes[i].mtime]
                  \/ Errs(v) /\ op' = [reserving EXCEPT !.todo = Tail(@)]
            \/ op' = [reserving EXCEPT !.todo = Tail(@)] /\ UNCHANGED engine
  /\ UNCHANGED <<outside, view, ops, stamp, history>>

\* The next window of the open source goes into the vault and into the digest.
ImportCopies ==
  LET w == Piece(inodes[op.inode].data, op.off)
      fits == HasRoomFor(vault, op.name, op.off, w)
      cleaning == [op EXCEPT !.pc = "cleaning"] IN
  /\ op.pc = "copying" /\ w # <<>>
  /\ \/ /\ fits
        /\ \E stored \in {w, [k \in 1..Len(w) |-> Damaged]} :
             Succeeds(Writes(vault, op.name, op.off, stored))
        /\ op' = [op EXCEPT !.off = @ + Len(w), !.data = @ \o w]
        /\ UNCHANGED full
     \/ /\ IF fits THEN Errs(Writes(vault, op.name, op.off, w)) ELSE UNCHANGED engine
        /\ op' = cleaning
        /\ full' = (full \/ (~fits /\ op.off + Len(w) <= op.size))
  /\ UNCHANGED <<outside, view, ops, stamp, stale, torn, doomed>>

\* The end of the source, or an error in reading it.
ImportMeasures ==
  /\ op.pc = "copying"
  /\ op' \in {[op EXCEPT !.pc = "cleaning"]} \cup
             (IF Piece(inodes[op.inode].data, op.off) = <<>> /\ op.off = op.size
                THEN {[op EXCEPT !.pc = "verifying"]} ELSE {})
  /\ UNCHANGED <<engine, outside, view, ops, stamp, history>>

\* A mutant: the copy is not read back.
ImportTrusts ==
  /\ op.pc = "verifying"
  /\ IF op.erase THEN op' = [op EXCEPT !.pc = "checking"] ELSE Proceeds
  /\ UNCHANGED <<engine, outside, view, ops, stamp, history>>

\* The copy is read back and compared with the digest.
ImportVerifies ==
  /\ op.pc = "verifying"
  /\ \/ /\ vault.files[op.name] = op.data
        /\ IF op.erase THEN op' = [op EXCEPT !.pc = "checking"] ELSE Proceeds
     \/ op' = [op EXCEPT !.pc = "cleaning"]
  /\ UNCHANGED <<engine, outside, view, ops, stamp, history>>

\* removePartial, which may fail and leave the partial copy.
ImportCleans ==
  /\ op.pc = "cleaning"
  /\ LET v == Deletes(vault, op.name) IN Succeeds(v) \/ Errs(v)
  /\ Proceeds
  /\ UNCHANGED <<outside, view, ops, stamp, history>>

ImportEnds ==
  /\ op.pc = "next" /\ op.todo = <<>>
  /\ op' = Idle
  /\ Lists(vault)
  /\ UNCHANGED <<engine, outside, folders, selected, shown, ops, stamp, torn, full, doomed>>

\* secureShred opens the path again, and goes on only if it is still the file
\* that was imported, unchanged.
EraseChecks ==
  LET i == disk[Head(op.todo)] IN
  /\ op.pc = "checking"
  /\ \/ /\ i = op.inode
        /\ Len(inodes[i].data) = op.size /\ inodes[i].mtime = op.mtime
        /\ op' = [op EXCEPT !.pc = "erasing"]
        /\ doomed' = doomed \cup {inodes[i].data}
     \/ Proceeds /\ UNCHANGED doomed
  /\ UNCHANGED <<engine, outside, view, ops, stamp, stale, torn, full>>

\* The overwriting passes; an error leaves what has been overwritten.
EraseOverwrites ==
  /\ op.pc = "erasing"
  /\ inodes' = [inodes EXCEPT ![op.inode] = [data |-> [k \in 1..op.size |-> Garbage], mtime |-> @.mtime + 1]]
  /\ op' = [op EXCEPT !.pc = "unlinking"] \/ Proceeds
  /\ UNCHANGED <<engine, disk, view, ops, stamp, history>>

\* removeItem takes the path, and whatever file it now names.
EraseUnlinks ==
  /\ op.pc = "unlinking"
  /\ disk' \in {disk, [disk EXCEPT ![Head(op.todo)] = NoInode]}
  /\ Proceeds
  /\ UNCHANGED <<engine, inodes, view, ops, stamp, history>>

(***************************************************************************)
(* Others                                                                  *)
(***************************************************************************)
\* Another program writes to a source: one unit of it, or one more.
OthersWrite(p, k) ==
  LET i == disk[p] IN
  /\ stamp < MaxStamp /\ i # NoInode
  /\ k <= Len(inodes[i].data) + 1
  /\ stamp' = stamp + 1
  /\ inodes' = [inodes EXCEPT ![i] = [data |-> Overlay(@.data, k - 1, <<stamp + 1>>),
                                      mtime |-> @.mtime + 1]]
  /\ UNCHANGED <<engine, disk, view, op, ops, history>>

\* It puts another file of the same size in the place of a source.
OthersReplace(p) ==
  LET i == stamp + 1 IN
  /\ stamp < MaxStamp
  /\ stamp' = i
  /\ disk' = [disk EXCEPT ![p] = i]
  /\ inodes' = [inodes EXCEPT ![i] = [data |-> [k \in 1..MaxSize |-> i], mtime |-> 0]]
  /\ UNCHANGED <<engine, view, op, ops, history>>

\* The vault is closed, or the process ends at any point, and it is opened again.
Reopens ==
  /\ vault' \in {vault, other} /\ other' = vault' /\ poisoned' = FALSE
  /\ files' = Listed(vault') /\ folders' = FoldersOf(vault') /\ stale' = FALSE /\ torn' = FALSE
  /\ selected' = NoName /\ shown' = NoContent
  /\ op' = Idle
  /\ UNCHANGED <<outside, ops, stamp, full, doomed>>

Batches == {<<p>> : p \in Sources} \cup {<<p, q>> : p, q \in Sources}

Edit ==
  \/ \E size \in 0..MaxSize : SaveBegins(size)
  \/ SaveWrites \/ SaveEnds

Import ==
  \/ \E batch \in Batches, erase \in BOOLEAN : ImportBegins(batch, erase)
  \/ ImportOpens \/ ImportCopies \/ ImportMeasures \/ ImportVerifies \/ ImportCleans \/ ImportEnds

Erase == EraseChecks \/ EraseOverwrites \/ EraseUnlinks

Rename ==
  \/ NewNote
  \/ \E n \in Names, k \in Leaves : RenameFile(n, k)
  \/ \E n \in Names, d \in Folders \cup {Root} : MoveFile(n, d)
  \/ \E d \in Folders : CreateFolder(d)
  \/ \E d, e \in Folders : RenameFolder(d, e)

Next ==
  \/ Rename \/ Edit \/ Import \/ Erase
  \/ \E n \in Names : SelectFile(n) \/ DeleteFile(n)
  \/ \E d \in Folders : DeleteFolder(d)
  \/ \E p \in Sources : OthersReplace(p) \/ \E k \in 1..MaxSize : OthersWrite(p, k)
  \/ Reopens

Spec == Init /\ [][Next]_vars

(***************************************************************************)
(* Properties                                                              *)
(***************************************************************************)
Units == Damaged..MaxStamp
Texts == Seq(Units)
Phases == {"idle", "saving", "next", "copying", "verifying", "cleaning", "checking", "erasing", "unlinking"}
IsMap(f, T) == DOMAIN f \subseteq Names /\ f \in [DOMAIN f -> T]
Operations ==
  [pc : Phases, name : Names \cup {NoName}, erase : BOOLEAN, todo : Seq(Sources), reserved : SUBSET Names,
   inode : Inodes \cup {NoInode}, size : Nat, mtime : Nat, off : Nat, data : Texts]

\* A vault never holds more than its chunks.
VaultOK(v) ==
  /\ v = [files |-> v.files, dirs |-> v.dirs]
  /\ IsMap(v.files, Texts) /\ v.dirs \subseteq Folders
  /\ UsedChunks(v) < Chunks

\* Types of the variables.
TypeOK ==
  /\ VaultOK(vault) /\ VaultOK(other)
  /\ poisoned \in BOOLEAN /\ stale \in BOOLEAN /\ torn \in BOOLEAN /\ full \in BOOLEAN
  /\ disk \in [Sources -> Inodes \cup {NoInode}]
  /\ inodes \in [Inodes -> [data : Texts, mtime : Nat]]
  /\ IsMap(files, Nat) /\ folders \subseteq Folders
  /\ selected \in Names \cup {NoName}
  /\ op \in Operations
  /\ ops \in 0..MaxOps /\ stamp \in 1..MaxStamp
  /\ doomed \subseteq Texts

\* Whatever an original held when the application decided to erase it is in the
\* vault, until the user deletes or edits it there: though programs rewrite or
\* replace the file at any point, writes are damaged, calls fail, later imports
\* of the batch go wrong, and the process ends in the middle.
ErasedIsStored ==
  \A data \in doomed : \E n \in DOMAIN vault.files : vault.files[n] = data

\* No import, rename, move or new note takes the place of another file, though
\* the engine's rename replaces and only the lists, which may be old, are asked.
NothingOverwritten ==
  [][/\ Rename => \A n \in DOMAIN vault.files :
                    \E m \in DOMAIN vault'.files : vault'.files[m] = vault.files[n]
     /\ Import \/ Erase => \A n \in DOMAIN vault.files \ {op.name} :
                    n \in DOMAIN vault'.files /\ vault'.files[n] = vault.files[n]]_vars

\* An import or an edit that passed the check of the free space is not refused
\* half way for lack of room, unless an edit that failed since has left the
\* listed sizes wrong, or the source has grown.
PreflightSuffices == ~full

\* Between operations the lists are the vault's, the selection is a file in
\* them, and the viewer shows nothing else than that file, as it is in the
\* vault; after an edit failed half way, sizes and content may be old.
ViewMatches ==
  op.pc = "idle" =>
    /\ DOMAIN files = DOMAIN vault.files /\ folders = FoldersOf(vault)
    /\ selected \in DOMAIN files \cup {NoName}
    /\ stale \/ files = Listed(vault)
    /\ torn \/ shown = NoContent \/ (selected # NoName /\ shown = vault.files[selected])
=============================================================================
