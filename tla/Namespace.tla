------------------------------- MODULE Namespace -------------------------------
(***************************************************************************)
(* The names of a vault: the flat list of file names with slashes and the  *)
(* list of explicit folders in its manifest, and the calls that change     *)
(* them (crates/farewell_format, vault.rs and manifest.rs).  A call is one *)
(* step: it edits a candidate manifest and publishes it whole or not at    *)
(* all, which is VaultEngine's subject.  A call that is refused changes    *)
(* nothing.                                                                *)
(*                                                                         *)
(* A path is the sequence of its components, what split('/') returns: a    *)
(* leading, trailing or double slash gives an Empty component.  Folder     *)
(* paths are normalized; file names are kept as the caller spells them.    *)
(* Lengths are counted in components instead of bytes.                     *)
(***************************************************************************)
EXTENDS Naturals, Sequences, FiniteSets, FiniteSetsExt, SequencesExt

CONSTANTS
  Comp,         \* path components
  Empty,        \* the empty component
  Control,      \* a component with a control character, allowed nowhere
  Bodies,       \* identities of file contents
  FileNames,    \* the file names callers pass
  FolderPaths,  \* the folder paths callers pass
  MaxName,      \* MAX_NAME_LEN
  MaxFolder,    \* MAX_FOLDER_PATH_LEN
  Capacity,     \* what a manifest chunk holds
  MaxCounter    \* bound: manifest counter

Path == Seq(Comp \cup {Empty})

ASSUME PathAssumption ==
  /\ {Empty, Control} \cap Comp = {} /\ Empty # Control
  /\ FileNames \subseteq Seq(Comp \cup {Empty, Control})
  /\ FolderPaths \subseteq Seq(Comp \cup {Empty, Control})
ASSUME LimitAssumption ==
  /\ MaxName \in Nat /\ MaxFolder \in Nat /\ Capacity \in Nat /\ MaxCounter \in Nat

VARIABLES
  entries,  \* Manifest.entries: [name, body]
  folders,  \* Manifest.folders
  counter   \* Manifest.counter

vars == <<entries, folders, counter>>

Entry == [name : Path, body : Bodies]

NamesOf(es) == {e.name : e \in es}
BodiesOf(es) == {e.body : e \in es}
Named(n) == {e \in entries : e.name = n}

(***************************************************************************)
(* Paths                                                                   *)
(***************************************************************************)
\* The elements of s that are in S, in their order.
Filter(s, S) ==
  LET kept[i \in 0..Len(s)] ==
        IF i = 0 THEN <<>>
        ELSE IF s[i] \in S THEN Append(kept[i - 1], s[i]) ELSE kept[i - 1]
  IN  kept[Len(s)]

Normalize(p) == Filter(p, Comp \cup {Control})

\* normalize_folder returns a path.
IsFolder(p) == p # <<>> /\ p \in Path

\* validate_name and validate_folder_path.
ValidName(n) == n \in Path /\ Len(n) \in 1..MaxName /\ n # <<Empty>>
ValidFolder(p) == p \in Path /\ Len(p) \in 1..MaxFolder

\* q starts with the string "p/".
Under(p, q) == Len(q) > Len(p) /\ SubSeq(q, 1, Len(p)) = p

\* q with the prefix `old` replaced by `new`.
Reprefix(old, new, q) == new \o SubSeq(q, Len(old) + 1, Len(q))

Ancestors(p) == {SubSeq(Normalize(p), 1, k) : k \in 1..Len(Normalize(p))}

\* Vault::folders: explicit folders, those that file names imply, and all
\* their ancestors.
FoldersOf(es, fs) ==
  (UNION {Ancestors(fs[i]) : i \in 1..Len(fs)})
    \cup (UNION {Ancestors(Front(e.name)) : e \in es})

\* Manifest::serialize accepts the manifest.
Fits(es, fs) ==
  /\ \A n \in NamesOf(es) : ValidName(n)
  /\ \A i \in 1..Len(fs) : ValidFolder(fs[i])
  /\ MapThenSumSet(LAMBDA e : Len(e.name) + 1, es)
       + FoldSeq(LAMBDA f, n : Len(f) + 1 + n, 0, fs) <= Capacity

\* The candidate becomes the manifest, with the counter n further on.
Publish(es, fs, n) ==
  /\ Fits(es, fs)
  /\ counter + n <= MaxCounter
  /\ entries' = es
  /\ folders' = fs
  /\ counter' = counter + n

(***************************************************************************)
(* Files                                                                   *)
(***************************************************************************)
\* create_file of an absent name, or add_file of any name.
PutFile(n, b) ==
  /\ ValidName(n)
  /\ b \notin BodiesOf(entries)
  /\ Publish((entries \ Named(n)) \cup {[name |-> n, body |-> b]}, folders, 1)

DeleteFile(n) ==
  /\ Named(n) # {}
  /\ Publish(entries \ Named(n), folders, 1)

\* The counter advances for each of the two entries removed and the one added.
RenameFile(a, b) ==
  /\ ValidName(b)
  /\ a # b
  /\ Named(a) # {}
  /\ Publish((entries \ (Named(a) \cup Named(b))) \cup {[e EXCEPT !.name = b] : e \in Named(a)},
             folders,
             IF Named(b) = {} THEN 2 ELSE 3)

(***************************************************************************)
(* Folders                                                                 *)
(***************************************************************************)
\* A mutant: the counter is left as it is.
CreateFolderUncounted(path) ==
  LET p == Normalize(path)
  IN  /\ ValidFolder(p)
      /\ ~Contains(folders, p)
      /\ Publish(entries, Append(folders, p), 0)

CreateFolder(path) ==
  LET p == Normalize(path)
  IN  /\ ValidFolder(p)
      /\ ~Contains(folders, p)
      /\ Publish(entries, Append(folders, p), 1)

DeleteFolder(path) ==
  LET p == Normalize(path)
      victims == {e \in entries : Under(p, e.name)}
  IN  /\ ValidFolder(p)
      /\ Publish(entries \ victims,
                 Filter(folders, {f \in ToSet(folders) : f # p /\ ~Under(p, f)}),
                 Cardinality(victims) + 1)

\* The names rename_folder gives.
MovedEntries(old, new) ==
  {IF Under(old, e.name) THEN [e EXCEPT !.name = Reprefix(old, new, @)] ELSE e : e \in entries}

\* A mutant: the explicit folders below the renamed one keep their paths.
MovedFoldersTop(old, new) ==
  [i \in 1..Len(folders) |-> IF folders[i] = old THEN new ELSE folders[i]]

MovedFolders(old, new) ==
  [i \in 1..Len(folders) |->
     IF folders[i] = old THEN new
     ELSE IF Under(old, folders[i]) THEN Reprefix(old, new, folders[i])
     ELSE folders[i]]

\* A mutant: no check that the new names are free.
TakesAny(old, new) == TRUE

\* The collision check: no file has a name that a moved file would get.
NoCollision(old, new) ==
  \A e \in entries : Under(old, e.name) => Named(Reprefix(old, new, e.name)) = {}

\* The checks before serialize.
Accepts(old, new) ==
  /\ IsFolder(old) /\ ValidFolder(new)
  /\ old # new
  /\ NoCollision(old, new)

RenameFolder(from, to) ==
  LET old == Normalize(from)
      new == Normalize(to)
  IN  /\ Accepts(old, new)
      /\ Publish(MovedEntries(old, new), MovedFolders(old, new), 1)

-----------------------------------------------------------------------------
Init == entries = {} /\ folders = <<>> /\ counter = 0

Next ==
  \/ \E n \in FileNames, b \in Bodies : PutFile(n, b)
  \/ \E n \in FileNames : DeleteFile(n)
  \/ \E a, b \in FileNames : RenameFile(a, b)
  \/ \E p \in FolderPaths : CreateFolder(p) \/ DeleteFolder(p)
  \/ \E p, q \in FolderPaths : RenameFolder(p, q)

Spec == Init /\ [][Next]_vars
-----------------------------------------------------------------------------
(***************************************************************************)
(* Properties                                                              *)
(***************************************************************************)
\* Types; what was published can be read back: every name and folder in it is
\* within the limits that Manifest::parse enforces, and folders are canonical.
TypeOK ==
  /\ entries \subseteq Entry
  /\ folders \in Seq(Seq(Comp))
  /\ counter \in 0..MaxCounter
  /\ Fits(entries, folders)

\* No two entries have one name, after any sequence of renames of files and of
\* folders: `find` would only ever see the first of them.
UniqueNames == \A e, f \in entries : e.name = f.name => e = f

\* Renaming a folder to a path of which the vault holds nothing moves the
\* whole subtree - nothing is left at or under the old path - and renaming it
\* back is not refused and restores the same files and folders.  (Of file
\* names that are normalized: the prefix match takes names as spelled.)
Canonical == \A n \in NamesOf(entries) : Normalize(n) = n
Absent(p) == p \notin FoldersOf(entries, folders)
Apart(p, q) == p # q /\ ~Under(p, q) /\ ~Under(q, p)

FolderRenameUndone ==
  \A from, to \in FolderPaths :
    LET old == Normalize(from)
        new == Normalize(to)
        es  == MovedEntries(old, new)
        fs  == MovedFolders(old, new)
        Back(q) == IF Under(new, q) THEN Reprefix(new, old, q) ELSE q
    IN  Canonical /\ Accepts(old, new) /\ Absent(new) /\ Apart(old, new) =>
          /\ \A p \in FoldersOf(es, fs) : p # old /\ ~Under(old, p)
          /\ \A e \in es : Under(new, e.name) => Back(e.name) \notin NamesOf(es)
          /\ {[e EXCEPT !.name = Back(@)] : e \in es} = entries
          /\ \A i \in 1..Len(folders) :
               folders[i] = IF fs[i] = new THEN old ELSE Back(fs[i])

\* Whatever changes the names advances the counter: two different trees never
\* carry the same counter, so a rollback of the tree is one of the counter.
CounterCoversTree ==
  [][<<entries, folders>>' # <<entries, folders>> => counter' > counter]_vars

(***************************************************************************)
(* What the comments of vault.rs say, which the code does not do.          *)
(***************************************************************************)
\* rename_folder: "Refuses if the new path would collide with an existing file
\* name."
RenameSparesFileNames ==
  [][\A p, q \in FolderPaths :
       RenameFolder(p, q) /\ <<entries, folders>>' # <<entries, folders>>
         => Normalize(q) \notin NamesOf(entries')]_vars
=============================================================================
