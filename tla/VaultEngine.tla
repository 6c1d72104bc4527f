------------------------------ MODULE VaultEngine ------------------------------
(***************************************************************************)
(* The storage engine of one `.vault` file (crates/farewell_format, the    *)
(* mutation half of vault.rs): every public mutation of an open Vault, cut *)
(* into the disk writes it performs, with an I/O error, a kill of the      *)
(* process or a power loss possible at each of them, and the reopening     *)
(* that follows.                                                           *)
(*                                                                         *)
(* A mutation prepares a candidate manifest in memory, writes its FRESH    *)
(* chunks, SHREDs the chunks the candidate gives up, writes the MANIFEST   *)
(* chunk (installing the candidate as the live manifest), and SYNCs.  An   *)
(* error in the fresh phase ends the call; an error in any later phase     *)
(* also poisons the session.  Folders and names are modelled in            *)
(* Namespace, byte offsets in ByteRange; here a file is a list of chunks.  *)
(***************************************************************************)
EXTENDS Naturals, FiniteSets, Sequences

CONSTANTS
  Names,        \* file names
  Data,         \* what the plaintext of one chunk can be
  Zero,         \* the all-zero plaintext that fills holes
  Chunks,       \* the chunk indices of the file, 0 .. total_chunks - 1
  MC,           \* the manifest chunk, derived from the master key
  Junk,         \* content no key opens: random fill, a torn write
  Header,       \* content of MC when it holds a well-formed manifest
  NoChunk,      \* "this position had no chunk before"
  Keep,         \* "the write leaves the content of this chunk alone"
  Folders,      \* folder paths ...
  Under,        \* ... and for each, the names that have it as prefix
  ManifestCap,  \* what a manifest chunk can list (CHUNK_PLAINTEXT_LEN)
  Ops,          \* the operations callers use
  Faults,       \* the faults that occur: subset of {"io", "kill", "power"}
  MaxLen,       \* bound: chunks per file
  MaxCounter,   \* bound: manifest counter
  MaxFaults     \* bound: faults per behaviour

ASSUME ChunkAssumption == MC \in Chunks /\ IsFiniteSet(Chunks) /\ NoChunk \notin Chunks
ASSUME BlockAssumption == Zero \in Data /\ {Junk, Header, Keep} \cap Data = {} /\ Junk # Header
ASSUME FolderAssumption == IsFiniteSet(Names) /\ Under \in [Folders -> SUBSET Names]
ASSUME BoundAssumption == MaxLen \in Nat /\ MaxCounter \in Nat /\ MaxFaults \in Nat /\ ManifestCap \in Nat

VARIABLES
  disk,      \* chunk -> content, as a read of the file returns it
  dman,      \* the manifest in MC; meaningful while disk[MC] = Header
  media,     \* the same two, ...
  mman,      \* ... as of the last sync that succeeded
  dirty,     \* chunks written since that sync
  open,      \* a session holds the file open (and its flock)
  live,      \* Vault.mounted.manifest of that session
  poisoned,  \* Vault.poisoned of that session
  pc,        \* phase of the mutation in flight, or "idle"
  jobs,      \* fresh chunks still to write
  shred,     \* given-up chunks still to fill with random bytes
  cand,      \* the candidate manifest
  touch,     \* history: the names the mutation in flight is about
  goal,      \* history: the content it is to leave those names with
  freed,     \* history: the chunks the candidate gives up
  sure,      \* history: names whose content the caller may rely on ...
  there,     \* ... which of the names exist ...
  want,      \* ... and with which content
  acked,     \* history: counter when the last mutation returned Ok
  faults     \* faults so far

diskVars == <<disk, dman, dirty>>
mediaVars == <<media, mman>>
opVars == <<pc, jobs, shred, cand, touch, goal, freed>>
promiseVars == <<sure, there, want, acked>>
vars == <<disk, dman, media, mman, dirty, open, live, poisoned, pc, jobs, shred,
          cand, touch, goal, freed, sure, there, want, acked, faults>>

Block == Data \cup {Junk, Header}
Job == {j \in [to : Chunks, from : Chunks \cup {NoChunk}, val : Data \cup {Keep}] :
          j.val = Keep => j.from # NoChunk}
Manifest == [names : SUBSET Names, chunks : [Names -> Seq(Chunks)], counter : Nat]

EmptyManifest == [names |-> {}, chunks |-> [n \in Names |-> <<>>], counter |-> 0]

(***************************************************************************)
(* Manifests                                                               *)
(***************************************************************************)
Listed(m, n) == {m.chunks[n][i] : i \in 1..Len(m.chunks[n])}
Owned(m) == UNION {Listed(m, n) : n \in Names}

Upsert(m, n, list) ==
  [names   |-> m.names \cup {n},
   chunks  |-> [m.chunks EXCEPT ![n] = list],
   counter |-> m.counter + 1]

\* Manifest::remove for each name of S: the counter advances once per name found.
Remove(m, S) ==
  [names   |-> m.names \ S,
   chunks  |-> [n \in Names |-> IF n \in S THEN <<>> ELSE m.chunks[n]],
   counter |-> m.counter + Cardinality(S \cap m.names)]

\* The size check of Manifest::serialize: one unit per entry and per chunk reference.
Fits(m) == Cardinality(m.names) + Cardinality(Owned(m)) <= ManifestCap

(***************************************************************************)
(* allocate_chunks: `keep` reusable chunks lead the list, the rest is a    *)
(* random choice of the chunks that are neither listed nor the manifest    *)
(* chunk (a chunk of the reusable file is never chosen again).             *)
(***************************************************************************)
\* A mutant: the manifest chunk is not put into `used`.
FreeWithManifest == Chunks \ Owned(live)

Free == Chunks \ (Owned(live) \cup {MC})

Alloc(from, to) ==
  {f \in [from..to -> Free] : \A i, j \in from..to : f[i] = f[j] => i = j}

Extend(old, keep, len, fresh) ==
  [i \in 1..len |-> IF i <= keep THEN old[i] ELSE fresh[i]]

Read(list) == [i \in 1..Len(list) |-> disk[list[i]]]

(***************************************************************************)
(* Starting a mutation.  ensure_mutable, the candidate's serialize and the *)
(* allocation have succeeded; nothing has been written yet.                *)
(***************************************************************************)
Phase(js, ss) ==
  CASE js # {} -> "fresh" [] js = {} /\ ss # {} -> "shred" [] OTHER -> "manifest"

\* Vault::ensure_mutable; &mut self allows one mutation at a time.
Mutable == open /\ ~poisoned /\ pc = "idle"

Begin(S, js, ss, m, g) ==
  /\ Mutable
  /\ Fits(m)
  /\ m.counter <= MaxCounter
  /\ pc' = Phase(js, ss)
  /\ jobs' = js
  /\ shred' = ss
  /\ cand' = m
  /\ touch' = S
  /\ goal' = g
  /\ freed' = Owned(live) \ Owned(m)
  /\ UNCHANGED <<diskVars, mediaVars, promiseVars, open, live, poisoned, faults>>

Only(n, content) == [want EXCEPT ![n] = content]

\* add_file(name, plaintext): the chunks of a file being replaced are reused
\* first, in place; the list is written from its first position.
AddFile(n, d) ==
  LET old  == live.chunks[n]
      keep == IF Len(old) < Len(d) THEN Len(old) ELSE Len(d)
  IN  /\ "add" \in Ops
      /\ \E fresh \in Alloc(keep + 1, Len(d)) :
           LET list == Extend(old, keep, Len(d), fresh)
           IN  Begin({n},
                     {[to |-> list[i], from |-> NoChunk, val |-> d[i]] : i \in 1..Len(d)},
                     {old[i] : i \in (Len(d) + 1)..Len(old)},
                     Upsert(live, n, list),
                     Only(n, d))

\* create_file and create_file_exclusive of an absent name.
CreateFile(n) ==
  /\ "create" \in Ops
  /\ n \notin live.names
  /\ Begin({n}, {}, {}, Upsert(live, n, <<>>), Only(n, <<>>))

\* A mutant: a chunk the write does not overlap is not read back first.
WriteJobUnread(list, old, lo, hi, v, i) ==
  [to   |-> list[i],
   from |-> NoChunk,
   val  |-> IF i \in lo..hi THEN v ELSE Zero]

\* What write_file_range re-encrypts at position i: the old content where a
\* chunk existed (it is read even when the write covers all of it), under the
\* new bytes where the write overlaps the chunk.
WriteJob(list, old, lo, hi, v, i) ==
  [to   |-> list[i],
   from |-> IF i <= Len(old) THEN old[i] ELSE NoChunk,
   val  |-> IF i \in lo..hi THEN v ELSE IF i > Len(old) THEN Zero ELSE Keep]

\* The first chunk to re-encrypt: the one the write starts in, or, when it
\* starts past the end of the file, the last one (its length grows).
FirstDirty(old, lo) ==
  IF lo <= Len(old) \/ old = <<>> THEN {IF old = <<>> THEN 1 ELSE lo}
  ELSE {Len(old)} \cup (IF lo = Len(old) + 1 THEN {lo} ELSE {})

\* A mutant: the first displaced chunk is left out of to_free.
DisplacedButFirst(old, first) == {old[i] : i \in (first + 1)..Len(old)}

\* A mutant: the last chunk the write leaves in place is shredded too.
DisplacedOneMore(old, first) == {old[i] : i \in {j \in 1..Len(old) : j + 1 >= first}}

\* The chunks write_file_range displaces: those from the first dirty one on.
Displaced(old, first) == {old[i] : i \in first..Len(old)}

\* write_file_range(name, ...) putting v into chunks lo..hi of the file.  All
\* chunks from the first dirty one to the end move to freshly allocated ones;
\* a hole is filled with zeros.
WriteRange(n, lo, hi, v) ==
  LET old == live.chunks[n]
      len == IF hi < Len(old) THEN Len(old) ELSE hi
  IN  /\ "write" \in Ops
      /\ n \in live.names
      /\ \E first \in FirstDirty(old, lo) : \E fresh \in Alloc(first, len) :
           LET list == Extend(old, first - 1, len, fresh)
           IN  Begin({n},
                     {WriteJob(list, old, lo, hi, v, i) : i \in first..len},
                     Displaced(old, first),
                     Upsert(live, n, list),
                     Only(n, [i \in 1..len |->
                                IF i \in lo..hi THEN v
                                ELSE IF i > Len(old) THEN Zero ELSE disk[old[i]]]))

\* truncate_file to fewer bytes, ending in chunk k: the chunks past k are
\* given up.  When the cut falls inside chunk k, its surviving prefix v is
\* re-encrypted under one fresh chunk.
TruncateAligned(n, k) ==
  LET old == live.chunks[n]
  IN  /\ "truncate" \in Ops
      /\ n \in live.names
      /\ k < Len(old)
      /\ Begin({n}, {}, {old[i] : i \in (k + 1)..Len(old)},
               Upsert(live, n, SubSeq(old, 1, k)),
               Only(n, Read(SubSeq(old, 1, k))))

TruncateInside(n, k, v) ==
  LET old == live.chunks[n]
  IN  /\ "truncate" \in Ops
      /\ n \in live.names
      /\ k \in 1..Len(old)
      /\ \E fresh \in Alloc(k, k) :
           Begin({n},
                 {[to |-> fresh[k], from |-> old[k], val |-> v]},
                 {old[i] : i \in k..Len(old)},
                 Upsert(live, n, Extend(old, k - 1, k, fresh)),
                 Only(n, [Read(SubSeq(old, 1, k)) EXCEPT ![k] = v]))

\* rename_file(old, new): an existing `new` is replaced, its chunks shredded.
RenameFile(a, b) ==
  /\ "rename" \in Ops
  /\ a \in live.names
  /\ a # b
  /\ Begin({a, b}, {}, Listed(live, b),
           Upsert(Remove(live, {a, b}), b, live.chunks[a]),
           [want EXCEPT ![a] = <<>>, ![b] = Read(live.chunks[a])])

DeleteFile(n) ==
  /\ "delete" \in Ops
  /\ n \in live.names
  /\ Begin({n}, {}, Listed(live, n), Remove(live, {n}), Only(n, <<>>))

\* delete_folder: every file under the folder; the counter advances once more
\* for the folder list (which Namespace models).
DeleteFolder(f) ==
  /\ "rmdir" \in Ops
  /\ LET m == Remove(live, Under[f])
     IN  Begin(Under[f], {}, UNION {Listed(live, n) : n \in Under[f]},
               [m EXCEPT !.counter = @ + 1],
               [n \in Names |-> IF n \in Under[f] THEN <<>> ELSE want[n]])

(***************************************************************************)
(* The writes of a mutation, one per step.  The set of chunks a phase has  *)
(* left is unordered: the code's loop order is one of the orders allowed.  *)
(***************************************************************************)
Put(c, v) ==
  /\ disk' = [disk EXCEPT ![c] = v]
  /\ dirty' = dirty \cup {c}

\* From here on the caller can rely on the touched names only once the
\* mutation has returned Ok.
Unsettle == sure' = sure \ touch

Readable(j) == j.from # NoChunk => disk[j.from] \in Data

\* A mutant: the old content is not copied into the re-encrypted chunk.
FreshContentUncopied(j) == j.val

\* A migrated chunk is its old content under the bytes the call overlays.
FreshContent(j) == IF j.val = Keep THEN disk[j.from] ELSE j.val

FreshStep ==
  \E j \in jobs :
    /\ pc = "fresh"
    /\ Readable(j)
    /\ Put(j.to, FreshContent(j))
    /\ jobs' = jobs \ {j}
    /\ pc' = Phase(jobs \ {j}, shred)
    /\ sure' = IF j.to \in Owned(live) THEN sure \ touch ELSE sure
    /\ UNCHANGED <<dman, mediaVars, open, live, poisoned, shred, cand, touch, goal,
                   freed, there, want, acked, faults>>

ShredStep ==
  \E c \in shred :
    /\ pc = "shred"
    /\ Put(c, Junk)
    /\ shred' = shred \ {c}
    /\ pc' = Phase({}, shred \ {c})
    /\ Unsettle
    /\ UNCHANGED <<dman, mediaVars, open, live, poisoned, jobs, cand, touch, goal,
                   freed, there, want, acked, faults>>

\* publish_manifest up to the sync: the candidate goes live after the write.
ManifestStep ==
  /\ pc = "manifest"
  /\ Put(MC, Header)
  /\ dman' = cand
  /\ live' = cand
  /\ pc' = "sync"
  /\ Unsettle
  /\ UNCHANGED <<mediaVars, open, poisoned, jobs, shred, cand, touch, goal, freed,
                 there, want, acked, faults>>

\* No mutation in flight: the values its variables rest at.
Rest ==
  /\ pc' = "idle" /\ jobs' = {} /\ shred' = {} /\ cand' = EmptyManifest
  /\ touch' = {} /\ goal' = [n \in Names |-> <<>>] /\ freed' = {}

\* A mutant: the call returns Ok without a sync.
NoFlush == UNCHANGED <<media, mman, dirty>>

\* File::sync_all and durable_sync: everything written reaches the medium.
\* (On Apple targets the standard library's sync_all is F_FULLFSYNC too.)
Flush == media' = disk /\ mman' = dman /\ dirty' = {}

\* The sync succeeds and the call returns Ok.
SyncStep ==
  /\ pc = "sync"
  /\ Flush
  /\ sure' = sure \cup touch
  /\ there' = (there \ touch) \cup (touch \cap live.names)
  /\ want' = [n \in Names |-> IF n \in touch THEN goal[n] ELSE want[n]]
  /\ acked' = live.counter
  /\ Rest
  /\ UNCHANGED <<disk, dman, open, live, poisoned, faults>>

(***************************************************************************)
(* Faults.  The write a fault hits has not happened, or has torn its chunk *)
(***************************************************************************)
Fault(kind) ==
  /\ kind \in Faults
  /\ faults < MaxFaults
  /\ faults' = faults + 1

\* The chunks the mutation's next write may target.
Targets ==
  CASE pc = "fresh"    -> {j.to : j \in jobs}
    [] pc = "shred"    -> shred
    [] pc = "manifest" -> {MC}
    [] OTHER           -> {}

Tear ==
  \/ UNCHANGED <<disk, dirty, sure>>
  \/ \E c \in Targets :
       /\ Put(c, Junk)
       /\ sure' = IF c \in Owned(live) \cup {MC} THEN sure \ touch ELSE sure

\* An `Err` before destructive_phase: a chunk to migrate does not decrypt.
ReadFails ==
  /\ pc = "fresh"
  /\ \E j \in jobs : ~Readable(j)
  /\ Rest
  /\ UNCHANGED <<diskVars, mediaVars, promiseVars, open, live, poisoned, faults>>

FreshFails ==
  /\ Fault("io")
  /\ pc = "fresh"
  /\ Tear
  /\ Rest
  /\ UNCHANGED <<dman, mediaVars, open, live, poisoned, there, want, acked>>

\* A mutant: the error is returned, the session stays usable.
NoPoison == poisoned' = poisoned

\* destructive_phase's error arm.
Poison == poisoned' = TRUE

\* An `Err` inside destructive_phase: shred, manifest write, or sync.
DestructiveFails ==
  /\ Fault("io")
  /\ pc \in {"shred", "manifest", "sync"}
  /\ Tear
  /\ Poison
  /\ Rest
  /\ UNCHANGED <<dman, mediaVars, open, live, there, want, acked>>

Offline == open' = FALSE /\ poisoned' = FALSE /\ live' = EmptyManifest

\* The process dies during a mutation; the kernel keeps what was written.
Kill ==
  /\ Fault("kill")
  /\ pc # "idle"
  /\ Tear
  /\ Rest
  /\ Offline
  /\ UNCHANGED <<dman, mediaVars, there, want, acked>>

\* The machine loses power: each chunk written since the last sync keeps its
\* old content, has its new content, or is torn.
PowerLoss ==
  /\ Fault("power")
  /\ dirty # {}
  /\ \E kept \in SUBSET dirty : \E torn \in SUBSET (dirty \ kept) :
       LET after == [c \in Chunks |->
                       IF c \in torn THEN Junk ELSE IF c \in kept THEN disk[c] ELSE media[c]]
           aman  == IF MC \in kept THEN dman ELSE mman
       IN  disk' = after /\ media' = after /\ dman' = aman /\ mman' = aman
  /\ dirty' = {}
  /\ Rest
  /\ Offline
  /\ UNCHANGED promiseVars

(***************************************************************************)
(* Sessions                                                                *)
(***************************************************************************)
\* Vault::open_inner: the manifest chunk decrypts and parses.
Open ==
  /\ ~open
  /\ disk[MC] = Header
  /\ open' = TRUE
  /\ live' = dman
  /\ poisoned' = FALSE
  /\ UNCHANGED <<diskVars, mediaVars, promiseVars, opVars, faults>>

Close ==
  /\ open
  /\ pc = "idle"
  /\ Offline
  /\ UNCHANGED <<diskVars, mediaVars, promiseVars, opVars, faults>>

-----------------------------------------------------------------------------
\* VaultBuilder::build: random fill, an empty manifest, all of it synced, and
\* the level mounted.
Init ==
  /\ disk = [c \in Chunks |-> IF c = MC THEN Header ELSE Junk]
  /\ media = disk
  /\ dman = EmptyManifest /\ mman = EmptyManifest
  /\ dirty = {}
  /\ open = TRUE /\ live = EmptyManifest /\ poisoned = FALSE
  /\ pc = "idle" /\ jobs = {} /\ shred = {} /\ cand = EmptyManifest
  /\ touch = {} /\ goal = [n \in Names |-> <<>>] /\ freed = {}
  /\ sure = Names /\ there = {} /\ want = [n \in Names |-> <<>>] /\ acked = 0
  /\ faults = 0

Contents == UNION {[1..k -> Data] : k \in 1..MaxLen}

Call ==
  \/ \E n \in Names, d \in Contents : AddFile(n, d)
  \/ \E n \in Names : CreateFile(n) \/ DeleteFile(n)
  \/ \E n \in Names, v \in Data, lo \in 1..MaxLen :
       \E hi \in lo..MaxLen : WriteRange(n, lo, hi, v)
  \/ \E n \in Names, k \in 0..MaxLen : TruncateAligned(n, k)
  \/ \E n \in Names, k \in 1..MaxLen, v \in Data : TruncateInside(n, k, v)
  \/ \E a, b \in Names : RenameFile(a, b)
  \/ \E f \in Folders : DeleteFolder(f)

Next ==
  \/ Call
  \/ FreshStep \/ ShredStep \/ ManifestStep \/ SyncStep
  \/ ReadFails \/ FreshFails \/ DestructiveFails \/ Kill \/ PowerLoss
  \/ Open \/ Close

Spec == Init /\ [][Next]_vars
-----------------------------------------------------------------------------
(***************************************************************************)
(* Properties                                                              *)
(***************************************************************************)
\* Every variable keeps its type; in particular no chunk a mutation re-encrypts
\* is ever left without a defined content.
TypeOK ==
  /\ disk \in [Chunks -> Block] /\ media \in [Chunks -> Block]
  /\ dman \in Manifest /\ mman \in Manifest
  /\ dirty \subseteq Chunks
  /\ open \in BOOLEAN /\ live \in Manifest /\ poisoned \in BOOLEAN
  /\ pc \in {"idle", "fresh", "shred", "manifest", "sync"}
  /\ jobs \subseteq Job /\ shred \subseteq Chunks /\ cand \in Manifest
  /\ touch \subseteq Names /\ goal \in [Names -> Seq(Block)] /\ freed \subseteq Chunks
  /\ sure \subseteq Names /\ there \subseteq Names /\ want \in [Names -> Seq(Block)]
  /\ acked \in Nat /\ faults \in 0..MaxFaults

\* A manifest lists no chunk twice, never lists the manifest chunk, and lists
\* chunks for the files it has only.
WellFormed(m) ==
  /\ \A n \in Names : \A i \in 1..Len(m.chunks[n]) : m.chunks[n][i] # MC
  /\ \A n1, n2 \in Names :
       \A i \in 1..Len(m.chunks[n1]), j \in 1..Len(m.chunks[n2]) :
         m.chunks[n1][i] = m.chunks[n2][j] => n1 = n2 /\ i = j
  /\ \A n \in Names \ m.names : m.chunks[n] = <<>>

\* Chunk ownership: in every manifest that the program or the disk can go by -
\* the live one, the candidate, the one on disk, the one a power loss brings
\* back - each chunk belongs to at most one file and MC to none, after any
\* sequence of allocations, reuses, renames and failures.
ChunkOwnership ==
  /\ WellFormed(live) /\ WellFormed(cand)
  /\ WellFormed(dman) /\ WellFormed(mman)

\* Manifest m and chunk contents d give name n what its caller was promised.
Holds(m, d, n) ==
  /\ n \in m.names <=> n \in there
  /\ Len(m.chunks[n]) = Len(want[n])
  /\ \A i \in 1..Len(want[n]) : d[m.chunks[n][i]] = want[n][i]

\* What the caller was told is on disk is there, as long as the vault can be
\* opened at all: no I/O error, kill or power loss during an operation on some
\* names changes any other file, an acknowledged operation outlives a power
\* loss, and a name is in doubt only from the first write that endangers it.
SettledFilesSurvive ==
  disk[MC] = Header => \A n \in sure : Holds(dman, disk, n)

\* A session that accepts mutations works from the manifest that is on disk:
\* whenever a call has failed so that this may be wrong, it is poisoned.
LiveMatchesDisk ==
  open /\ ~poisoned /\ pc = "idle" => disk[MC] = Header /\ dman = live

\* The counter an owner records after an operation is a sound anti-rollback
\* floor: a vault that opens later never shows less, so
\* require_counter_at_least raises no false alarm.
CounterNotBehindAck == disk[MC] = Header => dman.counter >= acked

\* The step in which a mutation returns Ok.
Acknowledged == pc = "sync" /\ pc' = "idle" /\ open' /\ ~poisoned'

\* When a mutation returns Ok, every chunk that the old manifest listed and
\* the new one does not has been overwritten, on the medium and not only in
\* the cache.
ShreddedWhenAcked ==
  [][Acknowledged
       => \A c \in freed : media'[c] = Junk]_vars

(***************************************************************************)
(* What the repository's documents say, which the code does not do.        *)
(***************************************************************************)
\* ARCHITECTURE.md 9.2: killed during shred, "either the file is entirely
\* present, or it is entirely deleted".
KilledShredIsAllOrNothing ==
  ~open /\ disk[MC] = Header =>
    \A n \in dman.names : \A i \in 1..Len(dman.chunks[n]) : disk[dman.chunks[n][i]] \in Data

\* add_file: "Writing the fresh chunks is also non-destructive"; "on error the
\* old state is fully intact": a session that an error did not poison still
\* reads back the last content acknowledged for each file.
UnpoisonedReadsBack ==
  open /\ ~poisoned /\ pc = "idle" => \A n \in Names : Holds(live, disk, n)

\* CHARTER.md: "Versioning, snapshot, undelete. Deletion = irrecoverable.": once
\* a delete has returned Ok, a chunk holding what the file held belongs to a
\* file that is still listed (a free chunk opens with the same derived key).
DeletedContentIsGone ==
  [][Acknowledged
       => \A n \in touch \ live.names : \A i \in 1..Len(want[n]) : \A c \in Chunks :
            disk[c] = want[n][i] /\ disk[c] \in Data => c \in Owned(live)]_vars
=============================================================================
