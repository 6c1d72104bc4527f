# Farewell: a TLA+ model of the vault

Farewell keeps files in one encrypted `.vault` file: a header with a key slot,
and a fixed number of equal, individually encrypted chunks. One chunk, whose
place is derived from the master key, holds the manifest (names, sizes, chunk
lists, folders, a monotonic counter). A macOS application and a command-line
tool drive the Rust library through a C interface. This directory models that
program in TLA+, model-checks it with TLC and proves its main properties with
TLAPS. Paths below are relative to `src/`.

## 1. Inventory

| component | source | state | operations |
| --- | --- | --- | --- |
| storage engine | `crates/farewell_format/src/vault.rs`, `chunk.rs` | chunks on disk, live manifest, `poisoned` | add, create, write range, truncate, rename, delete, folders, open, read |
| manifest | `manifest.rs` | entries, folders, counter | upsert, remove, serialize (capacity), parse, validation |
| slot and enrollment | `slot.rs`, `metadata.rs` | header: Argon2 salt, wrapped key, up to 3 hardware credentials | wrap, try_unwrap, add/remove credential, re-enroll |
| creation, migration | `vault.rs` 328-679 | a new file | build, copy of every file and folder, verification |
| file lock | `lock.rs` | flock on the open file | acquire (non-blocking), released on drop |
| FFI bridge | `crates/farewell_mount/src/lib.rs` | opaque handles | every call of the application; enrollment flows that wait for keys |
| application session | `swift/Sources/FarewellApp/main.swift` | handle, `busy`, `sessionGeneration`, `lockPending`, `keyOpInProgress` | open, close, auto-lock, migrate, key management, import |
| application library | `main.swift` | lists of files and folders, selection, viewer | notes, editor, renames and moves, import of files, erasure of the originals, export |
| application media | `main.swift` | generation, buffers in flight, end of stream | audio player on a serial queue; video and image viewers |
| audio decoder | `crates/farewell_audio/src` | next packet, leftover samples | read, seek, waveform |
| licensing | `crates/farewell_license/src` | license file, its temporary file | verify for this Mac, store (tmp, fsync, rename), load |
| command-line tool | `tools/farewell-cli` | a second process on the same files | init, add, read, list, delete, migrate, activate |
| others | `farewell_fido2`, `_keys`, `_crypto`, `_passphrase`, `_p2p`, `_attest` | - | devices, primitives, stubs |

How they meet: the application owns one handle and hands it to a worker at a
time; the library takes an exclusive flock for as long as a vault is open, so
that one process mutates a vault; within a process `&mut self` makes mutations
sequential. What can go wrong is therefore mostly *inside* a mutation (a fault
between two of its writes), *between* two processes that read the slot without
the lock, and *between* a worker and the lock events of the main thread.

What makes each component correct:

- storage engine: files do not share chunks; an acknowledged operation
  outlives faults; a fault harms only the files the operation names; given-up
  chunks are random when a call returns; the session never works from a
  manifest that is not the one on disk; the counter never goes back.
- manifest: unique paths; files and folders consistent; it fits its chunk.
- slot: at most 3 keys, one passphrase; no operation locks its owner out.
- migration: the new vault holds all of the old one; some vault remains
  throughout.
- session: no result of a locked session is shown; a lock event eventually
  locks; a handle is closed once and never while in use.
- licensing: a crash leaves the old or the new license; nothing is installed that
  did not verify; what was reported as installed stays.
- library: an original is erased only when the vault has its content; no file takes
  the place of another; a check of the free space is kept; the view is the vault's.
- audio: what is heard is one ordered piece of the recording; playback that began
  ends and is shown to have.

The hazards, with their lines and the properties that cover them, are listed in
`PROJECT.json`.

## 2. Modules

| module | what it is |
| --- | --- |
| `VaultEngine` | the storage engine: mutations cut into writes, faults, sessions; its properties |
| `VaultStore` | abstract specification: what a caller is promised, without chunks or phases |
| `VaultRefinement` | the mapping from the engine to the store |
| `VaultInvariant` | the inductive invariant of the engine |
| `MCVaultEngine` | instances for TLC: the folder map, the symmetry of chunk indices |
| `VaultProofs` | theorems and proofs |
| `FileText` | abstract specification: one file as a string of bytes |
| `ByteRange`, `MCByteRange` | the byte arithmetic of one file: sizes, offsets, windows, holes, overflow; it implements `FileText` |
| `Namespace`, `MCNamespace` | the manifest's tree of names: files, explicit and implied folders, counter |
| `FileProofs` | theorems and proofs of `Namespace` and `ByteRange` |
| `Session`, `MCSession` | the application's session: one handle, calls on other threads, lock events |
| `SessionProofs` | theorems and proofs |
| `SlotEnrollment`, `MCSlotEnrollment` | the hardware keys of a vault: the slot, several processes, waits for devices |
| `SlotProofs` | theorems and proofs |
| `Migration`, `MCMigration` | `migrate_vault` and what the application and the tool do with the names of the files; creation; crashes |
| `MigrationProofs` | theorems and proofs |
| `License`, `MCLicense` | verification of a license, its store, two programs activating, crashes and power losses |
| `LicenseProofs` | theorems and proofs |
| `Library`, `MCLibrary` | the files of the open vault as the application handles them: edits, imports, erasure, lists, viewer |
| `LibraryProofs` | theorems and proofs |
| `AudioPlayer`, `MCAudioPlayer` | decoder, player and audio node of one recording |
| `AudioProofs` | theorems and proofs |

`VaultEngine`, `ByteRange` and `Namespace` divide one source file. `VaultEngine` has the writes and the faults,
and a file is a list of chunks there. `ByteRange` has one file's bytes, and a
call is one step there. `Namespace` has the paths, and a file is an opaque body
there. A call that `ByteRange` or `Namespace` takes in one step is one that
`VaultEngine` shows to take effect whole or not at all, for the names that
`SettledFilesSurvive` covers.

### VaultEngine against the code

State. `disk`/`dman` is what a read of the file returns (content per chunk; the
manifest chunk's content separately), `media`/`mman` what a power loss leaves for
certain, `dirty` the chunks in between. `open`, `live`, `poisoned` are the
`Vault`'s fields. `pc`, `jobs`, `shred`, `cand` are the mutation in flight: the
fresh chunks and the random fills still to write, and the candidate manifest.
`touch`, `goal`, `freed`, `sure`, `there`, `want`, `acked` are history: what the
caller asked for and what it has been told.

Actions. A mutation is one `Begin` (the checks, the candidate manifest and the
allocation, all before the first write), then one step per chunk written:
`FreshStep`, `ShredStep`, `ManifestStep`, `SyncStep`, in the order of the code's
phases. The operations differ in the jobs, shreds and manifest they begin with:

| action | code |
| --- | --- |
| `AddFile` | `add_file`: chunks of a replaced file are reused in place, first |
| `CreateFile` | `create_file`, `create_file_exclusive` |
| `WriteRange` | `write_file_range`: every chunk from the first dirty one moves |
| `TruncateAligned`, `TruncateInside` | `truncate_file` to less, with or without a cut chunk |
| `RenameFile`, `DeleteFile`, `DeleteFolder` | the functions of those names |
| `ReadFails`, `FreshFails`, `DestructiveFails` | the error returns, with `destructive_phase` poisoning |
| `Kill`, `PowerLoss` | the environment |
| `Open`, `Close` | `open_inner`, drop |

What is abstracted: a chunk's plaintext is a value of `Data`; a partial overwrite
of a chunk is any new value; the loops over chunks are unordered sets, a superset
of the code's order. A refused call (`Full`, `NotFound`, `ManifestOverflow`, a
poisoned session) changes nothing and is a stutter; reading calls change nothing
and appear in the properties. Growing with `truncate_file` is a series of
`write_file_range` windows, so a series of `WriteRange`. The folder list of the
manifest is left to `Namespace` (only its counter increments remain). `serialize` is called
before the first write in every operation but `truncate_file`, where the fresh
chunk goes first; a truncated entry never needs more room, so the guard `Fits`
stands for both.

The environment. An I/O error or a kill leaves the write in progress undone or
its chunk torn. After a kill the kernel still has every finished write. A power
loss leaves, for each chunk written since the last successful sync, the old
content, the new content or a torn chunk, independently (no barriers). A sync
that returns makes everything durable: `File::sync_all` on Apple platforms is
`F_FULLFSYNC`, as is `durable_sync_file`. A vault whose manifest chunk was torn
cannot be opened again; that really ends the behaviour, which is why the runs do
not check deadlock (so do the bounds on faults and counter).

### ByteRange against the code

`size` and `chunks` are the `FileEntry`, each chunk as its decrypted plaintext.
`Write`, `AddFile`, `Shrink` and `Grow` are the calls, with the refusals in the
code's order (overflow before allocation before any write); `ReadRange` and
`ReadFile` are the two reading calls. A growing truncate is `Grow` (the
pre-flight), then a `GrowStep` per window, then `GrowReturns`; an I/O error in a
window is `GrowFails`. `NewSize` wraps at `MaxU + 1` as a u64 does, so that
leaving out a check in `Overflows` is not hidden by unbounded integers.

`FileText` is what a caller sees: `Replace`, `PWrite`, `Cut`, a refusal that changes
nothing, and a growing truncate, which appends zeros up to its goal in as many steps as
it likes and returns `Ok` at the goal only. `ByteRange` instantiates it as `File`, with
`text <- ReadFile` and `goal <- target`; `ImplementsText` is its specification.

Fairness: weak fairness of `GrowStep` and `GrowReturns`. A call that runs on a
thread takes its next step; nothing in the loop waits for anything.

### Namespace against the code

A path is its sequence of components, as `split('/')` returns it; the empty
component stands for a leading, trailing or doubled slash, `Control` for a
component with a control character. The calls on folders normalize their path,
the calls on files keep the name as spelled, as in the code. `Fits` is the length
and capacity check that `serialize` and `parse` share; `Publish` installs a
candidate that fits. One action per call: `PutFile`, `DeleteFile`, `RenameFile`,
`CreateFolder`, `DeleteFolder`, `RenameFolder`, with the counter increments of
each. `entries` is a set of records and not a function of names, so that two
entries with one name are a state the model can reach.

### Session against the code

State. `generation`, `lockPending`, `handle`, `busy`, `keyOp` and `keysLoading` are
`VaultModel`'s fields (`sessionGeneration`, ..., `keyOpInProgress`); `isOpen` and
`info.path` always change with `handle`. `keys` is the vault whose list the keys
panel shows. `live` is the set of vaults the library holds open: its flock lets one
handle at a time be open on a vault, so a handle is named by its vault. `hid` and
`pool` are the tasks dispatched to the HID executor (in order) and to the global
queue (in any order), `done` the blocks on their way to the main thread. A task is
what its closure captures: operation, path, generation; `late` is history.

Actions. The main thread runs one block at a time, so a block is one step: a click
(`Unlock`, `CreateVault`, `LockNow`, `Migrate`, `KeyCall` for `addBackupKey` and
`convertToPassphraseOnly`, `RemoveKey`, `LoadKeys`), a lock event (`AutoLock`), and
a completion (`Deliver`, which is one of `Adopt`, `OpenFailed`, `Migrated`,
`KeyCallEnded`, `KeysRead`). `RunHid` and `RunPool` are the worker threads. Any call may
fail. `openHw`'s two attempts are one task, since nothing else runs on the executor
between them. Results may overtake one another: run-loop blocks and the main queue
are drained separately. The window's guards come from the views: the unlock screen
without a vault, nothing while `busy`, the panel's buttons once a list was read.
The prompts, the progress bar and the panel's own view state are left out, as are
calls on the open handle (file operations) and empty passphrases.

Fairness: the executor and the global queue run what is queued, calls return (waits
for keys time out in the library), and no kind of result is passed over for ever.
The user and the lock events have no fairness.

### SlotEnrollment against the code

State. `slot` is the slot on disk: the profile its passphrase key is derived with,
what wraps the master key (the passphrase's own key-wrapping key, or a random one
named by the first credential it was made for), and the entries, each a credential
with the wrapping key it holds and the profile it was written under. `owner` tells which
device made a credential, `holder` who has the vault open and so the flock, `call`
the key operation of each process: what it waits for and what it has read.
`enrolled` and `revoked` are history.

Actions. The functions of `vault.rs` that write the slot take the flock, read the
slot, edit it and write it: one step each (`Revoke`, `AddWrite`, `ConvertWrite`). The
functions of the C interface around them are not: they read the enrollment without
the lock, wait up to minutes for devices, and only then call those.

| action | code |
| --- | --- |
| `Open`, `Close` | `farewell_open_hw`, `farewell_close` |
| `Revoke` | `farewell_remove_hw_key`, `remove_hw_credential`, `remove_credential` |
| `AddStart`, `AddTouchCurrent`, `AddEnroll`, `AddWrite`, `AddReopen` | the steps of `farewell_add_backup_key`; the write is `add_hw_credential`, or `reenroll_slot` for a slot that had no key |
| `ConvertStart`, `ConvertTouch`, `ConvertWrite`, `ConvertReopen` | the steps of `farewell_convert_to_passphrase_only` |
| `Fail`, `Kill` | every error return, timeouts included; the end of a process |

What is abstracted: everyone knows the passphrase; a decryption succeeds exactly with
the right key and profile; a device answers for the credentials it made. What the
application adds, hiding a button at three keys or at the last one, is left
out: its list may be out of date, and the properties hold without it. That the
application closes its own vault before a call is kept (`holder # p`). The write of
the slot is one step, since the code keeps nothing to recover a torn one from; a sync
that fails leaves a written slot and a call that returns an error. A key added to a
slot that was converted meanwhile is wrapped under the heavy profile, which costs
time and loses nothing. A conversion discards every key the slot has by then. There
is no liveness: the user may walk away.

### Migration against the code

State. `vaults[i]` is what opening file `i` shows (contents, folders, owner, counter,
capacity; `whole` when header and manifest are readable), `dir` the five names that
matter: the vault, its `.bak` and `.migrating`, and a destination in another folder with
its own `.migrating`. `lock` is the flock, which goes with the file and not the name;
`job` the migration each process is in. `job[p].made` is the new vault as the session that
writes it reads it: through the manifest in its memory, which is what `list` and
`read_file_range` use; `made.whole` says that the header has reached the file. `acked`,
`noted`, `foreign`, `misled` and `job[p].intact` are history.

Actions. `OpensSource`, `CreatesFile`, `Fills`, `CopiesFile`, `Carries`, `VerifiesFile`,
`Returns` are the phases of `migrate_vault` and `Fails` each of its error returns; both
processes run them. `AppMigrates`, `SwapClearsBackup`, `SwapMovesOut`, `SwapMovesIn`,
`MovesAway`, `SwapFails`, `AppGivesUp`, `AppDiscardsStale` are `VaultModel.migrate` and
its neighbours; `Cli*` are `cmd_migrate`, `cmd_add`, `cmd_init`. A process may be killed
anywhere, and the power may go.

Writes of the new vault. Content may be damaged (`CopiesFile`); the header may be, and any
of the folders' manifests may be the last to arrive (`Fills`); a manifest write arrives, is
lost, so that the file goes on showing the one before, or leaves one that does not decrypt
(`AfterManifest`; for `CopiesFile` also only the manifest of `create_file`); the sync that
`migrate_vault` makes after its read-back may damage header, manifest and contents
(`Returns`). The code compares contents (vault.rs 436-457) through the manifest in memory,
publishes that manifest for the last time before it (433, not synced), and never opens the
file again. So `OkMeansCopied` has two parts: what was read back is complete, whatever content
was damaged; and the file shows just that as long as header, last manifest and last sync
were undamaged (`intact`), whatever became of the manifests before. When a copy that is
not `intact` takes the vault's name (`misled`), `NameNeverStale` says no more, and
`OneCopySurvives` counts on the `.bak` until the next migration removes it. That an Ok does
not mean a file that opens is shown by `DamagedManifest.cfg`, against the comment of
`migrate_vault` (vault.rs 309-312).

What is abstracted: a file is one chunk and one window, so that the rounding to whole
chunks in `migrate_vault` is not exercised (`ByteRange` has it), and its content the number
of its last edit. Directory operations take effect at once and survive. An edit counts as acknowledged unless it hits the vault between the end
of `migrate_vault` and the swap, when it lands in the file that becomes the backup: the
window is the code's own, since the application must close the vault to move it.

### License against the code

A token is its signature check, major version and bound serials; a file is a token in
0, 1 or 2 PEM frames, or `Torn`. `Verdict` has the checks of `verify_for_this_mac` in
their order. `Opens`, `Writes`, `Syncs`, `Renames` are the steps of
`FileLicenseStore::save`; the temporary file has one name, so two savers may open one file,
and one may rename what the other is writing. `AppActivates`, `AppReads`, `AppApplies`
are `LicenseModel`, `CliActivates` is `cmd_activate`. A power loss tears
what was not synced and may undo renames, the directory not being synced. `save` frames
whatever it is given, which for the text of a `.flw` file makes two frames.

### Library against the code

State. `vault` is the manifest as the session sees it, `other` what may be found when it
is opened again after a call failed half way, `files`, `folders`, `selected`, `shown` are
`VaultModel`'s published fields, `op` the edit or import in progress, `disk` and `inodes`
the files outside. `doomed`, `full`, `stale` and `torn` are history.

Actions. One-call operations (`NewNote`, `DeleteFile`, `RenameFile`, `MoveFile`,
`CreateFolder`, `DeleteFolder`, `RenameFolder`, `SelectFile`) are one step each, with the
refreshes that follow. `saveText` is `SaveBegins` (check, truncate), `SaveWrites` per
window, `SaveEnds`. `importOne` is `ImportOpens` (open, measure, check, create),
`ImportCopies` per window, `ImportMeasures`, `ImportVerifies`, `ImportCleans`; `secureShred`
is `EraseChecks`, `EraseOverwrites`, `EraseUnlinks`. Between any two steps other programs
write to, or replace, the originals (`OthersWrite`, `OthersReplace`), and the process may
end (`Reopens`). `HasRoomFor` is the engine's rule that fresh chunks are taken before
displaced ones are given back.

What is abstracted: a damaged write hits a window of data only, never the manifest, whose
faults are `VaultEngine`'s; contents are sequences of units, two to a chunk or window, all units of
an edit alike; only top-level folders; one overwriting pass for three; a source that cannot
be read stands for each error of reading it. Names are pairs of folder and number,
so that `uniqueName` is the least free number.

### AudioPlayer against the code

`dec` is `AudioDecoder` (next packet, leftover), `feed` the player's `generation`,
`inFlight` and `atEnd`, `node` the system's player node, `tasks` the serial queue.
`Read` and `Seek` are the decoder's functions, a packet being decoded, corrupt (skipped),
fatal, or one on which the decoder panics (`catch_unwind` in the C interface, which then
reports no samples). `Load`, `DoToggle`, `DoSeek`, `Consumed`, `Stop` are the tasks;
`Consumes` is the node, external; a stopped node reports every buffer it drops, later.
Whether a seek succeeds is left open; one that fails is assumed to leave the decoder where
it was. What the queue publishes is shown at once: values
are applied in order and only the last matters.

Fairness: the queue runs its tasks and a playing node consumes its buffers. The user's
requests have none.

## 3. Runs

| run | instance | result |
| --- | --- | --- |
| `vault_engine` | 2 files, 3 data chunks, 2 plaintexts, files of up to 2 chunks, manifest room for 4, counter up to 4, 1 fault of any kind | passes: types, ownership, durability, poisoning, counter, shredding; the engine implements `VaultStore` |
| `killed_shred` | 1 file, create, write, delete, one kill | violated, as below |
| `byte_range` | bytes 0 and 1, chunks of 3 bytes, 3 chunks, u64 up to 13, calls with up to 4 bytes, every offset | passes: chunk lengths, windows, writes as overlays; a file is a string of bytes; growing ends |
| `namespace` | 2 components, depth up to 3, 6 file and 6 folder spellings, 3 bodies, manifest room for 12, counter up to 7 | passes: unique names, folder renames, counter |
| `slot_enrollment` | 2 processes, 3 devices, 4 credentials ever made | passes: types, exactly the enrolled keys open, never locked out, replayed answers open |
| `session` | 2 vaults, 2 calls in flight, 2 lock events | passes: threads, handle ownership, late results, deferred locks, the window |
| `leaked_handle` | the same | violated, as below |
| `migration` | 2 files of one chunk, a vault of 4 chunks, 5 files on disk, 2 further edits, 2 migrations, capacities same, shrink and exactly 2 | passes: types, an Ok copy is complete as read back, and as a file unless damaged where nothing reads back, the copy fits, one copy survives, the name is never stale |
| `license` | 6 licenses (2 of this Mac, one with each fault), raw and framed, 4 files, 3 saves, 1 refresh under way | passes: the store is never torn, holds only what verified, keeps a raw key it reported |
| `license_framed` | the same | violated, as below |
| `library` | 3 names, 2 folders and the root, 2 originals, 4 chunks of 2 units, sizes up to 3, 4 stamps, 2 operations | passes: erased is stored, pre-flight suffices, lists and viewer, nothing overwritten |
| `audio_player` | 65 recordings of 3 packets of 3 frames, buffers of 2 frames, 3 requests | passes: buffers in flight, what is heard, silence until asked, playback ends |

`FileTypeOK` of `ByteRange`, `TypeOK` of `Library` and `AudioPlayer`, and `Inductive` of the
engine hold on the same instances; the runs leave them out because they are proved.
`TypeOK` of `Namespace` and `License` hold there too.

Two names are enough for a rename over an existing file and for a bystander; two
chunks per file for a kept chunk before, and a displaced one after, the first
dirty one; three data chunks for a write that moves a file while another file
holds a chunk; a counter of 4 for four operations in a row, so that displaced
chunks are allocated again. Room for 4 lets the manifest overflow. One fault is
enough to enter every kind of half-done mutation; the theorems hold for any number. Chunk indices are symmetric:
the allocator draws at random and compares none. No property of the engine needs fairness: a
mutation is a call on one thread that may stop at every step.

For `ByteRange`, a chunk of three bytes has a first, a middle and a last one, and
three chunks have a kept, a cut and an appended one; a call with four bytes spans
two boundaries; the u64 ends one byte after the last that a full vault plus
one chunk needs, so that sums of offset and length wrap. For `Namespace`, depth 3 gives a folder in a
renamed folder, two components give a target that exists and one that does not, and
the capacity lets calls be refused after the candidate was built.

For `Session`, two vaults are the one that was open and another; two calls in flight
are an overlap, and a reopen or an orphan's close comes on top of them; two lock
events are one before and one after the first completion that applies a lock.

For `SlotEnrollment`, two processes are one that waits and one that writes meanwhile;
four credentials are a full slot and one that arrives late, after a removal or a
conversion made room, or two calls racing for the last place; three devices are enough for a full slot of distinct ones.

For `Migration`, four chunks with two files are full for an exact capacity of two and
not for the source's; five files on disk are the vault, a backup, a partial copy and two
of the tool; two migrations are one by each process or one after another; two edits are
one before the plan is taken and one after. The view of `MCMigration` leaves out what no
later step or property looks at: what a file that does not open would contain, the content
of a file that is neither the vault, its backup, open for an `add`, nor a copy that may
still be returned, and the capacity asked for once the file exists. For `License`, three saves are two that
overlap and one after them. For `Library`, three units are a full window and a short one, four
stamps are two originals and the text of an edit with one intrusion, or two
intrusions; two operations are an edit before an import, or a batch of two beside a
rename. For `AudioPlayer`, three packets give five buffers, more than the three
scheduled ahead, a frame left over at every other buffer, and one bad packet at the
beginning, the middle and the end; three requests are play, seek, and another.

`byte_range`, `slot_enrollment`, `session`, `license` and the violated runs of the last two
check deadlock: there something is always possible. The others stop at their bounds.

What the violated runs show:

- `killed_shred`: `delete_file` fills the file's chunks with random bytes one by
  one and then drops it from the manifest. Killed in between, the vault reopens
  with the file listed and no longer readable; ARCHITECTURE.md 9.2 says it is
  entirely present or entirely deleted.
- `leaked_handle`: `removeKey` closes the vault and leaves the window enabled. A second
  call started meanwhile makes two reopens; the first failure brings back the unlock
  screen, another vault is opened, and of the two handles that come back `finishOpen`
  forgets one. The next lock event closes the other.
- `license_framed`: `farewell activate` accepts the text of a `.flw` file, as its help
  says it does, and reports it as installed; the store frames it once more, and what
  is read back does not parse.

The properties that do hold are stated so that they survive these: a name is
*settled* (`sure`) from the acknowledgement of an operation on it until the first
write that endangers it.

### Further configurations, outside the runs

Each of these checks one property the documentation or a comment claims and the model
refutes; TLC finds the counterexample in seconds.

| configuration | property | what the code does |
| --- | --- | --- |
| `FailedReplace.cfg` | `UnpoisonedReadsBack` | replacing a file writes the new content into the old file's chunks during the fresh phase, so an error there has destroyed old content, while the comments in `add_file` say that fresh chunks are free; the session is not poisoned |
| `DeletedContent.cfg` | `DeletedContentIsGone` | a `write_file_range` that fails midway leaves a copy of a chunk in a free chunk; deleting the file later shreds the listed chunks only. CHARTER.md: deletion is irrecoverable |
| `GrowPreflight.cfg` | `GrowRefusedUpFront` | the check that should refuse an impossible grow compares with the free chunks only, but a window that starts inside the last chunk re-encrypts it into one more: windows are committed, then the call fails with `Full` |
| `RenameOntoFile.cfg` | `RenameSparesFileNames` | `rename_folder` checks the new names of the files it moves, not the new path itself, so a folder can get the path of a file |
| `LateKeys.cfg` | `KeysAreThisVaults` | `loadKeys` publishes what it read without comparing path or generation: a list read for one vault can appear, with its revoke buttons, for the next |
| `MigrationSwap.cfg` | `VaultAtItsName` | a crash or a failure between the two moves of the swap leaves no vault at the original path; the clean-up removes the new one, so the copy is the `.bak` |
| `DamagedManifest.cfg` | `OkMeansReadable` | `migrate_vault` does not read back the header, nor the manifest it publishes last, and syncs after its verification: if one of these is lost or damaged an Ok comes with a vault that shows older contents or does not open, while the comment says that the new vault is re-read and verified before this returns Ok |
| `AudioEnd.cfg` | `EndStops` | a recording that cannot be decoded from where it is loaded or sought is found at its end with nothing in flight, and pressing play then shows it playing for ever |

Met while modelling, and kept as the model's own behaviour, without a configuration:

- an edit that fails half way leaves the listed size of the file as it was, and the next
  check (main.swift 1884) counts chunks as free that are not (`PreflightSuffices`
  excepts it, by `stale`); its truncation is durable before the new text is, so that a
  crash in between loses the old text;
- the comment on `ShrinkToFit` (vault.rs 283) has a margin of at least 256 chunks; the code
  (361) takes 16, and so does the model's `Margin`;
- `moveFile` selects the new name before it lists the files again: the viewer goes blank;
- `secureShred` overwrites the file it has verified, and unlinks whatever the path names by
  then, while the comment above it says that a file swapped in is not erased;
- a kill in the middle of an import leaves the partial copy listed;
- after a key operation whose reopen failed the application says that the vault is
  unchanged, though the slot was written; it says the same after a failed second move;
- a convert to passphrase-only discards every key the slot has by then, not only the last;
- an edit between the end of `migrate_vault` and the swap lands in the file that becomes the
  backup; its counter is then the new vault's, so `--expect-counter` does not show the loss;
- a kill of the tool during `migrate` leaves an openable, incomplete vault at the
  destination; `init` leaves a partial file when it fails;
- a read that panics in the decoder drops the samples it had copied; a toggle queued after
  the audio engine failed to start raises in the system's framework;
- the application ignores a license that could not be saved.

## 4. Proofs

For every set of names, chunks, plaintexts and folders, every bound, and every
combination of faults:

| theorem | states |
| --- | --- |
| `TypeCorrect` of `VaultProofs` | `TypeOK` of `VaultEngine` |
| `Invariance` | `TypeOK /\ Inductive` |
| `OwnershipHolds` | `ChunkOwnership` |
| `SettledSurvive` | `SettledFilesSurvive` |
| `LiveIsOnDisk` | `LiveMatchesDisk` |
| `CounterIsAFloor` | `CounterNotBehindAck` |
| `ShreddedAtReturn` | `ShreddedWhenAcked` |
| `Implementation` | `ImplementsStore`: the engine implements the abstract store |
| `NamesStayUnique` | `UniqueNames` of `Namespace` |
| `CounterCovers` | `CounterCoversTree` of `Namespace` |
| `RenameUndone` | `FolderRenameUndone` of `Namespace` |
| `FileTypes` | `FileTypeOK` of `ByteRange` |
| `Lengths` | `ChunkLengths` |
| `Windows` | `WindowsAgree` |
| `Writes` | `WritesAreOverlays` |
| `FileImplementation` | `ImplementsText`: the chunked file implements the string of bytes |
| `SessionTypes` | `TypeOK` of `Session`: what talks to keys stays on the HID executor |
| `LateNever` | `LateNeverOpens` of `Session` |
| `HandlesAreSole` | `NoStaleHandle` of `Session` |
| `SlotTypes` | `TypeOK` of `SlotEnrollment` |
| `KeysOpen` | `EnrolledKeysOpen` |
| `AlwaysOpens` | `NeverLockedOut` |
| `ReplayedKeyOpens` | `ReplayOpens` |
| `OnlyAuthentic` | `InstalledIsAuthentic` of `License` |
| `NeverTorn` | `StoreNeverTorn` |
| `RawSticks` | `RawActivationSticks` |
| `MigrationTypes` | `TypeOK` of `Migration`: no two paths name the same file |
| `CopyIsComplete` | `OkMeansCopied` |
| `CopyFits` | `CopyAlwaysFits` |
| `CopySurvives` | `OneCopySurvives` |
| `NameIsCurrent` | `NameNeverStale` |
| `LibraryInvariant`, `TypeCorrect` of `LibraryProofs` | its `Inductive`, `TypeOK` of `Library` |
| `ErasedStored` | `ErasedIsStored` |
| `Preflight` | `PreflightSuffices` |
| `View` | `ViewMatches` |
| `NothingReplaced` | `NothingOverwritten` |
| `PlayerInvariant`, `TypeCorrect` of `AudioProofs` | its `Inductive`, `TypeOK` of `AudioPlayer` |
| `FlightCount` | `InFlightExact` |
| `SoundOrder` | `HeardInOrder` |
| `Silence` | `SilentUntilAsked` |

Assumed: the manifest chunk is one of a finite set of chunks, the markers are
distinct from plaintexts, names are finite, bounds are naturals; a vault to migrate has
more chunks than there are file names; paths are sequences of components; a chunk and a
window have at least one byte, and a full vault plus one chunk is within the u64; the
library's names, folders and originals are finite, its vault has a chunk beside the
manifest's, and there are more stamps than originals; a recording is a sequence of
packets and a buffer has at least one frame. TLC evaluates these assumptions on every run.

The argument. `SettledFilesSurvive` is not inductive: a write is harmless only
because its target belongs to no other file, and a power loss only because what
is not yet durable belongs to no settled file. `Inductive` adds: every manifest
in use (live, candidate, disk, medium) owns each chunk once (`ChunkOwnership`);
the jobs and shreds of a mutation lie in chunks of its own names or of nobody,
and each chunk of its names has, or will be written with, the content promised
(`InFlight`); no fresh write overwrites what a later one copies; a session that is
not poisoned has its manifest on disk (`SessionOnDisk`); disk and medium agree
outside `dirty`, and no chunk of a settled file is dirty (`Synced`); the counters
are ordered (`CounterFloor`). Starting a mutation is proved once in general
(`BeginInductive`, from a plan whose new lists consist of own or free chunks:
`UpsertPlan`, `RemovePlan`) and instantiated per operation; each write step and each fault has a
lemma. The refinement follows from the same invariant: a settled name is always
found as promised, and every step maps to `Ask`, `Work`, `Acknowledge` or a stutter.

`NamesStayUnique` rests on two facts about paths that hold for sequences of any
length: replacing a prefix is injective on the names under it, and a name under the
new prefix that no moved file takes was there before, where the collision check has
looked. `CounterCovers` needs that a removed entry was counted: `delete_folder`
always adds one, `rename_file` at least two. `RenameUndone` (of trees
whose file names are normalized, onto a path that nothing has) rests on three more: two
prefixes of one path are comparable, so that nothing is left at or under the old path; only what was
moved is under the new one; and putting the old prefix back gives each moved path its
old name. `Normalize` is a `Filter`, which is described first, for sequences of any length.

For `ByteRange`, the invariant is that there is a text `t` with `Holds(t)`: `chunks` are its
pieces of `CP` bytes, the last one whatever is left, and `size` its length. What is read
is then `t` itself (`FlattenSeq` puts the pieces together), and a window of it (`RangeReads`)
is the overlap of the pieces it touches. A call leaves the pieces of the new
text: `AddStored`, `WriteStored` and `CutStored` show it piece by piece for the overlay of
kept, re-encrypted and appended chunks, with the check for wrapping sums before. Each step is then
a step of `FileText` or a stutter; `growing => size <= target` is what the windows of a
growing truncate need.

For `Session`, `LateNeverOpens` needs that every call a lock event overtook carries an
older generation (`Current`), and that a reopen which passed the gate is not late.
`NoStaleHandle` needs that tasks which have not run carry nothing, and that
migrations and revocations never do (`HidTask`, `PoolTask`, `Result`); ownership is
then followed by lemmas that move one handle at a time (`SoleAdopt`, `SoleOrphan`,
`SoleAnswer`, `SoleTail`), whatever the lengths of the queues.

For `SlotEnrollment`, `Holds(slot, enrolled \ revoked)` says that the entries are those
credentials, each once, all of them with the wrapping key and the profile the slot
has now: each is then readable by itself, so that any removal leaves the others
readable and any present key suffices to add one. Adding, removing and
rebuilding preserve it (`AddHolds`, `RemoveHolds`, `WrapSome`, `WrapNone`).
`CallsOK` says that a credential made by a call that has not written is new to the slot.
Each action is then a use of one lemma.

For `License`, every file that is not torn is authentic, whoever wrote it and under
whatever name it is: a save begins only with a text that has verified, and every step of
it writes that text or an empty file. `NeverTorn` and `RawSticks` hold until two saves
have overlapped, and so does what they rest on (`Alone`): one saver at most has the
temporary file, which is as far as the save is; what has the name, or may get it back
in a power loss, is complete and synced; and what was reported is what the name refers to.

For `Migration`, `MInv` has five parts. A process that has a vault open, or migrates
from or to it, holds its lock (`Owned`). The new vault stays at the path it was created
at, which no one else writes to, and the application's source keeps its name until it is
moved (`Placed`). Every vault that opens has room for what it holds, and a new one for
all of its source (`Roomy`, with `TargetHolds` for the arithmetic of the three modes). What
is left to copy or to verify is empty or unverified in the new vault, and the rest equals
the source; from the last manifest on the file shows that vault unless something that is not
read back was damaged (`CopySound`). The vault under its name is up to date, or its backup is,
and so is the plan of a migration of the application, since the lock keeps edits out; after
a damaged copy has taken the name the backup has all that was acknowledged by then (`Kept`).
The writes of a migration hit a file that nobody else has (`WriteKeeps`), an edit a vault
that no migration writes (`EditStep`); the other steps only move names and locks.

For `Library`, `Inductive` has five parts besides the types. What an original held when its
erasure began is in `vault` and in `other`, under a name that the operation in progress
does not write to (`Held`). While the session is not poisoned these two are the same
(`Engine`). A copy is what was read so far, and that is what the original holds as long as
the original keeps the time noted at the beginning, so that one that verified may be
overwritten (`Copies`). The lists and the selection lag behind the vault by the operation in
progress at most (`Shows`). An edit or import has written as much as it counts, and the rest
has room, unless `stale` (`Fits`); the chunks in use are a sum over the files of the vault, and
lemmas on sums say what it becomes when a file is added, removed, written or moved to
another name.

For `AudioPlayer`, `Inductive` says: a decoder is loaded before anything is queued
(`LoadFirst`) and a player without one is idle (`ClosedIdle`); `inFlight` is the length of the
node's queue plus the reports of the present generation (`Counts`), and no report is of a
generation to come (`Past`); what was heard and what is scheduled follow one another
in the frames from the position asked for, and, until the end is found, what the
decoder has still to give follows them (`Runs`). Reading a
buffer moves its frames from the last of these to the one before, whatever the packets
do (`Read` is described once, for any packets), and dropping the queue empties both counts.

Induction over data. The library's induction theorems take a formula as a parameter,
which the installed provers cannot instantiate. `FileProofs`, `LibraryProofs` and `AudioProofs`
use the fact beneath them, that the order of the naturals is well founded, to prove
induction over *sets* of naturals (`Induction`) and, for sums, of subsets (`SubsetInduction`). What
`FlattenSeq`, `Filter` and the sums compute follows from it: the values on
initial segments form a function that exists, is the one chosen, and has the
properties wanted. The three modules state those few lemmas each for itself.

Only model-checked: `LockApplied`, `WindowReturns`, `GrowEnds` and `PlaybackEnds`, which are
liveness, and the violated runs, where TLC's counterexample says it all. Every invariant,
action property and refinement of the passing runs is a theorem.

## 5. Not modelled

Out of reach of the proofs: liveness under fairness, and `ENABLED`. Not modelled, and why:

- export of files, and the video and image viewers: one read of the vault, then calls of the
  system; they change nothing in the vault;
- the waveform: one pass over the packets that `Read` goes over, without state;
- the metadata blob of the slot and the labels of keys: opaque bytes carried along;
- the bytes of the manifest, header and license formats: reduced to the checks made on them;
- cryptographic primitives, taken as ideal; `mlock` and zeroization of buffers, properties of
  memory and not of states;
- the passphrase generator (random choice from a list), `farewell_p2p` and `farewell_attest`
  (placeholders), prompts, progress, wording and layout.
