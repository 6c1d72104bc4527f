------------------------------- MODULE Migration -------------------------------
(***************************************************************************)
(* Re-encrypting a vault into a new file (migrate_vault), and what its two *)
(* callers do with the names of the files: the application, which swaps    *)
(* the new vault into the place of the old one by two moves, and the       *)
(* command-line tool, which writes to a path of the user's choice.  Both   *)
(* work on one vault, kept apart by the flock only while one of them has   *)
(* it open.                                                                *)
(*                                                                         *)
(* A vault here is what opening it shows; its chunks and the faults inside *)
(* one mutation are VaultEngine's.  While a new vault is being written the *)
(* session reads it through the manifest in its memory: what it reads and  *)
(* what opening the file would show are kept apart, and any write to the   *)
(* file, of header, manifest or content, may be lost or damaged.  Every    *)
(* directory operation takes effect at once and survives a crash.          *)
(***************************************************************************)
EXTENDS Integers, FiniteSetsExt

CONSTANTS
  Files,      \* names of files, of one chunk each
  Folders,    \* what folders() lists
  Owner,      \* the recorded creator
  Anonymous,  \* no creator
  SrcChunks,  \* capacity of the vault
  SrcCount,   \* its counter to begin with: the edits of its past
  Margin,     \* floor of the room ShrinkToFit leaves (16 in the code)
  Exacts,     \* capacities asked for as such
  MaxVaults,  \* bound: files on disk, with those that only a lock still holds
  MaxEdits,   \* bound: edits
  MaxBegun    \* bound: migrations begun

ASSUME MigrationAssumption ==
  /\ Owner # Anonymous
  /\ {SrcChunks, SrcCount, Margin, MaxVaults, MaxBegun} \subseteq Nat
  /\ MaxEdits \in Nat \ {0} /\ MaxVaults > 0
  /\ IsFiniteSet(Folders) /\ IsFiniteSet(Files) /\ SrcChunks > Cardinality(Files)
  /\ Exacts \subseteq Nat

Procs == {"app", "cli"}
NoProc == "nobody"

\* The vault's own path, the app's .bak and .migrating beside it; the same name
\* in another folder, which is also where the tool writes, and its .migrating.
Paths == {"src", "bak", "temp", "away", "awayTemp"}

\* MigrateCapacity: an exact capacity is itself.
Same == -1
Shrink == -2

Ids == 1..MaxVaults
NoVault == 0
Damaged == -1   \* content that does not decrypt, or is not what was written

VARIABLES
  vaults,   \* vaults[i]: what opening file i shows
  dir,      \* dir[p]: the file at path p
  lock,     \* lock[i]: the process that holds the flock of file i
  job,      \* job[p]: the migration p is in
  appOpen,  \* the file the application has open
  cliOpen,  \* the file an `add` of the tool has open
  begun,    \* number of migrations begun
  \* history
  edits,    \* number of edits so far: the content of a file is the last one's
  acked,    \* acked[f]: the last edit of f acknowledged in time
  noted,    \* the largest counter a user of the vault has seen
  foreign,  \* no copy need be left: a new vault has taken the name, or the .bak of a misled
            \* swap was removed
  misled    \* a copy damaged where nothing reads it back has taken the vault's name

vars == <<vaults, dir, lock, job, appOpen, cliOpen, begun, edits, acked, noted, foreign, misled>>

NoFiles == [f \in Files |-> 0]

\* An entry of vaults: whole is "header and manifest are readable".
Blank == [files |-> NoFiles, folders |-> {}, owner |-> Anonymous, count |-> 0, chunks |-> 0,
          whole |-> FALSE]

\* snap: the source as the engine read it under its lock; dst: the file it
\* writes, at path at; final: the path the application moves it to.  made: the
\* new vault through the manifest in memory, whole if the header has arrived;
\* intact (history): so has everything else that nothing reads back.
NoJob == [pc |-> "idle", cap |-> Same, snap |-> Blank, from |-> NoVault, dst |-> NoVault,
          at |-> "temp", final |-> "src", todo |-> {}, made |-> Blank, intact |-> TRUE]

EnginePhases == {"opening", "building", "filling", "copying", "verifying"}
SwapPhases == {"swap", "moveOut", "moveIn"}

Present(v) == {f \in Files : v.files[f] # 0}
Used(v) == Cardinality(Present(v))

\* The ids no path and no process refers to.
Unused == Ids \ ({dir[p] : p \in Paths} \cup {i \in Ids : lock[i] # NoProc})

\* The id of a file about to be created.
Fresh == CHOOSE i \in Unused : TRUE

Init ==
  /\ \E P \in SUBSET Files :
       vaults = [i \in Ids |-> IF i = 1 THEN [files |-> [f \in Files |-> IF f \in P THEN 1 ELSE 0],
                                              folders |-> Folders, owner |-> Owner, count |-> SrcCount,
                                              chunks |-> SrcChunks, whole |-> TRUE]
                                        ELSE Blank]
  /\ dir = [p \in Paths |-> IF p = "src" THEN 1 ELSE NoVault]
  /\ lock = [i \in Ids |-> NoProc]
  /\ job = [p \in Procs |-> NoJob]
  /\ appOpen = NoVault /\ cliOpen = NoVault
  /\ begun = 0
  /\ edits = 1 /\ acked = vaults[1].files /\ noted = SrcCount
  /\ foreign = FALSE /\ misled = FALSE

(***************************************************************************)
(* The engine: migrate_vault                                               *)
(***************************************************************************)
\* A mutant: the chunk of the manifest is not counted.
TargetWithoutManifest(cap, used, total) ==
  CASE cap = Same -> total
    [] cap = Shrink -> Min({used, total})
    [] OTHER -> cap

\* The new capacity.
Target(cap, used, total) ==
  CASE cap = Same -> total
    [] cap = Shrink -> Min({used + 1 + Max({used \div 4, Margin}), total})
    [] OTHER -> cap

\* An exact capacity that cannot hold the contents is refused.
Refused(cap, used) == cap \notin {Same, Shrink} /\ cap < used + 1

CanOpen(i) == i # NoVault /\ vaults[i].whole /\ lock[i] = NoProc

\* Open the source under its lock, and take the plan.
OpensSource(p) ==
  LET i == dir["src"] IN
  /\ job[p].pc = "opening"
  /\ CanOpen(i)
  /\ ~Refused(job[p].cap, Used(vaults[i]))
  /\ lock' = [lock EXCEPT ![i] = p]
  /\ job' = [job EXCEPT ![p].pc = "building", ![p].snap = vaults[i], ![p].from = i]
  /\ UNCHANGED <<vaults, dir, appOpen, cliOpen, begun, edits, acked, noted, foreign, misled>>

\* VaultBuilder::build creates the file, which must not exist, and locks it.
CreatesFile(p) ==
  /\ job[p].pc = "building"
  /\ dir[job[p].at] = NoVault
  /\ Unused # {}
  /\ LET n == Fresh
         s == job[p].snap
         v == [Blank EXCEPT !.chunks = Max({Target(job[p].cap, Used(s), s.chunks), 2})] IN
       /\ vaults' = [vaults EXCEPT ![n] = v]
       /\ dir' = [dir EXCEPT ![job[p].at] = n]
       /\ lock' = [lock EXCEPT ![n] = p]
       /\ job' = [job EXCEPT ![p].pc = "filling", ![p].dst = n, ![p].made = v]
  /\ UNCHANGED <<appOpen, cliOpen, begun, edits, acked, noted, foreign, misled>>

\* The vault that a manifest listing the folders of F leaves.
WithFolders(v, F, whole) ==
  [v EXCEPT !.folders = F, !.count = Cardinality(F), !.whole = whole]

\* The header, the random fill and the empty manifest are synced; one manifest
\* per folder follows, of which the last to arrive may be any.
Fills(p) ==
  /\ job[p].pc = "filling"
  /\ \E header, whole \in BOOLEAN, F \in SUBSET job[p].snap.folders :
       /\ whole => header
       /\ vaults' = [vaults EXCEPT ![job[p].dst] = WithFolders(job[p].made, F, whole)]
       /\ job' = [job EXCEPT ![p].pc = "copying", ![p].todo = Present(job[p].snap),
                             ![p].made = WithFolders(@, job[p].snap.folders, header)]
  /\ UNCHANGED <<dir, lock, appOpen, cliOpen, begun, edits, acked, noted, foreign, misled>>

HasRoom(v) == Used(v) + 1 < v.chunks

\* What a vault that showed v shows after its manifest is written for new: the
\* write arrives, is lost, or leaves a manifest that does not decrypt.
AfterManifest(new, v) == {new, v, [v EXCEPT !.whole = FALSE]}

\* create_file, then write_file_range of the one window; each publishes a
\* manifest.  A source that cannot be read fails.
CopiesFile(p, f) ==
  LET d == job[p].dst IN
  /\ job[p].pc = "copying"
  /\ f \in job[p].todo
  /\ job[p].snap.files[f] # Damaged
  /\ HasRoom(job[p].made)
  /\ \E c \in {job[p].snap.files[f], Damaged} :
       LET created == [job[p].made EXCEPT !.files[f] = Damaged, !.count = @ + 1]
           new == [job[p].made EXCEPT !.files[f] = c, !.count = @ + 2] IN
         /\ \E v \in {created} \cup AfterManifest(new, vaults[d]) :
              vaults' = [vaults EXCEPT ![d] = v]
         /\ job' = [job EXCEPT ![p].todo = @ \ {f}, ![p].made = new]
  /\ UNCHANGED <<dir, lock, appOpen, cliOpen, begun, edits, acked, noted, foreign, misled>>

\* The last manifest, of vault new; what it leaves is not read again.
PublishesLast(p, new) ==
  LET d == job[p].dst IN
  /\ job[p].pc = "copying"
  /\ job[p].todo = {}
  /\ \E v \in AfterManifest(new, vaults[d]) :
       /\ vaults' = [vaults EXCEPT ![d] = v]
       /\ job' = [job EXCEPT ![p].pc = "verifying", ![p].todo = Present(job[p].snap),
                             ![p].made = new, ![p].intact = new.whole /\ v = new]
  /\ UNCHANGED <<dir, lock, appOpen, cliOpen, begun, edits, acked, noted, foreign, misled>>

\* A mutant: the counter of the new vault starts afresh.
CarriesOwnerOnly(p) ==
  PublishesLast(p, [job[p].made EXCEPT !.owner = job[p].snap.owner])

\* The counter goes past the source's, the owner is kept.
Carries(p) ==
  PublishesLast(p, [job[p].made EXCEPT !.count = Max({@, job[p].snap.count + 1}),
                                       !.owner = job[p].snap.owner])

\* A mutant: the file is read, its hash is not compared.
ReadsBack(p, f) ==
  /\ job[p].pc = "verifying"
  /\ f \in job[p].todo
  /\ job' = [job EXCEPT ![p].todo = @ \ {f}]
  /\ UNCHANGED <<vaults, dir, lock, appOpen, cliOpen, begun, edits, acked, noted, foreign, misled>>

\* A file is read back, through the manifest in memory and what the system has
\* cached, and its hash compared with the source's.
VerifiesFile(p, f) ==
  /\ job[p].pc = "verifying"
  /\ f \in job[p].todo
  /\ job[p].made.files[f] = job[p].snap.files[f]
  /\ job' = [job EXCEPT ![p].todo = @ \ {f}]
  /\ UNCHANGED <<vaults, dir, lock, appOpen, cliOpen, begun, edits, acked, noted, foreign, misled>>

ReleasedBy(p) == [i \in Ids |-> IF lock[i] = p THEN NoProc ELSE lock[i]]

\* The last sync, which may damage the header, the manifest and the content of
\* files D; both vaults are dropped, and with them the locks.
Returns(p) ==
  LET d == job[p].dst IN
  /\ job[p].pc = "verifying"
  /\ job[p].todo = {}
  /\ Used(job[p].made) = Used(job[p].snap)
  /\ lock' = ReleasedBy(p)
  /\ \E D \in SUBSET Present(vaults[d]), whole \in {vaults[d].whole, FALSE} :
       LET synced == [vaults[d] EXCEPT !.whole = whole,
                        !.files = [f \in Files |-> IF f \in D THEN Damaged ELSE @[f]]] IN
         /\ vaults' = [vaults EXCEPT ![d] = synced]
         /\ job' = [job EXCEPT ![p].pc = IF p = "app" THEN "swap" ELSE "reporting",
                               ![p].intact = @ /\ synced = vaults[d]]
  /\ UNCHANGED <<dir, appOpen, cliOpen, begun, edits, acked, noted, foreign, misled>>

\* Any refusal, mismatch or I/O error; what has been written so far stays.
Fails(p) ==
  /\ job[p].pc \in EnginePhases
  /\ lock' = ReleasedBy(p)
  /\ job' = [job EXCEPT ![p].pc = "failed"]
  /\ UNCHANGED <<vaults, dir, appOpen, cliOpen, begun, edits, acked, noted, foreign, misled>>

Engine(p) ==
  \/ OpensSource(p) \/ CreatesFile(p) \/ Fills(p) \/ Carries(p) \/ Returns(p) \/ Fails(p)
  \/ \E f \in Files : CopiesFile(p, f) \/ VerifiesFile(p, f)

(***************************************************************************)
(* The application (VaultModel.migrate)                                    *)
(***************************************************************************)
AppIdle == job["app"].pc = "idle"

\* open, and reopenAfterMigration: the user may open either name.
AppOpens(p) ==
  /\ AppIdle /\ appOpen = NoVault
  /\ CanOpen(dir[p])
  /\ appOpen' = dir[p]
  /\ lock' = [lock EXCEPT ![dir[p]] = "app"]
  /\ UNCHANGED <<vaults, dir, job, cliOpen, begun, edits, acked, noted, foreign, misled>>

AppCloses ==
  /\ appOpen # NoVault
  /\ appOpen' = NoVault
  /\ lock' = ReleasedBy("app")
  /\ UNCHANGED <<vaults, dir, job, cliOpen, begun, edits, acked, noted, foreign, misled>>

\* What an acknowledged edit of f in file i leaves: one to the vault under its
\* own name, not being replaced, is one the user relies on.
Edits(i, f) ==
  /\ edits < MaxEdits
  /\ edits' = edits + 1
  /\ vaults' = [vaults EXCEPT ![i].files[f] = edits + 1, ![i].count = @ + 1]
  /\ IF dir["src"] = i /\ ~foreign /\ ~misled /\ job["app"].pc \notin SwapPhases
       THEN acked' = [acked EXCEPT ![f] = edits + 1] /\ noted' = vaults[i].count + 1
       ELSE UNCHANGED <<acked, noted>>

AppEdits(f) ==
  /\ appOpen # NoVault /\ appOpen = dir["src"]
  /\ Used([vaults[appOpen] EXCEPT !.files[f] = 1]) < vaults[appOpen].chunks
  /\ Edits(appOpen, f)
  /\ UNCHANGED <<dir, lock, job, appOpen, cliOpen, begun, foreign, misled>>

\* Another folder must not hold a file of that name.  A stale .migrating is
\* removed, the vault is closed, and the engine called.
AppMigrates(away, cap) ==
  LET at == IF away THEN "awayTemp" ELSE "temp" IN
  /\ appOpen # NoVault /\ appOpen = dir["src"]
  /\ away => dir["away"] = NoVault
  /\ begun < MaxBegun
  /\ begun' = begun + 1
  /\ dir' = [dir EXCEPT ![at] = NoVault]
  /\ appOpen' = NoVault
  /\ lock' = ReleasedBy("app")
  /\ job' = [job EXCEPT !["app"] = [NoJob EXCEPT !.pc = "opening", !.cap = cap, !.at = at,
                                                 !.final = IF away THEN "away" ELSE "src"]]
  /\ UNCHANGED <<vaults, cliOpen, edits, acked, noted, foreign, misled>>

\* The engine failed, or a move did: the new file is discarded.  The reopening
\* of the source that follows is AppOpens.
Discards ==
  /\ dir' = [dir EXCEPT ![job["app"].at] = NoVault]
  /\ job' = [job EXCEPT !["app"] = NoJob]
  /\ UNCHANGED <<vaults, lock, appOpen, cliOpen, begun, edits, acked, noted, foreign, misled>>

AppGivesUp == job["app"].pc = "failed" /\ Discards

\* A mutant: the file is linked under its new name and keeps the old one.
Link(from, to) ==
  /\ dir[from] # NoVault /\ dir[to] = NoVault
  /\ dir' = [dir EXCEPT ![to] = dir[from]]

\* moveItem refuses to replace a file.
Move(from, to) ==
  /\ dir[from] # NoVault /\ dir[to] = NoVault
  /\ dir' = [dir EXCEPT ![to] = dir[from], ![from] = NoVault]

\* The old .bak is removed, if it can be: after a damaged copy has taken the
\* vault's name, that ends what the properties promise.
SwapClearsBackup ==
  /\ job["app"].pc = "swap" /\ job["app"].final = "src"
  /\ dir' \in {dir, [dir EXCEPT !["bak"] = NoVault]}
  /\ job' = [job EXCEPT !["app"].pc = "moveOut"]
  /\ foreign' = (foreign \/ (misled /\ dir' # dir))
  /\ UNCHANGED <<vaults, lock, appOpen, cliOpen, begun, edits, acked, noted, misled>>

\* A mutant: the old vault is removed to make room for the new one.
SwapRemovesOld ==
  /\ job["app"].pc = "moveOut"
  /\ dir' = [dir EXCEPT !["src"] = NoVault]
  /\ job' = [job EXCEPT !["app"].pc = "moveIn"]
  /\ UNCHANGED <<vaults, lock, appOpen, cliOpen, begun, edits, acked, noted, foreign, misled>>

\* The old vault is kept, as .bak.
SwapMovesOut ==
  /\ job["app"].pc = "moveOut"
  /\ Move("src", "bak")
  /\ job' = [job EXCEPT !["app"].pc = "moveIn"]
  /\ UNCHANGED <<vaults, lock, appOpen, cliOpen, begun, edits, acked, noted, foreign, misled>>

SwapMovesIn ==
  /\ job["app"].pc = "moveIn"
  /\ Move(job["app"].at, "src")
  /\ job' = [job EXCEPT !["app"] = NoJob]
  /\ misled' = (misled \/ ~job["app"].intact)
  /\ UNCHANGED <<vaults, lock, appOpen, cliOpen, begun, edits, acked, noted, foreign>>

\* To another folder there is one move.
MovesAway ==
  /\ job["app"].pc = "swap" /\ job["app"].final = "away"
  /\ Move(job["app"].at, "away")
  /\ job' = [job EXCEPT !["app"] = NoJob]
  /\ UNCHANGED <<vaults, lock, appOpen, cliOpen, begun, edits, acked, noted, foreign, misled>>

\* A move throws: also when its target exists or its source is gone.
SwapFails ==
  /\ \/ job["app"].pc \in {"moveOut", "moveIn"}
     \/ job["app"].pc = "swap" /\ job["app"].final = "away"
  /\ Discards

Swap == SwapClearsBackup \/ SwapMovesOut \/ SwapMovesIn \/ MovesAway \/ SwapFails

\* discardStaleMigration: offered while a vault is open beside a .migrating.
AppDiscardsStale ==
  /\ appOpen # NoVault /\ appOpen = dir["src"]
  /\ dir["temp"] # NoVault
  /\ dir' = [dir EXCEPT !["temp"] = NoVault]
  /\ UNCHANGED <<vaults, lock, job, appOpen, cliOpen, begun, edits, acked, noted, foreign, misled>>

(***************************************************************************)
(* The command-line tool, one command at a time                            *)
(***************************************************************************)
CliIdle == job["cli"].pc = "idle" /\ cliOpen = NoVault

\* cmd_add opens the vault, and reads its input, before it writes.
CliOpens ==
  /\ CliIdle
  /\ CanOpen(dir["src"])
  /\ cliOpen' = dir["src"]
  /\ lock' = [lock EXCEPT ![dir["src"]] = "cli"]
  /\ UNCHANGED <<vaults, dir, job, appOpen, begun, edits, acked, noted, foreign, misled>>

CliAdds(f) ==
  /\ cliOpen # NoVault
  /\ Used([vaults[cliOpen] EXCEPT !.files[f] = 1]) < vaults[cliOpen].chunks
  /\ Edits(cliOpen, f)
  /\ cliOpen' = NoVault
  /\ lock' = ReleasedBy("cli")
  /\ UNCHANGED <<dir, job, appOpen, begun, foreign, misled>>

\* The destination must not exist when the command starts; the passphrase is
\* asked for before migrate_vault runs.
CliMigrates(cap) ==
  /\ CliIdle
  /\ dir["away"] = NoVault
  /\ begun < MaxBegun
  /\ begun' = begun + 1
  /\ job' = [job EXCEPT !["cli"] = [NoJob EXCEPT !.pc = "opening", !.cap = cap, !.at = "away"]]
  /\ UNCHANGED <<vaults, dir, lock, appOpen, cliOpen, edits, acked, noted, foreign, misled>>

\* "Never leave a partial destination behind."
CliCleansUp ==
  /\ job["cli"].pc = "failed"
  /\ dir' = [dir EXCEPT !["away"] = NoVault]
  /\ job' = [job EXCEPT !["cli"] = NoJob]
  /\ UNCHANGED <<vaults, lock, appOpen, cliOpen, begun, edits, acked, noted, foreign, misled>>

CliReports ==
  /\ job["cli"].pc = "reporting"
  /\ job' = [job EXCEPT !["cli"] = NoJob]
  /\ UNCHANGED <<vaults, dir, lock, appOpen, cliOpen, begun, edits, acked, noted, foreign, misled>>

\* VaultBuilder: what a new vault shows; owner is recorded when the creator
\* opted in.  When the build fails half way the file stays and does not open.
NewVault(owner, whole) ==
  [Blank EXCEPT !.owner = owner, !.chunks = SrcChunks, !.whole = whole]

\* The file must not exist.  Taking the name of the lost vault ends what the
\* properties promise about it.
TakesName(owner, whole) ==
  /\ dir["src"] = NoVault
  /\ Unused # {}
  /\ vaults' = [vaults EXCEPT ![Fresh] = NewVault(owner, whole)]
  /\ dir' = [dir EXCEPT !["src"] = Fresh]
  /\ foreign' = TRUE
  /\ UNCHANGED <<job, cliOpen, begun, edits, acked, noted, misled>>

\* farewell_create_vault_hw hands the new vault over open.
AppCreates(owner, whole) ==
  /\ AppIdle /\ appOpen = NoVault
  /\ TakesName(owner, whole)
  /\ IF whole THEN appOpen' = Fresh /\ lock' = [lock EXCEPT ![Fresh] = "app"]
              ELSE UNCHANGED <<appOpen, lock>>

\* cmd_init drops it, and records no owner.
CliInits(whole) ==
  /\ CliIdle
  /\ TakesName(Anonymous, whole)
  /\ UNCHANGED <<appOpen, lock>>

(***************************************************************************)
(* Crashes                                                                 *)
(***************************************************************************)
Dies(p) ==
  /\ lock' = ReleasedBy(p)
  /\ job' = [job EXCEPT ![p] = NoJob]
  /\ appOpen' = IF p = "app" THEN NoVault ELSE appOpen
  /\ cliOpen' = IF p = "cli" THEN NoVault ELSE cliOpen

Kill(p) ==
  /\ Dies(p)
  /\ UNCHANGED <<vaults, dir, begun, edits, acked, noted, foreign, misled>>

\* A destination under construction may not open any more.
PowerLoss ==
  /\ lock' = [i \in Ids |-> NoProc]
  /\ job' = [p \in Procs |-> NoJob]
  /\ appOpen' = NoVault /\ cliOpen' = NoVault
  /\ \E T \in SUBSET {job[p].dst : p \in {q \in Procs : job[q].pc \in EnginePhases}} :
       vaults' = [i \in Ids |-> IF i \in T THEN [vaults[i] EXCEPT !.whole = FALSE] ELSE vaults[i]]
  /\ UNCHANGED <<dir, begun, edits, acked, noted, foreign, misled>>

Next ==
  \/ \E p \in Procs : Engine(p) \/ Kill(p)
  \/ \E p \in {"src", "away"} : AppOpens(p)
  \/ AppCloses \/ AppGivesUp \/ Swap \/ AppDiscardsStale
  \/ \E f \in Files : AppEdits(f) \/ CliAdds(f)
  \/ \E away \in BOOLEAN, cap \in {Same, Shrink} : AppMigrates(away, cap)
  \/ \E cap \in {Same, Shrink} \cup Exacts : CliMigrates(cap)
  \/ CliOpens \/ CliCleansUp \/ CliReports
  \/ \E owner \in {Owner, Anonymous}, whole \in BOOLEAN : AppCreates(owner, whole)
  \/ \E whole \in BOOLEAN : CliInits(whole)
  \/ PowerLoss

Spec == Init /\ [][Next]_vars

(***************************************************************************)
(* Properties                                                              *)
(***************************************************************************)
VaultType == [files : [Files -> -1..MaxEdits], folders : SUBSET Folders,
              owner : {Owner, Anonymous}, count : Nat, chunks : Nat, whole : BOOLEAN]

JobType == [pc : {"idle", "failed", "reporting"} \cup EnginePhases \cup SwapPhases,
            cap : {Same, Shrink} \cup Exacts, snap : VaultType, from : {NoVault} \cup Ids,
            dst : {NoVault} \cup Ids, at : Paths, final : Paths, todo : SUBSET Files,
            made : VaultType, intact : BOOLEAN]

\* Types of the variables; no two paths are the same file.
TypeOK ==
  /\ vaults \in [Ids -> VaultType]
  /\ dir \in [Paths -> {NoVault} \cup Ids]
  /\ \A p, q \in Paths : p # q /\ dir[p] # NoVault => dir[p] # dir[q]
  /\ lock \in [Ids -> Procs \cup {NoProc}]
  /\ job \in [Procs -> JobType]
  /\ {appOpen, cliOpen} \subseteq {NoVault} \cup Ids
  /\ begun \in 0..MaxBegun
  /\ edits \in 1..MaxEdits
  /\ acked \in [Files -> 0..MaxEdits]
  /\ noted \in Nat
  /\ {foreign, misled} \subseteq BOOLEAN

Holds(v, contents) == \A f \in Files : v.files[f] >= contents[f]

\* Vault v holds every file, folder and the owner of s, and its counter is past
\* that of s.
Complete(v, s) ==
  /\ v.files = s.files /\ v.folders = s.folders /\ v.owner = s.owner
  /\ v.count > s.count

\* When migrate_vault returns Ok, the new vault as its session read it back is a
\* complete copy of the source as it was when the plan was taken, whatever
\* content was damaged; and opening the file shows just that, whatever earlier
\* manifest was lost or damaged, unless the damage is where the code does not
\* look again: in the header, in the last manifest, or in the sync that follows
\* the read-back.
OkMeansCopied ==
  \A p \in Procs : job[p].pc \in SwapPhases \cup {"reporting"} =>
    LET v == vaults[job[p].dst] IN
      /\ Complete(job[p].made, job[p].snap)
      /\ job[p].intact => v.whole /\ Complete(v, job[p].snap)

\* Every capacity the engine chooses or accepts has room for the copy.
CopyAlwaysFits ==
  \A p \in Procs : job[p].pc = "copying" /\ job[p].todo # {} => HasRoom(job[p].made)

\* Until somebody puts a new vault in its place, a file under the vault's name or
\* its .bak opens and holds every edit acknowledged in time: through engine
\* errors, failed moves, crashes and damaged copies, with the other process at
\* work.  A copy damaged where nothing reads it back leaves the old vault as
\* .bak: the promise ends when the next migration removes that, and does not
\* cover the edits of the damaged copy.
OneCopySurvives ==
  ~foreign => \E p \in {"src", "bak"} :
                dir[p] # NoVault /\ vaults[dir[p]].whole /\ Holds(vaults[dir[p]], acked)

\* What opens under the vault's own name is never an older or an incomplete
\* state of it, nor one whose counter is below one the user has noted, unless
\* it is a copy damaged where nothing reads it back.
NameNeverStale ==
  ~foreign /\ ~misled /\ dir["src"] # NoVault =>
    LET v == vaults[dir["src"]] IN v.whole /\ Holds(v, acked) /\ v.count >= noted

\* The documented promise: "the source is always intact, so the user is never
\* locked out": when no migration runs there is a vault under its name.
VaultAtItsName == AppIdle => dir["src"] # NoVault

\* The documented promise: the new vault "is then re-read and verified
\* byte-for-byte (via BLAKE3) before this returns Ok": the file that is left
\* opens and shows the files of the source.
OkMeansReadable ==
  \A p \in Procs : job[p].pc \in SwapPhases \cup {"reporting"} =>
    vaults[job[p].dst].whole /\ vaults[job[p].dst].files = job[p].snap.files
=============================================================================
