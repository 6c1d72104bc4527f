---------------------------- MODULE MigrationProofs ------------------------------
(***************************************************************************)
(* That a migration loses nothing, proved for any number of files, vaults, *)
(* edits and migrations, with both processes at work, engine errors,       *)
(* failed moves, kills and power losses anywhere, and writes lost or       *)
(* damaged as far as the code reads them back.                             *)
(***************************************************************************)
EXTENDS Migration, FiniteSetTheorems, TLAPS

Reading == {"building", "filling", "copying", "verifying"}
Writing == {"filling", "copying", "verifying"}
Done == SwapPhases \cup {"reporting"}

\* Who has a vault open, or migrates from or to it, holds its lock.
Owned ==
  /\ appOpen # NoVault => lock[appOpen] = "app" /\ job["app"].pc = "idle"
  /\ cliOpen # NoVault => lock[cliOpen] = "cli" /\ job["cli"].pc = "idle"
  /\ \A p \in Procs : job[p].pc \in Reading => job[p].from # NoVault /\ lock[job[p].from] = p
  /\ \A p \in Procs : job[p].pc \in Writing => lock[job[p].dst] = p

\* The new vault stays where it was created; the application's source keeps its
\* name until it is moved.
Placed ==
  /\ \A p \in Procs : job[p].pc \in Writing \cup Done =>
       job[p].dst # NoVault /\ dir[job[p].at] = job[p].dst
  /\ \A p \in Procs : job[p].pc \in {"opening", "building"} => job[p].dst = NoVault
  /\ job["app"].pc # "idle" => job["app"].at \in {"temp", "awayTemp"}
  /\ job["cli"].pc # "idle" => job["cli"].at = "away"
  /\ job["app"].pc # "reporting" /\ job["cli"].pc \notin SwapPhases
  /\ job["app"].pc \in Reading \cup {"swap", "moveOut"} =>
       dir["src"] = job["app"].from /\ dir["src"] # NoVault
  /\ job["app"].pc \in Writing \cup Done => cliOpen # job["app"].dst

\* Every vault that opens has room for what it holds, a new one for its source.
Roomy ==
  /\ \A i \in Ids : vaults[i].whole => Used(vaults[i]) < vaults[i].chunks
  /\ \A p \in Procs : job[p].pc \in Reading =>
       Used(job[p].snap) < job[p].snap.chunks /\ ~Refused(job[p].cap, Used(job[p].snap))
  /\ \A p \in Procs : job[p].pc \in Writing => Used(job[p].snap) < job[p].made.chunks

\* How much of the source the new vault has, and when its file, that shows d, has
\* it too.
CopyOf(j, d) ==
  LET s == j.snap
      m == j.made IN
  /\ j.pc = "filling" => m.files = NoFiles
  /\ j.pc \in {"copying", "verifying"} => j.todo \subseteq Present(s) /\ m.folders = s.folders
  /\ j.pc = "copying" => \A f \in Files : f \in j.todo \/ f \notin Present(s) => m.files[f] = 0
  /\ j.pc = "verifying" => \A f \in Files \ j.todo : m.files[f] = s.files[f]
  /\ j.pc = "verifying" => m.owner = s.owner /\ m.count > s.count
  /\ j.pc \in Done => Complete(m, s)
  /\ j.pc \in {"verifying"} \cup Done /\ j.intact => d = m /\ m.whole

CopySound == \A p \in Procs : CopyOf(job[p], vaults[job[p].dst])

UpToDate(v) == v.whole /\ Holds(v, acked) /\ v.count >= noted

\* Where what has been acknowledged is.
InBackup == dir["bak"] # NoVault /\ vaults[dir["bak"]].whole /\ Holds(vaults[dir["bak"]], acked)

Kept ==
  /\ \A f \in Files : acked[f] <= edits
  /\ ~foreign /\ ~misled =>
      /\ dir["src"] # NoVault => UpToDate(vaults[dir["src"]])
      /\ dir["src"] = NoVault => InBackup
      /\ job["app"].pc \in Reading \cup SwapPhases =>
           Holds(job["app"].snap, acked) /\ job["app"].snap.count >= noted
  /\ ~foreign /\ misled => InBackup

MInv == TypeOK /\ Owned /\ Placed /\ Roomy /\ CopySound /\ Kept

(***************************************************************************)
(* Arithmetic of the capacities                                            *)
(***************************************************************************)
LEMMA MaxOfTwo ==
  ASSUME NEW a \in Int, NEW b \in Int
  PROVE  Max({a, b}) \in {a, b} /\ Max({a, b}) >= a /\ Max({a, b}) >= b
<1>1. \E x \in {a, b} : \A y \in {a, b} : x >= y
  OBVIOUS
<1> QED
  BY <1>1 DEF Max

LEMMA MinOfTwo ==
  ASSUME NEW a \in Int, NEW b \in Int
  PROVE  Min({a, b}) \in {a, b} /\ Min({a, b}) <= a /\ Min({a, b}) <= b
<1>1. \E x \in {a, b} : \A y \in {a, b} : x =< y
  OBVIOUS
<1> QED
  BY <1>1 DEF Min

LEMMA UsedIsNat == ASSUME NEW v PROVE Present(v) \subseteq Files /\ IsFiniteSet(Present(v)) /\ Used(v) \in Nat
BY MigrationAssumption, FS_Subset, FS_CardinalityType DEF Present, Used

LEMMA UsedMonotone ==
  ASSUME NEW v, NEW w, Present(v) \subseteq Present(w)
  PROVE  /\ Used(v) <= Used(w)
         /\ Present(v) # Present(w) => Used(v) < Used(w)
BY UsedIsNat, FS_Subset DEF Used

\* The capacity the engine works with holds the contents of its source.
LEMMA TargetHolds ==
  ASSUME NEW used \in Nat, NEW total \in Nat, NEW cap \in {Same, Shrink} \cup Exacts,
         used < total, ~Refused(cap, used)
  PROVE  Target(cap, used, total) \in Nat /\ used < Target(cap, used, total)
<1>1. Same # Shrink
  BY DEF Same, Shrink
<1> DEFINE q == used \div 4
           m == Max({q, Margin})
           r == used + 1 + m
<1>2. /\ cap = Same => Target(cap, used, total) = total
      /\ cap = Shrink => Target(cap, used, total) = Min({r, total})
      /\ cap \notin {Same, Shrink} => Target(cap, used, total) = cap
  BY <1>1, Zenon DEF Target
<1>3. q \in Int /\ q >= 0 /\ Margin \in Nat /\ Margin \in Int
  BY MigrationAssumption
<1> HIDE DEF q
<1>4. m \in {q, Margin}
  BY <1>3, MaxOfTwo
<1> HIDE DEF m
<1>5. r \in Int /\ r \in Nat /\ used < r
  BY <1>3, <1>4
<1> HIDE DEF r
<1>6. Min({r, total}) \in {r, total}
  BY <1>5, MinOfTwo
<1>7. CASE cap \in {Same, Shrink}
  BY <1>2, <1>5, <1>6, <1>7
<1>8. CASE cap \notin {Same, Shrink}
  <2>1. cap \in Nat
    BY <1>8, MigrationAssumption
  <2>2. ~(cap < used + 1)
    BY <1>8 DEF Refused
  <2> QED
    BY <1>2, <1>8, <2>1, <2>2
<1> QED
  BY <1>7, <1>8

(***************************************************************************)
(* Types                                                                   *)
(***************************************************************************)
LEMMA FreshIsNew ==
  ASSUME TypeOK, Unused # {}
  PROVE  /\ Fresh \in Ids /\ Fresh # NoVault
         /\ \A p \in Paths : dir[p] # Fresh
         /\ lock[Fresh] = NoProc
BY DEF Fresh, Unused, TypeOK, Ids, NoVault

LEMMA BlankType == Blank \in VaultType /\ NoJob \in JobType
BY MigrationAssumption DEF Blank, VaultType, NoFiles, NoJob, JobType, NoVault, Ids, Paths

\* What an entry may become, without a path or a process being touched.
LEMMA ReleasedType == ASSUME NEW p \in Procs, TypeOK PROVE ReleasedBy(p) \in [Ids -> Procs \cup {NoProc}]
BY DEF ReleasedBy, TypeOK

(***************************************************************************)
(* Steps that leave the vaults and the directory as they are               *)
(***************************************************************************)

\* A step that writes to no vault leaves the copies as they are.
LEMMA CopyUndisturbed ==
  ASSUME CopySound, vaults' = vaults,
         \A q \in Procs : \/ job'[q] = job[q]
                          \/ job'[q].pc \notin Writing \cup Done
                          \/ /\ job[q].pc \in Done /\ job'[q].pc \in Done
                             /\ job'[q].snap = job[q].snap /\ job'[q].dst = job[q].dst
                             /\ job'[q].made = job[q].made /\ job'[q].intact = job[q].intact
  PROVE  CopySound'
<1> SUFFICES ASSUME NEW q \in Procs PROVE CopyOf(job'[q], vaults[job'[q].dst])
  BY DEF CopySound
<1>1. CASE job'[q] = job[q]
  BY <1>1 DEF CopySound
<1>2. CASE job'[q].pc \notin Writing \cup Done
  BY <1>2 DEF CopyOf, Writing, Done
<1>3. CASE /\ job[q].pc \in Done /\ job'[q].pc \in Done
           /\ job'[q].snap = job[q].snap /\ job'[q].dst = job[q].dst
           /\ job'[q].made = job[q].made /\ job'[q].intact = job[q].intact
  <2>1. CopyOf(job[q], vaults[job[q].dst])
    BY DEF CopySound
  <2>2. job'[q].pc \notin Writing
    BY <1>3 DEF Done, SwapPhases, Writing
  <2> QED
    BY <1>3, <2>1, <2>2 DEF CopyOf, Writing
<1> QED
  BY <1>1, <1>2, <1>3

\* The application that takes a plan has its source under the name.
LEMMA OpensSourceStep ==
  ASSUME MInv, NEW p \in Procs, OpensSource(p)
  PROVE  MInv'
<1> DEFINE i == dir["src"]
           j == [job[p] EXCEPT !.pc = "building", !.snap = vaults[i], !.from = i]
<1>1. /\ job[p].pc = "opening" /\ i # NoVault /\ vaults[i].whole /\ lock[i] = NoProc
      /\ ~Refused(job[p].cap, Used(vaults[i]))
      /\ UNCHANGED <<vaults, dir, appOpen, cliOpen, begun, edits, acked, noted, foreign, misled>>
  BY DEF OpensSource, CanOpen
<1>2. i \in Ids /\ vaults[i] \in VaultType
  BY <1>1 DEF MInv, TypeOK, Paths
<1>3. /\ j \in JobType /\ j.pc = "building" /\ j.snap = vaults[i] /\ j.from = i
      /\ j.cap = job[p].cap /\ j.at = job[p].at /\ j.dst = job[p].dst /\ j.made = job[p].made
  <2>1. job[p] \in JobType /\ "building" \in EnginePhases
    BY DEF MInv, TypeOK, EnginePhases
  <2> QED
    BY <1>2, <2>1 DEF JobType
<1>4. lock' = [lock EXCEPT ![i] = p] /\ job' = [job EXCEPT ![p] = j]
  BY DEF OpensSource, MInv, TypeOK
<1> HIDE DEF j
<1>5. /\ job'[p] = j /\ \A q \in Procs \ {p} : job'[q] = job[q]
      /\ lock'[i] = p /\ \A k \in Ids \ {i} : lock'[k] = lock[k]
  BY <1>2, <1>4 DEF MInv, TypeOK
<1>6. TypeOK'
  BY <1>1, <1>2, <1>3, <1>4 DEF MInv, TypeOK
<1>7. p \in {"app", "cli"} /\ NoProc \notin Procs
  BY DEF Procs, NoProc
<1>8. Owned'
  <2>1. /\ appOpen # NoVault => lock'[appOpen] = "app" /\ job'["app"].pc = "idle"
        /\ cliOpen # NoVault => lock'[cliOpen] = "cli" /\ job'["cli"].pc = "idle"
    BY <1>1, <1>5, <1>7 DEF MInv, TypeOK, Owned, Procs
  <2>2. \A q \in Procs : job'[q].pc \in Reading => job'[q].from # NoVault /\ lock'[job'[q].from] = q
    BY <1>1, <1>3, <1>5, <1>7 DEF MInv, TypeOK, JobType, Owned
  <2>3. \A q \in Procs : job'[q].pc \in Writing => lock'[job'[q].dst] = q
    BY <1>1, <1>3, <1>5, <1>7 DEF MInv, TypeOK, JobType, Owned, Placed, Writing
  <2> QED
    BY <1>1, <2>1, <2>2, <2>3 DEF Owned
<1>9. Placed'
  <2>1. \A q \in Procs : job'[q].pc \in Writing \cup Done =>
          job'[q].dst # NoVault /\ dir'[job'[q].at] = job'[q].dst
    BY <1>1, <1>3, <1>5 DEF MInv, Placed, Writing, Done, SwapPhases
  <2>2. \A q \in Procs : job'[q].pc \in {"opening", "building"} => job'[q].dst = NoVault
    BY <1>1, <1>3, <1>5 DEF MInv, Placed
  <2>3. /\ job'["app"].pc # "idle" => job'["app"].at \in {"temp", "awayTemp"}
        /\ job'["cli"].pc # "idle" => job'["cli"].at = "away"
        /\ job'["app"].pc # "reporting" /\ job'["cli"].pc \notin SwapPhases
    BY <1>1, <1>3, <1>5, <1>7 DEF MInv, Placed, SwapPhases, Procs
  <2>4. job'["app"].pc \in Reading \cup {"swap", "moveOut"} =>
          dir'["src"] = job'["app"].from /\ dir'["src"] # NoVault
    BY <1>1, <1>3, <1>5, <1>7 DEF MInv, Placed, Procs
  <2>5. job'["app"].pc \in Writing \cup Done => cliOpen' # job'["app"].dst
    BY <1>1, <1>3, <1>5, <1>7 DEF MInv, Placed, Procs, Writing, Done, SwapPhases
  <2> QED
    BY <1>1, <2>1, <2>2, <2>3, <2>4, <2>5 DEF Placed
<1>10. Roomy'
  <2>1. Used(vaults[i]) < vaults[i].chunks
    BY <1>1, <1>2 DEF MInv, Roomy
  <2>2. \A q \in Procs : job'[q].pc \in Reading =>
          /\ Used(job'[q].snap) < job'[q].snap.chunks
          /\ ~Refused(job'[q].cap, Used(job'[q].snap))
    BY <1>1, <1>3, <1>5, <2>1 DEF MInv, Roomy
  <2>3. \A q \in Procs : job'[q].pc \in Writing => Used(job'[q].snap) < job'[q].made.chunks
    BY <1>1, <1>3, <1>5 DEF MInv, Roomy, Writing
  <2> QED
    BY <1>1, <2>2, <2>3 DEF MInv, Roomy
<1>11. CopySound'
  BY <1>1, <1>3, <1>5, CopyUndisturbed DEF MInv, Writing, Done, SwapPhases
<1>12. Kept'
  <2>1. job'["app"].pc \in Reading \cup SwapPhases =>
          \/ job'["app"].snap = vaults[dir["src"]]
          \/ job["app"].pc \in Reading \cup SwapPhases /\ job'["app"].snap = job["app"].snap
    BY <1>3, <1>5, <1>7 DEF Procs
  <2>2. ~foreign /\ ~misled => UpToDate(vaults[i])
    BY <1>1 DEF MInv, Kept
  <2> QED
    BY <1>1, <2>1, <2>2 DEF MInv, Kept, InBackup, UpToDate
<1> QED
  BY <1>6, <1>8, <1>9, <1>10, <1>11, <1>12 DEF MInv

LEMMA OneMoreVerified ==
  ASSUME NEW j, NEW k, NEW d, NEW f \in Files,
         CopyOf(j, d), j.pc = "verifying", j.made.files[f] = j.snap.files[f],
         k.pc = "verifying", k.todo = j.todo \ {f}, k.snap = j.snap, k.made = j.made,
         k.intact = j.intact
  PROVE  CopyOf(k, d)
BY DEF CopyOf, Done, SwapPhases

LEMMA VerifiesFileStep ==
  ASSUME MInv, NEW p \in Procs, NEW f \in Files, VerifiesFile(p, f)
  PROVE  MInv'
<1> USE MigrationAssumption, BlankType
<1>1. TypeOK'
  <2>1. [job[p] EXCEPT !.todo = @ \ {f}] \in JobType
    BY DEF MInv, TypeOK, JobType
  <2>2. job' \in [Procs -> JobType]
    BY <2>1 DEF VerifiesFile, MInv, TypeOK
  <2> QED
    BY <2>2 DEF VerifiesFile, MInv, TypeOK
<1>2. Owned'
  BY DEF VerifiesFile, MInv, TypeOK, Owned, Placed, Reading, Writing, Procs, NoProc,
     JobType
<1>3. Placed'
  <2>1. /\ job[p].pc = "verifying" /\ UNCHANGED <<dir, cliOpen>>
        /\ \A q \in Procs : /\ job'[q].pc = job[q].pc /\ job'[q].at = job[q].at
                            /\ job'[q].dst = job[q].dst /\ job'[q].from = job[q].from
    BY DEF VerifiesFile, MInv, TypeOK, JobType
  <2> QED
    BY <2>1 DEF MInv, Placed, Procs
<1>4. Roomy'
  BY DEF VerifiesFile, MInv, TypeOK, Roomy, Reading, Writing, JobType
<1>5. CopySound'
  <2>1. /\ job[p].pc = "verifying" /\ f \in job[p].todo /\ vaults' = vaults
        /\ job[p].made.files[f] = job[p].snap.files[f]
        /\ \A q \in Procs \ {p} : job'[q] = job[q]
        /\ job'[p].pc = "verifying" /\ job'[p].todo = job[p].todo \ {f}
        /\ job'[p].snap = job[p].snap /\ job'[p].dst = job[p].dst
        /\ job'[p].made = job[p].made /\ job'[p].intact = job[p].intact
    BY DEF VerifiesFile, MInv, TypeOK, JobType
  <2>2. CopyOf(job[p], vaults[job[p].dst])
    BY DEF MInv, CopySound
  <2>3. CopyOf(job'[p], vaults[job'[p].dst])
    BY <2>1, <2>2, OneMoreVerified
  <2> QED
    BY <2>1, <2>3 DEF MInv, CopySound
<1>6. Kept'
  BY DEF VerifiesFile, MInv, TypeOK, Kept, InBackup, UpToDate, Placed, Reading, SwapPhases, Procs,
     Paths, JobType
<1> QED
  BY <1>1, <1>2, <1>3, <1>4, <1>5, <1>6 DEF MInv

LEMMA FailsStep ==
  ASSUME MInv, NEW p \in Procs, Fails(p)
  PROVE  MInv'
<1> USE MigrationAssumption, BlankType
<1>1. TypeOK'
  <2>1. [job[p] EXCEPT !.pc = "failed"] \in JobType
    BY DEF MInv, TypeOK, JobType
  <2>2. job' \in [Procs -> JobType]
    BY <2>1 DEF Fails, MInv, TypeOK
  <2> QED
    BY <2>2, ReleasedType DEF Fails, MInv, TypeOK
<1>2. Owned'
  BY DEF Fails, ReleasedBy, EnginePhases, MInv, TypeOK, Owned, Placed, Reading, Writing,
     Procs, NoProc, JobType
<1>3. Placed'
  BY DEF Fails, ReleasedBy, EnginePhases, MInv, TypeOK, Owned, Placed, Reading, Writing,
     Done, SwapPhases, Procs, NoProc, Paths, JobType
<1>4. Roomy'
  BY DEF Fails, ReleasedBy, EnginePhases, MInv, TypeOK, Roomy, Reading, Writing, JobType
<1>5. CopySound'
  <2>1. vaults' = vaults /\ \A q \in Procs \ {p} : job'[q] = job[q]
    BY DEF Fails, MInv, TypeOK
  <2>2. job'[p].pc = "failed"
    BY DEF Fails, MInv, TypeOK, JobType, Procs
  <2> QED
    BY <2>1, <2>2, CopyUndisturbed DEF MInv, Writing, Done, SwapPhases, Procs
<1>6. Kept'
  BY DEF Fails, ReleasedBy, EnginePhases, MInv, TypeOK, Kept, InBackup, UpToDate, Placed, Reading,
     SwapPhases, Procs, Paths, JobType
<1> QED
  BY <1>1, <1>2, <1>3, <1>4, <1>5, <1>6 DEF MInv

LEMMA AppOpensStep ==
  ASSUME MInv, NEW p \in {"src", "away"}, AppOpens(p)
  PROVE  MInv'
<1> USE MigrationAssumption, BlankType
<1>1. TypeOK'
  <2>1. dir[p] \in Ids
    BY DEF AppOpens, CanOpen, MInv, TypeOK, Paths
  <2> QED
    BY <2>1 DEF AppOpens, MInv, TypeOK, Procs
<1>2. Owned'
  <2>1. dir[p] \in Ids /\ lock[dir[p]] = NoProc /\ lock'[dir[p]] = "app"
        /\ \A i \in Ids : i # dir[p] => lock'[i] = lock[i]
    BY DEF AppOpens, CanOpen, MInv, TypeOK, Paths
  <2>2. \A q \in Procs : /\ job[q].pc \in Reading => job[q].from \in Ids
                        /\ job[q].pc \in Writing => job[q].dst \in Ids
    BY DEF MInv, Owned, Placed, TypeOK, JobType
  <2> QED
    BY <2>1, <2>2 DEF AppOpens, AppIdle, MInv, TypeOK, Owned, Procs, NoProc
<1>3. Placed'
  BY DEF AppOpens, CanOpen, AppIdle, MInv, TypeOK, Owned, Placed, Reading, Writing, Done,
     SwapPhases, Procs, NoProc, Paths, JobType
<1>4. Roomy'
  BY DEF AppOpens, CanOpen, AppIdle, MInv, TypeOK, Roomy, Reading, Writing, JobType
<1>5. CopySound'
  <2>1. vaults' = vaults /\ job' = job
    BY DEF AppOpens
  <2> QED
    BY <2>1, CopyUndisturbed DEF MInv
<1>6. Kept'
  BY DEF AppOpens, CanOpen, AppIdle, MInv, TypeOK, Kept, InBackup, UpToDate, Placed, Reading,
     SwapPhases, Procs, Paths, JobType
<1> QED
  BY <1>1, <1>2, <1>3, <1>4, <1>5, <1>6 DEF MInv

LEMMA AppClosesStep ==
  ASSUME MInv, AppCloses
  PROVE  MInv'
<1> USE MigrationAssumption, BlankType
<1>1. TypeOK'
  BY DEF AppCloses, ReleasedBy, MInv, TypeOK, JobType, VaultType, EnginePhases, SwapPhases,
     Procs, Placed
<1>2. Owned'
  BY DEF AppCloses, ReleasedBy, MInv, TypeOK, Owned, Placed, Reading, Writing, Procs,
     NoProc, JobType
<1>3. Placed'
  BY DEF AppCloses, ReleasedBy, MInv, TypeOK, Owned, Placed, Reading, Writing, Done,
     SwapPhases, Procs, NoProc, Paths, JobType
<1>4. Roomy'
  BY DEF AppCloses, ReleasedBy, MInv, TypeOK, Roomy, Reading, Writing, JobType
<1>5. CopySound'
  <2>1. vaults' = vaults /\ job' = job
    BY DEF AppCloses
  <2> QED
    BY <2>1, CopyUndisturbed DEF MInv
<1>6. Kept'
  BY DEF AppCloses, ReleasedBy, MInv, TypeOK, Kept, InBackup, UpToDate, Placed, Reading, SwapPhases,
     Procs, Paths, JobType
<1> QED
  BY <1>1, <1>2, <1>3, <1>4, <1>5, <1>6 DEF MInv

LEMMA CliOpensStep ==
  ASSUME MInv, CliOpens
  PROVE  MInv'
<1> USE MigrationAssumption, BlankType
<1>1. TypeOK'
  <2>1. dir["src"] \in Ids
    BY DEF CliOpens, CanOpen, MInv, TypeOK, Paths
  <2> QED
    BY <2>1 DEF CliOpens, MInv, TypeOK, Procs
<1>2. Owned'
  <2>1. dir["src"] \in Ids /\ lock[dir["src"]] = NoProc /\ lock'[dir["src"]] = "cli"
        /\ \A i \in Ids : i # dir["src"] => lock'[i] = lock[i]
    BY DEF CliOpens, CanOpen, MInv, TypeOK, Paths
  <2>2. \A q \in Procs : /\ job[q].pc \in Reading => job[q].from \in Ids
                        /\ job[q].pc \in Writing => job[q].dst \in Ids
    BY DEF MInv, Owned, Placed, TypeOK, JobType
  <2> QED
    BY <2>1, <2>2 DEF CliOpens, CliIdle, MInv, TypeOK, Owned, Procs, NoProc
<1>3. Placed'
  BY DEF CliOpens, CanOpen, CliIdle, MInv, TypeOK, Owned, Placed, Reading, Writing, Done,
     SwapPhases, Procs, NoProc, Paths, JobType
<1>4. Roomy'
  BY DEF CliOpens, CanOpen, CliIdle, MInv, TypeOK, Roomy, Reading, Writing, JobType
<1>5. CopySound'
  <2>1. vaults' = vaults /\ job' = job
    BY DEF CliOpens
  <2> QED
    BY <2>1, CopyUndisturbed DEF MInv
<1>6. Kept'
  BY DEF CliOpens, CanOpen, CliIdle, MInv, TypeOK, Kept, InBackup, UpToDate, Placed, Reading,
     SwapPhases, Procs, Paths, JobType
<1> QED
  BY <1>1, <1>2, <1>3, <1>4, <1>5, <1>6 DEF MInv

LEMMA CliReportsStep ==
  ASSUME MInv, CliReports
  PROVE  MInv'
<1> USE MigrationAssumption, BlankType
<1>1. TypeOK'
  BY DEF CliReports, NoJob, MInv, TypeOK, JobType, VaultType, EnginePhases, SwapPhases,
     Procs, Placed
<1>2. Owned'
  BY DEF CliReports, NoJob, MInv, TypeOK, Owned, Placed, Reading, Writing, Procs, NoProc,
     JobType
<1>3. Placed'
  BY DEF CliReports, NoJob, MInv, TypeOK, Owned, Placed, Reading, Writing, Done,
     SwapPhases, Procs, NoProc, Paths, JobType
<1>4. Roomy'
  BY DEF CliReports, NoJob, MInv, TypeOK, Roomy, Reading, Writing, JobType
<1>5. CopySound'
  <2>1. vaults' = vaults /\ \A q \in Procs \ {"cli"} : job'[q] = job[q]
    BY DEF CliReports, MInv, TypeOK
  <2>2. job'["cli"].pc = "idle"
    BY DEF CliReports, NoJob, MInv, TypeOK, JobType, Procs
  <2> QED
    BY <2>1, <2>2, CopyUndisturbed DEF MInv, Writing, Done, SwapPhases, Procs
<1>6. Kept'
  BY DEF CliReports, NoJob, MInv, TypeOK, Kept, InBackup, UpToDate, Placed, Reading, SwapPhases,
     Procs, Paths, JobType
<1> QED
  BY <1>1, <1>2, <1>3, <1>4, <1>5, <1>6 DEF MInv

LEMMA CliMigratesStep ==
  ASSUME MInv, NEW cap \in {Same, Shrink} \cup Exacts, CliMigrates(cap)
  PROVE  MInv'
<1> USE MigrationAssumption, BlankType
<1>1. TypeOK'
  <2>1. [NoJob EXCEPT !.pc = "opening", !.cap = cap, !.at = "away"] \in JobType
    BY DEF JobType, NoJob, EnginePhases, Paths
  <2>2. job' \in [Procs -> JobType]
    BY <2>1 DEF CliMigrates, MInv, TypeOK
  <2> QED
    BY <2>2 DEF CliMigrates, MInv, TypeOK
<1>2. Owned'
  BY DEF CliMigrates, CliIdle, NoJob, MInv, TypeOK, Owned, Placed, Reading, Writing, Procs,
     NoProc, JobType
<1>3. Placed'
  BY DEF CliMigrates, CliIdle, NoJob, MInv, TypeOK, Owned, Placed, Reading, Writing, Done,
     SwapPhases, Procs, NoProc, Paths, JobType
<1>4. Roomy'
  BY DEF CliMigrates, CliIdle, NoJob, MInv, TypeOK, Roomy, Reading, Writing, JobType
<1>5. CopySound'
  <2>1. vaults' = vaults /\ \A q \in Procs \ {"cli"} : job'[q] = job[q]
    BY DEF CliMigrates, MInv, TypeOK
  <2>2. job'["cli"].pc = "opening"
    BY DEF CliMigrates, NoJob, MInv, TypeOK, JobType, Procs
  <2> QED
    BY <2>1, <2>2, CopyUndisturbed DEF MInv, Writing, Done, SwapPhases, Procs
<1>6. Kept'
  BY DEF CliMigrates, CliIdle, NoJob, MInv, TypeOK, Kept, InBackup, UpToDate, Placed, Reading,
     SwapPhases, Procs, Paths, JobType
<1> QED
  BY <1>1, <1>2, <1>3, <1>4, <1>5, <1>6 DEF MInv

LEMMA KillStep ==
  ASSUME MInv, NEW p \in Procs, Kill(p)
  PROVE  MInv'
<1> USE MigrationAssumption, BlankType
<1>1. TypeOK'
  BY DEF Kill, Dies, ReleasedBy, NoJob, MInv, TypeOK, JobType, VaultType, EnginePhases,
     SwapPhases, Procs, Placed
<1>2. Owned'
  BY DEF Kill, Dies, ReleasedBy, NoJob, MInv, TypeOK, Owned, Placed, Reading, Writing,
     Procs, NoProc, JobType
<1>3. Placed'
  BY DEF Kill, Dies, ReleasedBy, NoJob, MInv, TypeOK, Owned, Placed, Reading, Writing,
     Done, SwapPhases, Procs, NoProc, Paths, JobType
<1>4. Roomy'
  BY DEF Kill, Dies, ReleasedBy, NoJob, MInv, TypeOK, Roomy, Reading, Writing, JobType
<1>5. CopySound'
  <2>1. vaults' = vaults /\ \A q \in Procs \ {p} : job'[q] = job[q]
    BY DEF Kill, Dies, MInv, TypeOK
  <2>2. job'[p].pc = "idle"
    BY DEF Kill, Dies, NoJob, MInv, TypeOK, JobType, Procs
  <2> QED
    BY <2>1, <2>2, CopyUndisturbed DEF MInv, Writing, Done, SwapPhases, Procs
<1>6. Kept'
  BY DEF Kill, Dies, ReleasedBy, NoJob, MInv, TypeOK, Kept, InBackup, UpToDate, Placed, Reading,
     SwapPhases, Procs, Paths, JobType
<1> QED
  BY <1>1, <1>2, <1>3, <1>4, <1>5, <1>6 DEF MInv

(***************************************************************************)
(* Steps that change the directory                                         *)
(***************************************************************************)

LEMMA AppMigratesStep ==
  ASSUME MInv, NEW away \in BOOLEAN, NEW cap \in {Same, Shrink}, AppMigrates(away, cap)
  PROVE  MInv'
<1> USE MigrationAssumption, BlankType
<1>1. TypeOK'
  <2> DEFINE at == IF away THEN "awayTemp" ELSE "temp"
             j == [NoJob EXCEPT !.pc = "opening", !.cap = cap, !.at = at,
                                !.final = IF away THEN "away" ELSE "src"]
  <2>1. j \in JobType
    BY DEF JobType, NoJob, EnginePhases, Paths
  <2>2. job' = [job EXCEPT !["app"] = j]
    BY DEF AppMigrates
  <2>3. job' \in [Procs -> JobType]
    BY <2>1, <2>2 DEF MInv, TypeOK
  <2>4. /\ dir' \in [Paths -> {NoVault} \cup Ids]
        /\ \A p, q \in Paths : p # q /\ dir'[p] # NoVault => dir'[p] # dir'[q]
    BY DEF AppMigrates, MInv, TypeOK, Paths
  <2>5. lock' \in [Ids -> Procs \cup {NoProc}]
    BY ReleasedType DEF AppMigrates, MInv, Procs
  <2>6. begun' \in 0..MaxBegun
    BY DEF AppMigrates, MInv, TypeOK
  <2> QED
    BY <2>3, <2>4, <2>5, <2>6 DEF AppMigrates, MInv, TypeOK
<1>2. Owned'
  BY DEF AppMigrates, ReleasedBy, NoJob, MInv, TypeOK, Owned, Placed, Reading, Writing,
     Procs, NoProc, JobType
<1>3. Placed'
  BY DEF AppMigrates, ReleasedBy, NoJob, MInv, TypeOK, Owned, Placed, Reading, Writing,
     Done, SwapPhases, Procs, NoProc, Paths, JobType
<1>4. Roomy'
  BY DEF AppMigrates, ReleasedBy, NoJob, MInv, TypeOK, Roomy, Reading, Writing, JobType
<1>5. CopySound'
  <2>1. vaults' = vaults /\ \A q \in Procs \ {"app"} : job'[q] = job[q]
    BY DEF AppMigrates, MInv, TypeOK
  <2>2. job'["app"].pc = "opening"
    BY DEF AppMigrates, NoJob, MInv, TypeOK, JobType, Procs
  <2> QED
    BY <2>1, <2>2, CopyUndisturbed DEF MInv, Writing, Done, SwapPhases, Procs
<1>6. Kept'
  BY DEF AppMigrates, ReleasedBy, NoJob, MInv, TypeOK, Kept, InBackup, UpToDate, Placed, Reading,
     SwapPhases, Procs, Paths, JobType
<1> QED
  BY <1>1, <1>2, <1>3, <1>4, <1>5, <1>6 DEF MInv

\* The new file is nobody else's.
LEMMA DiscardsStep ==
  ASSUME MInv, job["app"].pc # "idle", Discards
  PROVE  MInv'
<1> USE MigrationAssumption, BlankType
<1>1. TypeOK'
  BY DEF Discards, NoJob, MInv, TypeOK, JobType, VaultType, EnginePhases, SwapPhases,
     Procs, Placed
<1>2. Owned'
  BY DEF Discards, NoJob, MInv, TypeOK, Owned, Placed, Reading, Writing, Procs, NoProc,
     JobType
<1>3. Placed'
  BY DEF Discards, NoJob, MInv, TypeOK, Owned, Placed, Reading, Writing, Done, SwapPhases,
     Procs, NoProc, Paths, JobType
<1>4. Roomy'
  BY DEF Discards, NoJob, MInv, TypeOK, Roomy, Reading, Writing, JobType
<1>5. CopySound'
  <2>1. vaults' = vaults /\ \A q \in Procs \ {"app"} : job'[q] = job[q]
    BY DEF Discards, MInv, TypeOK
  <2>2. job'["app"].pc = "idle"
    BY DEF Discards, NoJob, MInv, TypeOK, JobType, Procs
  <2> QED
    BY <2>1, <2>2, CopyUndisturbed DEF MInv, Writing, Done, SwapPhases, Procs
<1>6. Kept'
  BY DEF Discards, NoJob, MInv, TypeOK, Kept, InBackup, UpToDate, Placed, Reading, SwapPhases, Procs,
     Paths, JobType
<1> QED
  BY <1>1, <1>2, <1>3, <1>4, <1>5, <1>6 DEF MInv

LEMMA SwapClearsBackupStep ==
  ASSUME MInv, SwapClearsBackup
  PROVE  MInv'
<1> USE MigrationAssumption, BlankType
<1>1. TypeOK'
  <2>1. job' \in [Procs -> JobType]
    <3>1. [job["app"] EXCEPT !.pc = "moveOut"] \in JobType
      BY DEF MInv, TypeOK, JobType, SwapPhases, Procs
    <3> QED
      BY <3>1 DEF SwapClearsBackup, MInv, TypeOK
  <2>2. /\ dir' \in [Paths -> {NoVault} \cup Ids]
        /\ \A p, q \in Paths : p # q /\ dir'[p] # NoVault => dir'[p] # dir'[q]
    BY DEF SwapClearsBackup, MInv, TypeOK, Paths, Move, JobType, Procs, Placed, SwapPhases
  <2> QED
    BY <2>1, <2>2 DEF SwapClearsBackup, MInv, TypeOK
<1>2. Owned'
  BY DEF SwapClearsBackup, MInv, TypeOK, Owned, Placed, Reading, Writing, Procs, NoProc,
     JobType
<1>3. Placed'
  BY DEF SwapClearsBackup, MInv, TypeOK, Owned, Placed, Reading, Writing, Done, SwapPhases,
     Procs, NoProc, Paths, JobType
<1>4. Roomy'
  BY DEF SwapClearsBackup, MInv, TypeOK, Roomy, Reading, Writing, JobType
<1>5. CopySound'
  <2>1. vaults' = vaults /\ \A q \in Procs \ {"app"} : job'[q] = job[q]
    BY DEF SwapClearsBackup, MInv, TypeOK
  <2>2. /\ job["app"].pc = "swap" /\ job'["app"].pc = "moveOut"
        /\ job'["app"].snap = job["app"].snap /\ job'["app"].dst = job["app"].dst
        /\ job'["app"].made = job["app"].made /\ job'["app"].intact = job["app"].intact
    BY DEF SwapClearsBackup, MInv, TypeOK, JobType, Procs
  <2> QED
    BY <2>1, <2>2, CopyUndisturbed DEF MInv, Writing, Done, SwapPhases, Procs
<1>6. Kept'
  BY DEF SwapClearsBackup, MInv, TypeOK, Kept, InBackup, UpToDate, Placed, Reading, SwapPhases,
     Procs, Paths, JobType
<1> QED
  BY <1>1, <1>2, <1>3, <1>4, <1>5, <1>6 DEF MInv

LEMMA SwapMovesOutStep ==
  ASSUME MInv, SwapMovesOut
  PROVE  MInv'
<1> USE MigrationAssumption, BlankType
<1>1. TypeOK'
  <2>1. job' \in [Procs -> JobType]
    <3>1. [job["app"] EXCEPT !.pc = "moveIn"] \in JobType
      BY DEF MInv, TypeOK, JobType, SwapPhases, Procs
    <3> QED
      BY <3>1 DEF SwapMovesOut, MInv, TypeOK
  <2>2. /\ dir' \in [Paths -> {NoVault} \cup Ids]
        /\ \A p, q \in Paths : p # q /\ dir'[p] # NoVault => dir'[p] # dir'[q]
    BY DEF SwapMovesOut, MInv, TypeOK, Paths, Move, JobType, Procs, Placed, SwapPhases
  <2> QED
    BY <2>1, <2>2 DEF SwapMovesOut, MInv, TypeOK
<1>2. Owned'
  BY DEF SwapMovesOut, Move, MInv, TypeOK, Owned, Placed, Reading, Writing, Procs, NoProc,
     JobType
<1>3. Placed'
  BY DEF SwapMovesOut, Move, MInv, TypeOK, Owned, Placed, Reading, Writing, Done,
     SwapPhases, Procs, NoProc, Paths, JobType
<1>4. Roomy'
  BY DEF SwapMovesOut, Move, MInv, TypeOK, Roomy, Reading, Writing, JobType
<1>5. CopySound'
  <2>1. vaults' = vaults /\ \A q \in Procs \ {"app"} : job'[q] = job[q]
    BY DEF SwapMovesOut, MInv, TypeOK
  <2>2. /\ job["app"].pc = "moveOut" /\ job'["app"].pc = "moveIn"
        /\ job'["app"].snap = job["app"].snap /\ job'["app"].dst = job["app"].dst
        /\ job'["app"].made = job["app"].made /\ job'["app"].intact = job["app"].intact
    BY DEF SwapMovesOut, MInv, TypeOK, JobType, Procs
  <2> QED
    BY <2>1, <2>2, CopyUndisturbed DEF MInv, Writing, Done, SwapPhases, Procs
<1>6. Kept'
  BY DEF SwapMovesOut, Move, MInv, TypeOK, Kept, InBackup, UpToDate, Placed, Reading, SwapPhases,
     Procs, Paths, JobType
<1> QED
  BY <1>1, <1>2, <1>3, <1>4, <1>5, <1>6 DEF MInv

\* The copy that takes the place of the vault has all of its source, which had all
\* that was acknowledged.
LEMMA SwapMovesInStep ==
  ASSUME MInv, SwapMovesIn
  PROVE  MInv'
<1> USE MigrationAssumption, BlankType
<1>1. TypeOK'
  <2>1. job' \in [Procs -> JobType]
    BY DEF SwapMovesIn, MInv, TypeOK
  <2>2. job["app"].at \in {"temp", "awayTemp"}
    BY DEF SwapMovesIn, MInv, Placed
  <2>3. /\ dir[job["app"].at] # NoVault /\ dir["src"] = NoVault
        /\ dir' = [dir EXCEPT !["src"] = dir[job["app"].at], ![job["app"].at] = NoVault]
    BY DEF SwapMovesIn, Move
  <2>4. dir' \in [Paths -> {NoVault} \cup Ids]
    BY <2>2, <2>3 DEF MInv, TypeOK, Paths
  <2>5. \A p, q \in Paths : p # q /\ dir'[p] # NoVault => dir'[p] # dir'[q]
    BY <2>2, <2>3 DEF MInv, TypeOK, Paths
  <2> QED
    BY <2>1, <2>4, <2>5 DEF SwapMovesIn, MInv, TypeOK
<1>2. Owned'
  BY DEF SwapMovesIn, Move, NoJob, MInv, TypeOK, Owned, Placed, Reading, Writing, Procs,
     NoProc, JobType
<1>3. Placed'
  BY DEF SwapMovesIn, Move, NoJob, MInv, TypeOK, Owned, Placed, Reading, Writing, Done,
     SwapPhases, Procs, NoProc, Paths, JobType
<1>4. Roomy'
  BY DEF SwapMovesIn, Move, NoJob, MInv, TypeOK, Roomy, Reading, Writing, JobType
<1>5. CopySound'
  <2>1. vaults' = vaults /\ \A q \in Procs \ {"app"} : job'[q] = job[q]
    BY DEF SwapMovesIn, MInv, TypeOK
  <2>2. job'["app"].pc = "idle"
    BY DEF SwapMovesIn, NoJob, MInv, TypeOK, JobType, Procs
  <2> QED
    BY <2>1, <2>2, CopyUndisturbed DEF MInv, Writing, Done, SwapPhases, Procs
<1>6. Kept'
  <2> DEFINE j == job["app"]
  <2>1. /\ j.pc = "moveIn" /\ j.at \in {"temp", "awayTemp"} /\ j.dst # NoVault
        /\ dir[j.at] = j.dst
    BY DEF SwapMovesIn, MInv, Placed, Done, SwapPhases, Procs
  <2>2. /\ dir'["src"] = j.dst /\ job'["app"].pc = "idle" /\ dir["src"] = NoVault
        /\ dir'["bak"] = dir["bak"] /\ misled' = (misled \/ ~j.intact)
        /\ UNCHANGED <<vaults, edits, acked, noted, foreign>>
    BY <2>1 DEF SwapMovesIn, Move, MInv, TypeOK, NoJob, Procs, Paths
  <2>3. ASSUME j.intact
        PROVE  /\ vaults[j.dst].whole /\ vaults[j.dst].files = j.snap.files
               /\ vaults[j.dst].count > j.snap.count
    BY <2>1, <2>3 DEF MInv, CopySound, CopyOf, Complete, Done, SwapPhases, Procs
  <2>4. ~foreign /\ ~misled => Holds(j.snap, acked) /\ j.snap.count >= noted
    BY <2>1 DEF MInv, Kept, SwapPhases
  <2>5. j.snap.count \in Nat /\ vaults[j.dst].count \in Nat /\ noted \in Nat
    BY <2>1 DEF MInv, TypeOK, JobType, VaultType, Procs
  <2>6. ASSUME ~foreign, ~misled' PROVE UpToDate(vaults[j.dst])
    <3>1. j.intact /\ ~misled
      BY <2>2, <2>6, Zenon
    <3> QED
      BY <2>3, <2>4, <2>5, <2>6, <3>1 DEF UpToDate, Holds
  <2>7. ~foreign => InBackup
    BY <2>2 DEF MInv, Kept
  <2>8. InBackup' <=> InBackup
    BY <2>2 DEF InBackup, Holds
  <2> QED
    BY <2>1, <2>2, <2>6, <2>7, <2>8 DEF MInv, Kept, UpToDate, Reading, SwapPhases
<1> QED
  BY <1>1, <1>2, <1>3, <1>4, <1>5, <1>6 DEF MInv

LEMMA MovesAwayStep ==
  ASSUME MInv, MovesAway
  PROVE  MInv'
<1> USE MigrationAssumption, BlankType
<1>1. TypeOK'
  <2>1. job' \in [Procs -> JobType]
    BY DEF MovesAway, MInv, TypeOK
  <2>2. job["app"].at \in {"temp", "awayTemp"}
    BY DEF MovesAway, MInv, Placed
  <2>3. /\ dir[job["app"].at] # NoVault /\ dir["away"] = NoVault
        /\ dir' = [dir EXCEPT !["away"] = dir[job["app"].at], ![job["app"].at] = NoVault]
    BY DEF MovesAway, Move
  <2>4. dir' \in [Paths -> {NoVault} \cup Ids]
    BY <2>2, <2>3 DEF MInv, TypeOK, Paths
  <2>5. \A p, q \in Paths : p # q /\ dir'[p] # NoVault => dir'[p] # dir'[q]
    BY <2>2, <2>3 DEF MInv, TypeOK, Paths
  <2> QED
    BY <2>1, <2>4, <2>5 DEF MovesAway, MInv, TypeOK
<1>2. Owned'
  BY DEF MovesAway, Move, NoJob, MInv, TypeOK, Owned, Placed, Reading, Writing, Procs,
     NoProc, JobType
<1>3. Placed'
  BY DEF MovesAway, Move, NoJob, MInv, TypeOK, Owned, Placed, Reading, Writing, Done,
     SwapPhases, Procs, NoProc, Paths, JobType
<1>4. Roomy'
  BY DEF MovesAway, Move, NoJob, MInv, TypeOK, Roomy, Reading, Writing, JobType
<1>5. CopySound'
  <2>1. vaults' = vaults /\ \A q \in Procs \ {"app"} : job'[q] = job[q]
    BY DEF MovesAway, MInv, TypeOK
  <2>2. job'["app"].pc = "idle"
    BY DEF MovesAway, NoJob, MInv, TypeOK, JobType, Procs
  <2> QED
    BY <2>1, <2>2, CopyUndisturbed DEF MInv, Writing, Done, SwapPhases, Procs
<1>6. Kept'
  BY DEF MovesAway, Move, NoJob, MInv, TypeOK, Kept, InBackup, UpToDate, Placed, Reading, SwapPhases,
     Procs, Paths, JobType
<1> QED
  BY <1>1, <1>2, <1>3, <1>4, <1>5, <1>6 DEF MInv

LEMMA AppDiscardsStaleStep ==
  ASSUME MInv, AppDiscardsStale
  PROVE  MInv'
<1> USE MigrationAssumption, BlankType
<1>1. TypeOK'
  <2>1. /\ dir' = [dir EXCEPT !["temp"] = NoVault] /\ "temp" \in Paths
        /\ UNCHANGED <<vaults, lock, job, appOpen, cliOpen, begun, edits, acked, noted, foreign, misled>>
    BY DEF AppDiscardsStale, Paths
  <2> QED
    BY <2>1 DEF MInv, TypeOK
<1>2. Owned'
  BY DEF AppDiscardsStale, MInv, TypeOK, Owned, Placed, Reading, Writing, Procs, NoProc,
     JobType
<1>3. Placed'
  BY DEF AppDiscardsStale, MInv, TypeOK, Owned, Placed, Reading, Writing, Done, SwapPhases,
     Procs, NoProc, Paths, JobType
<1>4. Roomy'
  BY DEF AppDiscardsStale, MInv, TypeOK, Roomy, Reading, Writing, JobType
<1>5. CopySound'
  <2>1. vaults' = vaults /\ job' = job
    BY DEF AppDiscardsStale
  <2> QED
    BY <2>1, CopyUndisturbed DEF MInv
<1>6. Kept'
  BY DEF AppDiscardsStale, MInv, TypeOK, Kept, InBackup, UpToDate, Placed, Reading, SwapPhases,
     Procs, Paths, JobType
<1> QED
  BY <1>1, <1>2, <1>3, <1>4, <1>5, <1>6 DEF MInv

LEMMA CliCleansUpStep ==
  ASSUME MInv, CliCleansUp
  PROVE  MInv'
<1> USE MigrationAssumption, BlankType
<1>1. TypeOK'
  BY DEF CliCleansUp, NoJob, MInv, TypeOK, JobType, VaultType, EnginePhases, SwapPhases,
     Procs, Placed
<1>2. Owned'
  BY DEF CliCleansUp, NoJob, MInv, TypeOK, Owned, Placed, Reading, Writing, Procs, NoProc,
     JobType
<1>3. Placed'
  BY DEF CliCleansUp, NoJob, MInv, TypeOK, Owned, Placed, Reading, Writing, Done,
     SwapPhases, Procs, NoProc, Paths, JobType
<1>4. Roomy'
  BY DEF CliCleansUp, NoJob, MInv, TypeOK, Roomy, Reading, Writing, JobType
<1>5. CopySound'
  <2>1. vaults' = vaults /\ \A q \in Procs \ {"cli"} : job'[q] = job[q]
    BY DEF CliCleansUp, MInv, TypeOK
  <2>2. job'["cli"].pc = "idle"
    BY DEF CliCleansUp, NoJob, MInv, TypeOK, JobType, Procs
  <2> QED
    BY <2>1, <2>2, CopyUndisturbed DEF MInv, Writing, Done, SwapPhases, Procs
<1>6. Kept'
  BY DEF CliCleansUp, NoJob, MInv, TypeOK, Kept, InBackup, UpToDate, Placed, Reading, SwapPhases,
     Procs, Paths, JobType
<1> QED
  BY <1>1, <1>2, <1>3, <1>4, <1>5, <1>6 DEF MInv

(***************************************************************************)
(* Steps that change a vault                                               *)
(***************************************************************************)

\* The new vault of a migration is no other file that matters, and nobody has it
\* open.
LEMMA DstApart ==
  ASSUME MInv, NEW p \in Procs, job[p].pc \in Writing \cup Done
  PROVE  /\ job[p].dst \in Ids
         /\ dir["src"] # job[p].dst /\ dir["bak"] # job[p].dst
         /\ cliOpen # job[p].dst
         /\ \A q \in Procs \ {p} : job[q].pc \in Writing \cup Done => job[q].dst # job[p].dst
<1>1. job[p].dst \in Ids /\ dir[job[p].at] = job[p].dst
  BY DEF MInv, Placed, TypeOK, JobType
<1>2. /\ p = "app" => job[p].at \in {"temp", "awayTemp"}
      /\ p = "cli" => job[p].at = "away"
  BY DEF MInv, Placed, Writing, Done, SwapPhases, Procs
<1>3. dir["src"] # job[p].dst /\ dir["bak"] # job[p].dst
  BY <1>1, <1>2 DEF MInv, TypeOK, Procs, Paths, Ids, NoVault
<1>4. cliOpen # job[p].dst
  BY <1>1 DEF MInv, Placed, Owned, Writing, Done, SwapPhases, Procs, Ids, NoVault
<1>5. ASSUME NEW q \in Procs \ {p}, job[q].pc \in Writing \cup Done PROVE job[q].dst # job[p].dst
  <2>1. dir[job[q].at] = job[q].dst
    BY <1>5 DEF MInv, Placed
  <2>2. /\ q = "app" => job[q].at \in {"temp", "awayTemp"}
        /\ q = "cli" => job[q].at = "away"
    BY <1>5 DEF MInv, Placed, Writing, Done, SwapPhases, Procs
  <2> QED
    BY <1>1, <1>2, <1>5, <2>1, <2>2 DEF MInv, TypeOK, Procs, Paths, Ids, NoVault
<1> QED
  BY <1>1, <1>3, <1>4, <1>5

\* The migration j after a step of the engine that writes: m is the new vault.
Wrote(j, pc, todo, m, intact) ==
  [j EXCEPT !.pc = pc, !.todo = todo, !.made = m, !.intact = intact]

LEMMA WroteType ==
  ASSUME NEW j \in JobType, NEW pc \in Writing \cup Done, NEW todo \in SUBSET Files,
         NEW m \in VaultType, NEW intact \in BOOLEAN
  PROVE  LET k == Wrote(j, pc, todo, m, intact) IN
         /\ k \in JobType
         /\ k.pc = pc /\ k.todo = todo /\ k.made = m /\ k.intact = intact
         /\ k.cap = j.cap /\ k.snap = j.snap /\ k.from = j.from /\ k.dst = j.dst
         /\ k.at = j.at /\ k.final = j.final
<1>1. pc \in EnginePhases \cup SwapPhases \cup {"reporting"}
  BY DEF Writing, Done, EnginePhases
<1> QED
  BY <1>1 DEF Wrote, JobType

\* A step of the engine after which the file shows v harms no other vault.
LEMMA WriteKeeps ==
  ASSUME MInv, NEW p \in Procs, job[p].pc \in Writing,
         NEW v \in VaultType, vaults' = [vaults EXCEPT ![job[p].dst] = v],
         NEW pc \in Writing \cup Done, NEW todo \in SUBSET Files,
         NEW m \in VaultType, NEW intact \in BOOLEAN,
         job' = [job EXCEPT ![p] = Wrote(job[p], pc, todo, m, intact)],
         UNCHANGED <<dir, edits, acked, noted, foreign, misled>>,
         v.whole => Used(v) < v.chunks, Used(job[p].snap) < m.chunks,
         CopyOf(Wrote(job[p], pc, todo, m, intact), v)
  PROVE  /\ vaults' \in [Ids -> VaultType] /\ job' \in [Procs -> JobType]
         /\ Roomy' /\ CopySound' /\ Kept'
<1> DEFINE d == job[p].dst
           j == Wrote(job[p], pc, todo, m, intact)
<1>1. /\ d \in Ids /\ dir["src"] # d /\ dir["bak"] # d
      /\ \A q \in Procs \ {p} : job[q].pc \in Writing \cup Done => job[q].dst # d
  BY DstApart
<1>2. vaults'[d] = v /\ \A i : i # d => vaults'[i] = vaults[i]
  BY <1>1 DEF MInv, TypeOK
<1>3. job'[p] = j /\ \A q \in Procs \ {p} : job'[q] = job[q]
  BY DEF MInv, TypeOK
<1>4. /\ j \in JobType /\ j.pc = pc /\ j.made = m
      /\ j.cap = job[p].cap /\ j.snap = job[p].snap /\ j.dst = d
  BY WroteType DEF MInv, TypeOK
<1> HIDE DEF j
<1>5. vaults' \in [Ids -> VaultType] /\ job' \in [Procs -> JobType]
  BY <1>3, <1>4 DEF MInv, TypeOK
<1>6. Roomy'
  <2>1. \A i \in Ids : vaults'[i].whole => Used(vaults'[i]) < vaults'[i].chunks
    BY <1>1, <1>2 DEF MInv, Roomy
  <2>2. \A q \in Procs : job'[q].pc \in Reading =>
          /\ Used(job'[q].snap) < job'[q].snap.chunks
          /\ ~Refused(job'[q].cap, Used(job'[q].snap))
    BY <1>3, <1>4 DEF MInv, Roomy, Reading, Writing
  <2>3. \A q \in Procs : job'[q].pc \in Writing => Used(job'[q].snap) < job'[q].made.chunks
    BY <1>3, <1>4 DEF MInv, Roomy, Writing
  <2> QED
    BY <2>1, <2>2, <2>3 DEF Roomy
<1>7. CopySound'
  <2>1. CopyOf(job'[p], vaults'[job'[p].dst])
    BY <1>2, <1>3, <1>4 DEF j
  <2>2. ASSUME NEW q \in Procs \ {p} PROVE CopyOf(job'[q], vaults'[job'[q].dst])
    <3>1. CopyOf(job[q], vaults[job[q].dst])
      BY DEF MInv, CopySound
    <3>2. CASE job[q].pc \in Writing \cup Done
      BY <1>1, <1>2, <1>3, <3>1, <3>2
    <3>3. CASE job[q].pc \notin Writing \cup Done
      BY <1>3, <3>3 DEF CopyOf, Writing, Done
    <3> QED
      BY <3>2, <3>3
  <2> QED
    BY <2>1, <2>2 DEF CopySound
<1>8. Kept'
  BY <1>1, <1>2, <1>3, <1>4 DEF MInv, Kept, InBackup, UpToDate, Reading, Writing, SwapPhases
<1> QED
  BY <1>5, <1>6, <1>7, <1>8

\* A step of the engine that writes and goes on.
LEMMA WriteStep ==
  ASSUME MInv, NEW p \in Procs, job[p].pc \in Writing,
         NEW v \in VaultType, vaults' = [vaults EXCEPT ![job[p].dst] = v],
         NEW pc \in Writing, NEW todo \in SUBSET Files,
         NEW m \in VaultType, NEW intact \in BOOLEAN,
         job' = [job EXCEPT ![p] = Wrote(job[p], pc, todo, m, intact)],
         UNCHANGED <<dir, lock, appOpen, cliOpen, begun, edits, acked, noted, foreign, misled>>,
         v.whole => Used(v) < v.chunks, Used(job[p].snap) < m.chunks,
         CopyOf(Wrote(job[p], pc, todo, m, intact), v)
  PROVE  MInv'
<1> DEFINE j == Wrote(job[p], pc, todo, m, intact)
<1>1. /\ vaults' \in [Ids -> VaultType] /\ job' \in [Procs -> JobType]
      /\ Roomy' /\ CopySound' /\ Kept'
  BY WriteKeeps
<1>2. job'[p] = j /\ \A q \in Procs \ {p} : job'[q] = job[q]
  BY DEF MInv, TypeOK
<1>3. /\ j.pc = pc /\ j.from = job[p].from /\ j.dst = job[p].dst /\ j.at = job[p].at
  BY WroteType DEF MInv, TypeOK
<1> HIDE DEF j
<1>4. TypeOK'
  BY <1>1 DEF MInv, TypeOK
<1>5. Owned'
  BY <1>2, <1>3 DEF MInv, Owned, Reading, Writing
<1>6. Placed'
  BY <1>2, <1>3 DEF MInv, Placed, Reading, Writing, Done, SwapPhases
<1> QED
  BY <1>1, <1>4, <1>5, <1>6 DEF MInv

LEMMA NoneUsed == ASSUME NEW v, v.files = NoFiles PROVE Used(v) = 0
<1>1. Present(v) = {}
  BY DEF Present, NoFiles
<1> QED
  BY <1>1, FS_EmptySet DEF Used

\* Whatever manifest is the last to arrive, the file has room for what it shows.
LEMMA FillsStep ==
  ASSUME MInv, NEW p \in Procs, Fills(p)
  PROVE  MInv'
<1> DEFINE d == job[p].dst
           s == job[p].snap
<1>1. job[p].pc = "filling" /\ job[p].pc \in Writing
  BY DEF Fills, Writing
<1>2. /\ d \in Ids /\ s \in VaultType /\ job[p].made \in VaultType /\ job[p].intact \in BOOLEAN
      /\ s.folders \in SUBSET Folders
  BY <1>1, DstApart DEF MInv, TypeOK, JobType, VaultType
<1>3. PICK header \in BOOLEAN, whole \in BOOLEAN, F \in SUBSET s.folders :
        /\ vaults' = [vaults EXCEPT ![d] = WithFolders(job[p].made, F, whole)]
        /\ job' = [job EXCEPT ![p].pc = "copying", ![p].todo = Present(s),
                              ![p].made = WithFolders(@, s.folders, header)]
  BY DEF Fills
<1> DEFINE v == WithFolders(job[p].made, F, whole)
           m == WithFolders(job[p].made, s.folders, header)
           j == Wrote(job[p], "copying", Present(s), m, job[p].intact)
<1>4. ASSUME NEW G \in SUBSET Folders, NEW w \in BOOLEAN
      PROVE  /\ WithFolders(job[p].made, G, w) \in VaultType
             /\ WithFolders(job[p].made, G, w).files = job[p].made.files
             /\ WithFolders(job[p].made, G, w).chunks = job[p].made.chunks
             /\ WithFolders(job[p].made, G, w).folders = G
  <2>1. Cardinality(G) \in Nat
    BY MigrationAssumption, FS_Subset, FS_CardinalityType
  <2> QED
    BY <1>2, <2>1 DEF WithFolders, VaultType
<1>5. /\ v \in VaultType /\ v.files = job[p].made.files /\ v.chunks = job[p].made.chunks
      /\ m \in VaultType /\ m.files = job[p].made.files /\ m.chunks = job[p].made.chunks
      /\ m.folders = s.folders
  BY <1>2, <1>4
<1>6. vaults' = [vaults EXCEPT ![d] = v]
  BY <1>3
<1>7. job' = [job EXCEPT ![p] = j]
  BY <1>3 DEF Wrote, MInv, TypeOK, JobType
<1> HIDE DEF v, m
<1>8. job[p].made.files = NoFiles
  BY <1>1 DEF MInv, CopySound, CopyOf
<1>9. Used(s) < m.chunks /\ m.chunks \in Nat
  BY <1>1, <1>2, <1>5 DEF MInv, Roomy, VaultType
<1>10. Used(v) < v.chunks
  <2>1. Used(v) = 0 /\ Used(s) \in Nat
    BY <1>5, <1>8, NoneUsed, UsedIsNat
  <2> QED
    BY <1>5, <1>9, <2>1
<1>11. Present(s) \in SUBSET Files /\ "copying" \in Writing
  BY DEF Present, Writing
<1>12. CopyOf(j, v)
  <2>1. j.pc = "copying" /\ j.todo = Present(s) /\ j.snap = s /\ j.made = m
    BY <1>2, <1>5, <1>11, WroteType DEF MInv, TypeOK
  <2> HIDE DEF j
  <2> QED
    BY <1>5, <1>8, <2>1 DEF CopyOf, NoFiles, Done, SwapPhases
<1>13. UNCHANGED <<dir, lock, appOpen, cliOpen, begun, edits, acked, noted, foreign, misled>>
  BY DEF Fills
<1> QED
  BY <1>1, <1>2, <1>5, <1>6, <1>7, <1>9, <1>10, <1>11, <1>12, <1>13, WriteStep

\* One more file takes one more chunk at most.
LEMMA OneMoreUsed ==
  ASSUME NEW v, NEW w, NEW f \in Files, Present(w) \subseteq Present(v) \cup {f}
  PROVE  Used(w) \in Nat /\ Used(v) \in Nat /\ Used(w) <= Used(v) + 1
<1> DEFINE P == Present(v)
<1>1. IsFiniteSet(P) /\ Cardinality(P) \in Nat /\ Cardinality(P) = Used(v)
  BY UsedIsNat DEF Used
<1> HIDE DEF P
<1>2. /\ IsFiniteSet(P \cup {f})
      /\ Cardinality(P \cup {f}) = IF f \in P THEN Cardinality(P) ELSE Cardinality(P) + 1
  BY <1>1, FS_AddElement, Zenon
<1>3. Cardinality(P \cup {f}) \in Nat
  BY <1>2, FS_CardinalityType
<1>4. Used(w) <= Cardinality(P \cup {f}) /\ Used(w) \in Nat
  BY <1>2, UsedIsNat, FS_Subset DEF Used, P
<1> QED
  BY <1>1, <1>2, <1>3, <1>4

\* What may become visible when the manifest of new is written.
LEMMA ShownType ==
  ASSUME NEW new \in VaultType, NEW old \in VaultType, NEW v \in AfterManifest(new, old),
         old.whole => Used(old) < old.chunks, Used(new) < new.chunks
  PROVE  v \in VaultType /\ (v.whole => Used(v) < v.chunks)
<1> DEFINE torn == [old EXCEPT !.whole = FALSE]
<1>1. torn \in VaultType /\ ~torn.whole
  BY DEF VaultType
<1> HIDE DEF torn
<1>2. v \in {new, old, torn}
  BY DEF AfterManifest, torn
<1> QED
  BY <1>1, <1>2

LEMMA CopiesFileStep ==
  ASSUME MInv, NEW p \in Procs, NEW f \in Files, CopiesFile(p, f)
  PROVE  MInv'
<1> DEFINE d == job[p].dst
           s == job[p].snap
           made == job[p].made
           todo == job[p].todo \ {f}
           With(c, n) == [made EXCEPT !.files[f] = c, !.count = @ + n]
<1>1. job[p].pc = "copying" /\ job[p].pc \in Writing /\ f \in job[p].todo
  BY DEF CopiesFile, Writing
<1>2. /\ d \in Ids /\ vaults[d] \in VaultType /\ s \in VaultType /\ made \in VaultType
      /\ job[p].todo \subseteq Files /\ job[p].intact \in BOOLEAN
  BY <1>1, DstApart DEF MInv, TypeOK, JobType
<1>3. PICK c \in {s.files[f], Damaged} :
        \E v \in {With(Damaged, 1)} \cup AfterManifest(With(c, 2), vaults[d]) :
          /\ vaults' = [vaults EXCEPT ![d] = v]
          /\ job' = [job EXCEPT ![p].todo = @ \ {f}, ![p].made = With(c, 2)]
  BY DEF CopiesFile
<1>4. PICK v \in {With(Damaged, 1)} \cup AfterManifest(With(c, 2), vaults[d]) :
        /\ vaults' = [vaults EXCEPT ![d] = v]
        /\ job' = [job EXCEPT ![p].todo = @ \ {f}, ![p].made = With(c, 2)]
  BY <1>3
<1>5. c \in -1..MaxEdits /\ Damaged \in -1..MaxEdits
  BY <1>2, MigrationAssumption DEF VaultType, Damaged
<1>6. ASSUME NEW e \in -1..MaxEdits, NEW n \in {1, 2}
      PROVE  /\ With(e, n) \in VaultType /\ With(e, n).files = [made.files EXCEPT ![f] = e]
             /\ With(e, n).chunks = made.chunks /\ With(e, n).folders = made.folders
  <2>1. made.files \in [Files -> -1..MaxEdits] /\ made.count \in Nat
    BY <1>2 DEF VaultType
  <2> DEFINE fs == [made.files EXCEPT ![f] = e]
  <2>2. fs \in [Files -> -1..MaxEdits] /\ made.count + n \in Nat
    BY <2>1
  <2>3. With(e, n) = [made EXCEPT !.files = fs, !.count = made.count + n]
    BY <1>2 DEF VaultType
  <2> HIDE DEF fs
  <2>4. /\ [made EXCEPT !.files = fs, !.count = made.count + n] \in VaultType
        /\ [made EXCEPT !.files = fs, !.count = made.count + n].files = fs
        /\ [made EXCEPT !.files = fs, !.count = made.count + n].chunks = made.chunks
        /\ [made EXCEPT !.files = fs, !.count = made.count + n].folders = made.folders
    BY <1>2, <2>2 DEF VaultType
  <2> HIDE DEF With
  <2> QED
    BY <2>3, <2>4 DEF fs
<1> DEFINE m == With(c, 2)
           created == With(Damaged, 1)
<1>7. /\ m \in VaultType /\ m.files = [made.files EXCEPT ![f] = c]
      /\ m.chunks = made.chunks /\ m.folders = made.folders
      /\ created \in VaultType /\ created.files = [made.files EXCEPT ![f] = Damaged]
      /\ created.chunks = made.chunks
  BY <1>5, <1>6
<1>8. /\ vaults' = [vaults EXCEPT ![d] = v]
      /\ job' = [job EXCEPT ![p] = Wrote(job[p], "copying", todo, m, job[p].intact)]
      /\ v \in {created} \cup AfterManifest(m, vaults[d])
  <2>1. [job[p] EXCEPT !.todo = @ \ {f}, !.made = m] = Wrote(job[p], "copying", todo, m, job[p].intact)
    BY <1>1 DEF Wrote, MInv, TypeOK, JobType
  <2>2. job' = [job EXCEPT ![p] = [job[p] EXCEPT !.todo = @ \ {f}, !.made = m]]
    BY <1>4 DEF MInv, TypeOK
  <2> QED
    BY <1>4, <2>1, <2>2
<1> HIDE DEF m, created, With
<1>9. Used(s) < m.chunks
  BY <1>1, <1>7 DEF MInv, Roomy
<1>10. Used(m) < m.chunks /\ Used(created) < created.chunks
  <2>1. Used(made) + 1 < made.chunks /\ made.chunks \in Nat
    BY <1>2 DEF CopiesFile, HasRoom, VaultType
  <2>2. /\ Present(m) \subseteq Present(made) \cup {f}
        /\ Present(created) \subseteq Present(made) \cup {f}
    BY <1>2, <1>7 DEF Present, VaultType
  <2>3. Used(m) \in Nat /\ Used(created) \in Nat /\ Used(made) \in Nat
        /\ Used(m) <= Used(made) + 1 /\ Used(created) <= Used(made) + 1
    BY <2>2, OneMoreUsed
  <2> QED
    BY <1>7, <2>1, <2>3
<1>11. v \in VaultType /\ (v.whole => Used(v) < v.chunks)
  <2>1. vaults[d].whole => Used(vaults[d]) < vaults[d].chunks
    BY <1>2 DEF MInv, Roomy
  <2> QED
    BY <1>2, <1>7, <1>8, <1>10, <2>1, ShownType
<1>12. todo \in SUBSET Files /\ "copying" \in Writing
  BY <1>2 DEF Writing
<1>13. CopyOf(Wrote(job[p], "copying", todo, m, job[p].intact), v)
  <2> DEFINE k == Wrote(job[p], "copying", todo, m, job[p].intact)
  <2>1. CopyOf(job[p], vaults[d])
    BY DEF MInv, CopySound
  <2>2. k.pc = "copying" /\ k.todo = todo /\ k.snap = s /\ k.made = m
    BY <1>2, <1>7, <1>12, WroteType DEF MInv, TypeOK
  <2> HIDE DEF k
  <2>3. \A g \in Files : g \in todo \/ g \notin Present(s) => m.files[g] = 0
    <3>1. /\ job[p].todo \subseteq Present(s)
          /\ \A g \in Files : g \in job[p].todo \/ g \notin Present(s) => made.files[g] = 0
      BY <1>1, <2>1 DEF CopyOf
    <3>2. \A g \in Files \ {f} : m.files[g] = made.files[g]
      BY <1>2, <1>7 DEF VaultType
    <3> QED
      BY <1>1, <3>1, <3>2
  <2>4. CopyOf(k, v)
    BY <1>1, <1>7, <2>1, <2>2, <2>3 DEF CopyOf, Done, SwapPhases
  <2> QED
    BY <2>4 DEF k
<1>14. UNCHANGED <<dir, lock, appOpen, cliOpen, begun, edits, acked, noted, foreign, misled>>
  BY DEF CopiesFile
<1> QED
  BY <1>1, <1>2, <1>7, <1>8, <1>9, <1>11, <1>12, <1>13, <1>14, WriteStep

LEMMA CarriesStep ==
  ASSUME MInv, NEW p \in Procs, Carries(p)
  PROVE  MInv'
<1> DEFINE d == job[p].dst
           s == job[p].snap
           made == job[p].made
           m == [made EXCEPT !.count = Max({@, s.count + 1}), !.owner = s.owner]
<1>1. job[p].pc = "copying" /\ job[p].pc \in Writing /\ job[p].todo = {}
  BY DEF Carries, PublishesLast, Writing
<1>2. d \in Ids /\ vaults[d] \in VaultType /\ s \in VaultType /\ made \in VaultType
  BY <1>1, DstApart DEF MInv, TypeOK, JobType
<1>3. PICK v \in AfterManifest(m, vaults[d]) :
        /\ vaults' = [vaults EXCEPT ![d] = v]
        /\ job' = [job EXCEPT ![p].pc = "verifying", ![p].todo = Present(s),
                              ![p].made = m, ![p].intact = m.whole /\ v = m]
  BY DEF Carries, PublishesLast
<1> DEFINE intact == m.whole /\ v = m
           j == Wrote(job[p], "verifying", Present(s), m, intact)
<1>4. Max({made.count, s.count + 1}) \in Nat /\ Max({made.count, s.count + 1}) > s.count
  <2> DEFINE a == made.count
             b == s.count + 1
             n == Max({a, b})
  <2>1. a \in Int /\ b \in Int /\ a \in Nat /\ b > s.count /\ b \in Nat /\ s.count \in Nat
    BY <1>2 DEF VaultType
  <2> HIDE DEF a, b
  <2>2. n \in {a, b} /\ n >= b
    BY <2>1, MaxOfTwo
  <2> HIDE DEF n
  <2>3. n \in Nat /\ n > s.count
    BY <2>1, <2>2
  <2> QED
    BY <2>3 DEF n, a, b
<1>5. /\ m \in VaultType /\ m.count > s.count /\ m.owner = s.owner
      /\ m.files = made.files /\ m.chunks = made.chunks /\ m.folders = made.folders
  BY <1>2, <1>4 DEF VaultType
<1>6. intact \in BOOLEAN
  BY <1>5 DEF VaultType
<1>7. vaults' = [vaults EXCEPT ![d] = v] /\ job' = [job EXCEPT ![p] = j]
  BY <1>3 DEF Wrote, MInv, TypeOK, JobType
<1> HIDE DEF m, intact
<1>8. made.folders = s.folders /\ \A f \in Files : f \notin Present(s) => made.files[f] = 0
  BY <1>1 DEF MInv, CopySound, CopyOf
<1>9. Used(s) < m.chunks /\ Used(m) < m.chunks
  <2>1. Used(s) < m.chunks /\ m.chunks \in Nat
    BY <1>1, <1>5 DEF MInv, Roomy, VaultType
  <2>2. Present(m) \subseteq Present(s)
    BY <1>5, <1>8 DEF Present
  <2>3. Used(m) <= Used(s) /\ Used(m) \in Nat /\ Used(s) \in Nat
    BY <2>2, UsedMonotone, UsedIsNat
  <2> QED
    BY <2>1, <2>3
<1>10. v \in VaultType /\ (v.whole => Used(v) < v.chunks)
  <2>1. vaults[d].whole => Used(vaults[d]) < vaults[d].chunks
    BY <1>2 DEF MInv, Roomy
  <2> QED
    BY <1>2, <1>3, <1>5, <1>9, <2>1, ShownType
<1>11. Present(s) \in SUBSET Files /\ "verifying" \in Writing
  BY DEF Present, Writing
<1>12. CopyOf(j, v)
  <2>1. /\ j.pc = "verifying" /\ j.todo = Present(s) /\ j.snap = s /\ j.made = m
        /\ j.intact = intact
    BY <1>5, <1>6, <1>11, WroteType DEF MInv, TypeOK
  <2>2. \A f \in Files \ Present(s) : m.files[f] = s.files[f]
    BY <1>5, <1>8 DEF Present
  <2>3. intact => v = m /\ m.whole
    BY Zenon DEF intact
  <2> HIDE DEF j
  <2> QED
    BY <1>5, <1>8, <2>1, <2>2, <2>3 DEF CopyOf, Done, SwapPhases
<1>13. UNCHANGED <<dir, lock, appOpen, cliOpen, begun, edits, acked, noted, foreign, misled>>
  BY DEF Carries, PublishesLast
<1> QED
  BY <1>1, <1>5, <1>6, <1>7, <1>9, <1>10, <1>11, <1>12, <1>13, WriteStep

\* What has been verified file by file is the whole source; the sync that
\* follows can only take intact away.
LEMMA ReturnsStep ==
  ASSUME MInv, NEW p \in Procs, Returns(p)
  PROVE  MInv'
<1> DEFINE d == job[p].dst
           s == job[p].snap
           made == job[p].made
           pc == IF p = "app" THEN "swap" ELSE "reporting"
           Synced(D, whole) == [vaults[d] EXCEPT !.whole = whole,
                                  !.files = [f \in Files |-> IF f \in D THEN Damaged ELSE @[f]]]
<1>1. job[p].pc = "verifying" /\ job[p].pc \in Writing /\ job[p].todo = {}
  BY DEF Returns, Writing
<1>2. /\ d \in Ids /\ vaults[d] \in VaultType /\ s \in VaultType /\ made \in VaultType
      /\ job[p].intact \in BOOLEAN
  BY <1>1, DstApart DEF MInv, TypeOK, JobType
<1>3. PICK D \in SUBSET Present(vaults[d]), whole \in {vaults[d].whole, FALSE} :
        /\ vaults' = [vaults EXCEPT ![d] = Synced(D, whole)]
        /\ job' = [job EXCEPT ![p].pc = pc, ![p].intact = @ /\ Synced(D, whole) = vaults[d]]
  BY DEF Returns
<1> DEFINE v == Synced(D, whole)
           intact == job[p].intact /\ v = vaults[d]
           j == Wrote(job[p], pc, job[p].todo, made, intact)
<1>4. /\ v \in VaultType /\ v.chunks = vaults[d].chunks /\ (v.whole => vaults[d].whole)
      /\ Present(v) = Present(vaults[d])
  <2> DEFINE fs == [f \in Files |-> IF f \in D THEN Damaged ELSE vaults[d].files[f]]
  <2>1. /\ fs \in [Files -> -1..MaxEdits]
        /\ whole \in BOOLEAN /\ (whole => vaults[d].whole)
    <3>1. vaults[d].files \in [Files -> -1..MaxEdits] /\ vaults[d].whole \in BOOLEAN
      BY <1>2 DEF VaultType
    <3>2. Damaged \in -1..MaxEdits
      BY MigrationAssumption DEF Damaged
    <3>3. fs \in [Files -> -1..MaxEdits]
      BY <3>1, <3>2
    <3>4. whole \in BOOLEAN /\ (whole => vaults[d].whole)
      BY <3>1, Zenon
    <3> QED
      BY <3>3, <3>4
  <2>2. v = [vaults[d] EXCEPT !.whole = whole, !.files = fs]
    BY <1>2 DEF VaultType
  <2>3. \A f \in Files : fs[f] # 0 <=> vaults[d].files[f] # 0
    BY DEF Damaged, Present
  <2> HIDE DEF fs, v
  <2>4. v \in VaultType /\ v.chunks = vaults[d].chunks /\ v.whole = whole /\ v.files = fs
    BY <1>2, <2>1, <2>2 DEF VaultType
  <2> QED
    BY <2>1, <2>3, <2>4 DEF Present
<1>5. vaults' = [vaults EXCEPT ![d] = v] /\ job' = [job EXCEPT ![p] = j]
  <2>1. job[p] \in JobType /\ job \in [Procs -> JobType]
    BY DEF MInv, TypeOK
  <2> HIDE DEF pc, Synced
  <2>2. [job[p] EXCEPT !.pc = pc, !.intact = @ /\ v = vaults[d]] = j
    BY <2>1 DEF Wrote, JobType
  <2>3. job' = [job EXCEPT ![p] = [job[p] EXCEPT !.pc = pc, !.intact = @ /\ v = vaults[d]]]
    BY <1>3, <2>1
  <2> QED
    BY <1>3, <2>2, <2>3
<1>6. UNCHANGED <<dir, appOpen, cliOpen, begun, edits, acked, noted, foreign, misled>> /\ lock' = ReleasedBy(p)
  BY DEF Returns
<1>7. intact \in BOOLEAN /\ (intact => job[p].intact /\ v = vaults[d])
  BY <1>2, Zenon
<1> HIDE DEF v, intact
<1>8. v.whole => Used(v) < v.chunks
  BY <1>2, <1>4 DEF MInv, Roomy, Used
<1>9. Used(s) < made.chunks
  BY <1>1 DEF MInv, Roomy
<1>10. /\ pc \in Done /\ pc \in {"swap", "reporting"} /\ pc \in Writing \cup Done
      /\ job[p].todo \in SUBSET Files
  BY <1>1, <1>2 DEF Done, SwapPhases
<1>11. /\ j.pc = pc /\ j.snap = s /\ j.made = made /\ j.intact = intact
       /\ j.from = job[p].from /\ j.dst = d /\ j.at = job[p].at
  BY <1>2, <1>7, <1>10, WroteType DEF MInv, TypeOK
<1>12. CopyOf(j, v)
  <2>1. CopyOf(job[p], vaults[d])
    BY DEF MInv, CopySound
  <2>2. /\ made.folders = s.folders /\ made.owner = s.owner /\ made.count > s.count
        /\ \A f \in Files : made.files[f] = s.files[f]
        /\ job[p].intact => vaults[d] = made /\ made.whole
    BY <1>1, <2>1 DEF CopyOf
  <2>3. made.files = s.files
    BY <1>2, <2>2 DEF VaultType
  <2> HIDE DEF j, pc
  <2> QED
    BY <1>7, <1>10, <1>11, <2>2, <2>3 DEF CopyOf, Complete, Done, SwapPhases
<1>13. /\ vaults' \in [Ids -> VaultType] /\ job' \in [Procs -> JobType]
       /\ Roomy' /\ CopySound' /\ Kept'
  <2> HIDE DEF j, pc
  <2>1. job' = [job EXCEPT ![p] = Wrote(job[p], pc, job[p].todo, made, intact)]
    BY <1>5 DEF j
  <2>2. CopyOf(Wrote(job[p], pc, job[p].todo, made, intact), v)
    BY <1>12 DEF j
  <2> QED
    BY <1>1, <1>2, <1>4, <1>5, <1>6, <1>7, <1>9, <1>10, <1>8, <2>1, <2>2, WriteKeeps
<1>14. job'[p] = j /\ \A q \in Procs \ {p} : job'[q] = job[q]
  BY <1>5 DEF MInv, TypeOK
<1>15. TypeOK'
  BY <1>6, <1>13, ReleasedType DEF MInv, TypeOK
<1> HIDE DEF j
<1>16. j.pc \notin Reading \cup {"idle", "opening", "moveOut"} /\ p \in {"app", "cli"} /\ NoProc \notin Procs
  BY <1>11 DEF Reading, Procs, NoProc
<1>17. Owned'
  BY <1>1, <1>6, <1>14, <1>16 DEF ReleasedBy, MInv, TypeOK, Owned, Placed, Reading, Writing, Procs,
     NoProc, JobType
<1>18. Placed'
  BY <1>1, <1>6, <1>11, <1>14 DEF MInv, TypeOK, Placed, Reading, Writing, Done, SwapPhases, Procs,
     Paths, JobType
<1> QED
  BY <1>13, <1>15, <1>17, <1>18 DEF MInv

\* An acknowledged edit of a vault that is open and not the source of the
\* application's migration.
LEMMA EditStep ==
  ASSUME MInv, NEW i \in Ids, NEW f \in Files, Edits(i, f),
         UNCHANGED <<dir, job, foreign, misled>>,
         Used([vaults[i] EXCEPT !.files[f] = 1]) < vaults[i].chunks,
         \A p \in Procs : job[p].pc \in Writing \cup Done => job[p].dst # i,
         dir["src"] = i => job["app"].pc \notin Reading
  PROVE  /\ vaults' \in [Ids -> VaultType] /\ edits' \in 1..MaxEdits
         /\ acked' \in [Files -> 0..MaxEdits] /\ noted' \in Nat
         /\ Roomy' /\ CopySound' /\ Kept'
<1> USE MigrationAssumption
<1> DEFINE fs == [vaults[i].files EXCEPT ![f] = edits + 1]
           v == [vaults[i] EXCEPT !.files = fs, !.count = @ + 1]
<1>1. /\ vaults[i] \in VaultType /\ vaults[i].files \in [Files -> -1..MaxEdits]
      /\ vaults[i].count \in Nat /\ edits \in 1..MaxEdits /\ edits' = edits + 1 /\ edits' \in 1..MaxEdits
  BY DEF Edits, MInv, TypeOK, VaultType
<1>2. fs \in [Files -> -1..MaxEdits]
  BY <1>1
<1>3. vaults' = [vaults EXCEPT ![i] = v]
  BY <1>1 DEF Edits, MInv, TypeOK, VaultType
<1>4. /\ v \in VaultType /\ v.files = fs /\ v.count = vaults[i].count + 1
      /\ v.whole = vaults[i].whole /\ v.chunks = vaults[i].chunks
  <2>1. vaults[i].count + 1 \in Nat
    BY <1>1
  <2> HIDE DEF fs
  <2> QED
    BY <1>1, <1>2, <2>1 DEF VaultType
<1> HIDE DEF v
<1>5. vaults'[i] = v /\ \A k : k # i => vaults'[k] = vaults[k]
  BY <1>3 DEF MInv, TypeOK
<1>6. vaults' \in [Ids -> VaultType]
  BY <1>3, <1>4 DEF MInv, TypeOK
<1>7. \/ /\ dir["src"] = i /\ ~foreign /\ ~misled /\ job["app"].pc \notin SwapPhases
         /\ acked' = [acked EXCEPT ![f] = edits + 1] /\ noted' = vaults[i].count + 1
      \/ acked' = acked /\ noted' = noted
  BY DEF Edits
<1>8. acked' \in [Files -> 0..MaxEdits] /\ noted' \in Nat
  BY <1>1, <1>7 DEF MInv, TypeOK
<1>9. Used(v) < v.chunks
  <2>1. Present(v) = Present([vaults[i] EXCEPT !.files[f] = 1])
    BY <1>1, <1>4 DEF Present, VaultType
  <2> QED
    BY <1>4, <2>1 DEF Used
<1>10. Roomy'
  <2>1. \A k \in Ids : vaults'[k].whole => Used(vaults'[k]) < vaults'[k].chunks
    BY <1>5, <1>9 DEF MInv, Roomy
  <2> QED
    BY <1>5, <2>1 DEF MInv, Roomy, Reading, Writing
<1>11. CopySound'
  <2> SUFFICES ASSUME NEW p \in Procs PROVE CopyOf(job[p], vaults'[job[p].dst])
    BY DEF CopySound
  <2>1. CASE job[p].pc \in Writing \cup Done
    BY <1>5, <2>1 DEF MInv, CopySound
  <2>2. CASE job[p].pc \notin Writing \cup Done
    BY <2>2 DEF CopyOf, Writing, Done
  <2> QED
    BY <2>1, <2>2
<1>12. ASSUME NEW h \in [Files -> 0..MaxEdits], \A g \in Files : h[g] <= edits, Holds(vaults[i], h)
       PROVE  Holds(v, h)
  BY <1>1, <1>4, <1>12 DEF Holds
<1>13. Kept'
  <2>1. acked \in [Files -> 0..MaxEdits] /\ \A g \in Files : acked[g] <= edits
    BY DEF MInv, TypeOK, Kept
  <2>2. \A g \in Files : acked'[g] <= edits'
    BY <1>1, <1>7, <2>1
  <2>3. CASE acked' = acked /\ noted' = noted
    <3>1. noted \in Nat
      BY DEF MInv, TypeOK
    <3>2. UpToDate(vaults[i]) => UpToDate(v)
      BY <1>1, <1>4, <1>12, <2>1, <3>1 DEF UpToDate
    <3>3. vaults[i].whole /\ Holds(vaults[i], acked) => v.whole /\ Holds(v, acked)
      BY <1>4, <1>12, <2>1
    <3>4. /\ \A k : UpToDate(vaults[k]) => UpToDate(vaults'[k])
          /\ \A k : vaults[k].whole /\ Holds(vaults[k], acked) =>
                    vaults'[k].whole /\ Holds(vaults'[k], acked)
      BY <1>5, <3>2, <3>3
    <3>5. UpToDate(vaults[dir["src"]])' <=> UpToDate(vaults'[dir["src"]])
      BY <2>3 DEF UpToDate, Holds
    <3>6. InBackup => InBackup'
      BY <2>3, <3>4 DEF InBackup, Holds
    <3> QED
      BY <2>2, <2>3, <3>4, <3>5, <3>6 DEF MInv, Kept
  <2>4. CASE /\ dir["src"] = i /\ ~foreign /\ ~misled /\ job["app"].pc \notin SwapPhases
             /\ acked' = [acked EXCEPT ![f] = edits + 1] /\ noted' = vaults[i].count + 1
    <3>1. i # NoVault
      BY DEF Ids, NoVault
    <3>2. UpToDate(vaults[i])
      BY <2>4, <3>1 DEF MInv, Kept
    <3>3. \A g \in Files : v.files[g] >= acked'[g]
      BY <1>1, <1>4, <2>1, <2>4, <3>2 DEF UpToDate, Holds
    <3>4. v.whole /\ v.count >= noted'
      BY <1>1, <1>4, <2>4, <3>2 DEF UpToDate
    <3>5. UpToDate(vaults[dir["src"]])'
      BY <1>5, <2>4, <3>3, <3>4 DEF UpToDate, Holds
    <3> QED
      BY <2>2, <2>4, <3>1, <3>5 DEF Kept
  <2> QED
    BY <1>7, <2>3, <2>4
<1> QED
  BY <1>1, <1>6, <1>8, <1>10, <1>11, <1>13

LEMMA AppEditsStep ==
  ASSUME MInv, NEW f \in Files, AppEdits(f)
  PROVE  MInv'
<1>1. /\ appOpen \in Ids /\ appOpen = dir["src"] /\ job["app"].pc = "idle"
      /\ Edits(appOpen, f) /\ Used([vaults[appOpen] EXCEPT !.files[f] = 1]) < vaults[appOpen].chunks
      /\ UNCHANGED <<dir, lock, job, appOpen, cliOpen, begun, foreign, misled>>
  BY DEF AppEdits, MInv, TypeOK, Owned
<1>2. \A p \in Procs : job[p].pc \in Writing \cup Done => job[p].dst # appOpen
  BY <1>1, DstApart
<1>3. job["app"].pc \notin Reading
  BY <1>1 DEF Reading
<1>4. /\ vaults' \in [Ids -> VaultType] /\ edits' \in 1..MaxEdits
      /\ acked' \in [Files -> 0..MaxEdits] /\ noted' \in Nat
      /\ Roomy' /\ CopySound' /\ Kept'
  BY <1>1, <1>2, <1>3, EditStep
<1>5. TypeOK'
  BY <1>1, <1>4 DEF MInv, TypeOK
<1>6. Owned' /\ Placed'
  BY <1>1 DEF MInv, Owned, Placed
<1> QED
  BY <1>4, <1>5, <1>6 DEF MInv

LEMMA CliAddsStep ==
  ASSUME MInv, NEW f \in Files, CliAdds(f)
  PROVE  MInv'
<1>1. /\ cliOpen \in Ids /\ lock[cliOpen] = "cli" /\ job["cli"].pc = "idle"
      /\ Edits(cliOpen, f) /\ Used([vaults[cliOpen] EXCEPT !.files[f] = 1]) < vaults[cliOpen].chunks
      /\ UNCHANGED <<dir, job, appOpen, begun, foreign, misled>>
      /\ cliOpen' = NoVault /\ lock' = ReleasedBy("cli")
  BY DEF CliAdds, MInv, TypeOK, Owned
<1>2. \A p \in Procs : job[p].pc \in Writing \cup Done => job[p].dst # cliOpen
  BY <1>1, DstApart
<1>3. dir["src"] = cliOpen => job["app"].pc \notin Reading
  BY <1>1 DEF MInv, Placed, Owned, Procs
<1>4. /\ vaults' \in [Ids -> VaultType] /\ edits' \in 1..MaxEdits
      /\ acked' \in [Files -> 0..MaxEdits] /\ noted' \in Nat
      /\ Roomy' /\ CopySound' /\ Kept'
  BY <1>1, <1>2, <1>3, EditStep
<1>5. TypeOK'
  BY <1>1, <1>4, ReleasedType DEF MInv, TypeOK, Procs
<1>6. Owned'
  BY <1>1 DEF MInv, TypeOK, Owned, Placed, ReleasedBy, Reading, Writing, Procs, JobType
<1>7. Placed'
  BY <1>1 DEF MInv, TypeOK, Placed, Ids, NoVault, Procs, Writing, Done, SwapPhases
<1> QED
  BY <1>4, <1>5, <1>6, <1>7 DEF MInv

\* A file is created at a path that was free, while no migration writes there.
LEMMA CreateStep ==
  ASSUME MInv, Unused # {}, NEW path \in Paths, dir[path] = NoVault,
         NEW v \in VaultType, vaults' = [vaults EXCEPT ![Fresh] = v],
         dir' = [dir EXCEPT ![path] = Fresh],
         v.whole => Used(v) < v.chunks
  PROVE  /\ vaults' \in [Ids -> VaultType] /\ dir' \in [Paths -> {NoVault} \cup Ids]
         /\ \A p, q \in Paths : p # q /\ dir'[p] # NoVault => dir'[p] # dir'[q]
         /\ \A i \in Ids : vaults'[i].whole => Used(vaults'[i]) < vaults'[i].chunks
         /\ \A p \in Procs : job[p].pc \in Writing \cup Done =>
              job[p].dst # Fresh /\ dir'[job[p].at] = dir[job[p].at]
         /\ cliOpen # Fresh /\ vaults'[Fresh] = v
         /\ \A i : i # Fresh => vaults'[i] = vaults[i]
<1>1. /\ Fresh \in Ids /\ Fresh # NoVault /\ lock[Fresh] = NoProc
      /\ \A p \in Paths : dir[p] # Fresh
  BY FreshIsNew DEF MInv
<1>2. vaults'[Fresh] = v /\ \A i : i # Fresh => vaults'[i] = vaults[i]
  BY <1>1 DEF MInv, TypeOK
<1>3. vaults' \in [Ids -> VaultType]
  BY DEF MInv, TypeOK
<1>4. /\ dir' \in [Paths -> {NoVault} \cup Ids]
      /\ \A p, q \in Paths : p # q /\ dir'[p] # NoVault => dir'[p] # dir'[q]
  BY <1>1 DEF MInv, TypeOK
<1>5. \A i \in Ids : vaults'[i].whole => Used(vaults'[i]) < vaults'[i].chunks
  BY <1>2 DEF MInv, Roomy
<1>6. ASSUME NEW p \in Procs, job[p].pc \in Writing \cup Done
      PROVE  job[p].dst # Fresh /\ dir'[job[p].at] = dir[job[p].at]
  <2>1. job[p].at \in Paths /\ dir[job[p].at] = job[p].dst /\ job[p].dst # NoVault
    BY <1>6 DEF MInv, Placed, TypeOK, JobType
  <2> QED
    BY <1>1, <2>1 DEF MInv, TypeOK
<1>7. cliOpen # Fresh
  BY <1>1 DEF MInv, Owned, NoProc
<1> QED
  BY <1>2, <1>3, <1>4, <1>5, <1>6, <1>7

LEMMA CreatesFileStep ==
  ASSUME MInv, NEW p \in Procs, CreatesFile(p)
  PROVE  MInv'
<1> USE MigrationAssumption
<1> DEFINE s == job[p].snap
           t == Target(job[p].cap, Used(s), s.chunks)
           n == Max({t, 2})
           v == [Blank EXCEPT !.chunks = n]
           j == [job[p] EXCEPT !.pc = "filling", !.dst = Fresh, !.made = v]
<1>1. /\ job[p].pc = "building" /\ dir[job[p].at] = NoVault /\ Unused # {}
      /\ vaults' = [vaults EXCEPT ![Fresh] = v]
      /\ dir' = [dir EXCEPT ![job[p].at] = Fresh]
      /\ lock' = [lock EXCEPT ![Fresh] = p]
      /\ UNCHANGED <<appOpen, cliOpen, begun, edits, acked, noted, foreign, misled>>
  BY DEF CreatesFile
<1>2. job' = [job EXCEPT ![p] = j]
  BY DEF CreatesFile, MInv, TypeOK
<1>3. /\ job[p] \in JobType /\ s \in VaultType /\ job[p].cap \in {Same, Shrink} \cup Exacts
      /\ s.chunks \in Nat /\ job[p].at \in Paths
  BY DEF MInv, TypeOK, JobType, VaultType
<1>4. Used(s) < s.chunks /\ ~Refused(job[p].cap, Used(s)) /\ Used(s) \in Nat
  BY <1>1, UsedIsNat DEF MInv, Roomy, Reading
<1>5. t \in Nat /\ Used(s) < t
  BY <1>3, <1>4, TargetHolds
<1> HIDE DEF t
<1>6. t \in Int /\ 2 \in Int
  BY <1>5
<1>7. n \in {t, 2} /\ n >= t
  BY <1>6, MaxOfTwo
<1> HIDE DEF n
<1>8. n \in Nat /\ Used(s) < n
  BY <1>4, <1>5, <1>7
<1>9. v \in VaultType /\ v.files = NoFiles /\ ~v.whole /\ v.chunks = n
  BY <1>8, BlankType DEF Blank, VaultType
<1> HIDE DEF v
<1>10. /\ Fresh \in Ids /\ Fresh # NoVault /\ lock[Fresh] = NoProc
       /\ \A q \in Paths : dir[q] # Fresh
  BY <1>1, FreshIsNew DEF MInv
<1>11. /\ vaults' \in [Ids -> VaultType] /\ dir' \in [Paths -> {NoVault} \cup Ids]
       /\ \A a, b \in Paths : a # b /\ dir'[a] # NoVault => dir'[a] # dir'[b]
       /\ \A i \in Ids : vaults'[i].whole => Used(vaults'[i]) < vaults'[i].chunks
       /\ \A q \in Procs : job[q].pc \in Writing \cup Done =>
            job[q].dst # Fresh /\ dir'[job[q].at] = dir[job[q].at]
       /\ cliOpen # Fresh /\ vaults'[Fresh] = v
       /\ \A i : i # Fresh => vaults'[i] = vaults[i]
  BY <1>1, <1>3, <1>9, CreateStep
<1>12. /\ j \in JobType /\ j.pc = "filling" /\ j.dst = Fresh /\ j.snap = s /\ j.cap = job[p].cap
       /\ j.from = job[p].from /\ j.at = job[p].at /\ j.made = v
  BY <1>3, <1>9, <1>10 DEF JobType, EnginePhases
<1>13. job' \in [Procs -> JobType] /\ job'[p] = j /\ \A q \in Procs \ {p} : job'[q] = job[q]
  BY <1>2, <1>12 DEF MInv, TypeOK
<1> HIDE DEF j
<1>14. TypeOK'
  BY <1>1, <1>11, <1>13 DEF MInv, TypeOK
<1>15. Owned'
  <2>1. lock'[Fresh] = p /\ \A i : i # Fresh => lock'[i] = lock[i]
    BY <1>1, <1>10 DEF MInv, TypeOK
  <2>2. /\ job[p].from # NoVault /\ lock[job[p].from] = p
    BY <1>1 DEF MInv, Owned, Reading
  <2>3. p \in {"app", "cli"} /\ NoProc \notin Procs
    BY DEF Procs, NoProc
  <2>4. /\ appOpen # NoVault => lock'[appOpen] = "app" /\ job'["app"].pc = "idle"
        /\ cliOpen # NoVault => lock'[cliOpen] = "cli" /\ job'["cli"].pc = "idle"
    BY <1>1, <1>10, <1>13, <2>1, <2>3 DEF MInv, Owned, Procs
  <2>5. \A q \in Procs : job'[q].pc \in Reading => job'[q].from # NoVault /\ lock'[job'[q].from] = q
    BY <1>10, <1>12, <1>13, <2>1, <2>2, <2>3 DEF MInv, Owned
  <2>6. \A q \in Procs : job'[q].pc \in Writing => lock'[job'[q].dst] = q
    BY <1>11, <1>12, <1>13, <2>1 DEF MInv, Owned
  <2> QED
    BY <1>1, <2>4, <2>5, <2>6 DEF Owned
<1>16. Placed'
  <2>1. \A q \in Procs : job'[q].pc \in Writing \cup Done =>
          job'[q].dst # NoVault /\ dir'[job'[q].at] = job'[q].dst
    BY <1>1, <1>3, <1>10, <1>11, <1>12, <1>13 DEF MInv, Placed, TypeOK
  <2>2. /\ job'["app"].pc # "idle" => job'["app"].at \in {"temp", "awayTemp"}
        /\ job'["cli"].pc # "idle" => job'["cli"].at = "away"
        /\ job'["app"].pc # "reporting" /\ job'["cli"].pc \notin SwapPhases
    BY <1>1, <1>12, <1>13 DEF MInv, Placed, Procs, SwapPhases
  <2>3. job[p].at # "src"
    BY <1>1 DEF MInv, Placed, Procs
  <2>4. dir'["src"] = dir["src"]
    BY <1>1, <2>3 DEF MInv, TypeOK, Paths
  <2>5. job'["app"].pc \in Reading \cup {"swap", "moveOut"} =>
          dir'["src"] = job'["app"].from /\ dir'["src"] # NoVault
    BY <1>1, <1>12, <1>13, <2>4 DEF MInv, Placed, Procs, Reading
  <2>6. job'["app"].pc \in Writing \cup Done => cliOpen # job'["app"].dst
    BY <1>11, <1>12, <1>13 DEF MInv, Placed, Procs
  <2>7. \A q \in Procs : job'[q].pc \in {"opening", "building"} => job'[q].dst = NoVault
    BY <1>1, <1>12, <1>13 DEF MInv, Placed
  <2> QED
    BY <1>1, <2>1, <2>2, <2>5, <2>6, <2>7 DEF Placed
<1>17. Roomy'
  <2>1. \A q \in Procs : job'[q].pc \in Reading =>
          /\ Used(job'[q].snap) < job'[q].snap.chunks
          /\ ~Refused(job'[q].cap, Used(job'[q].snap))
    BY <1>4, <1>12, <1>13 DEF MInv, Roomy
  <2>2. \A q \in Procs : job'[q].pc \in Writing => Used(job'[q].snap) < job'[q].made.chunks
    BY <1>8, <1>9, <1>11, <1>12, <1>13 DEF MInv, Roomy
  <2> QED
    BY <1>11, <2>1, <2>2 DEF Roomy
<1>18. CopySound'
  <2>1. CopyOf(job'[p], vaults'[job'[p].dst])
    BY <1>9, <1>11, <1>12, <1>13 DEF CopyOf, Done, SwapPhases
  <2>2. ASSUME NEW q \in Procs \ {p} PROVE CopyOf(job'[q], vaults'[job'[q].dst])
    <3>1. CASE job[q].pc \in Writing \cup Done
      BY <1>11, <1>13, <3>1 DEF MInv, CopySound
    <3>2. CASE job[q].pc \notin Writing \cup Done
      BY <1>13, <3>2 DEF CopyOf, Writing, Done
    <3> QED
      BY <3>1, <3>2
  <2> QED
    BY <2>1, <2>2 DEF CopySound
<1>19. Kept'
  <2>1. job[p].at \notin {"src", "bak"}
    BY <1>1 DEF MInv, Placed, Procs
  <2>2. dir'["src"] = dir["src"] /\ dir'["bak"] = dir["bak"]
    BY <1>1, <2>1 DEF MInv, TypeOK, Paths
  <2>3. vaults'[dir["src"]] = vaults[dir["src"]] /\ vaults'[dir["bak"]] = vaults[dir["bak"]]
    BY <1>10, <1>11 DEF Paths
  <2>4. job'["app"].pc \in Reading \cup SwapPhases =>
          job["app"].pc \in Reading \cup SwapPhases /\ job'["app"].snap = job["app"].snap
    BY <1>1, <1>12, <1>13 DEF Procs, Reading, SwapPhases
  <2> QED
    BY <1>1, <2>2, <2>3, <2>4 DEF MInv, Kept, InBackup, UpToDate
<1> QED
  BY <1>14, <1>15, <1>16, <1>17, <1>18, <1>19 DEF MInv

\* A new vault under the name, once it is free.
LEMMA TakesNameStep ==
  ASSUME MInv, NEW owner \in {Owner, Anonymous}, NEW whole \in BOOLEAN, TakesName(owner, whole)
  PROVE  /\ vaults' \in [Ids -> VaultType] /\ dir' \in [Paths -> {NoVault} \cup Ids]
         /\ \A p, q \in Paths : p # q /\ dir'[p] # NoVault => dir'[p] # dir'[q]
         /\ Placed' /\ Roomy' /\ CopySound' /\ Kept'
<1> USE MigrationAssumption
<1> DEFINE v == NewVault(owner, whole)
<1>1. /\ dir["src"] = NoVault /\ Unused # {} /\ "src" \in Paths
      /\ vaults' = [vaults EXCEPT ![Fresh] = v] /\ dir' = [dir EXCEPT !["src"] = Fresh]
      /\ foreign' = TRUE
      /\ UNCHANGED <<job, cliOpen, begun, edits, acked, noted, misled>>
  BY DEF TakesName, Paths
<1>2. v \in VaultType /\ v.files = NoFiles /\ v.chunks = SrcChunks
  BY BlankType DEF NewVault, Blank, VaultType
<1>3. SrcChunks \in Nat /\ SrcChunks > 0
  BY FS_CardinalityType
<1> HIDE DEF v
<1>4. Used(v) < v.chunks
  BY <1>2, <1>3, NoneUsed
<1>5. /\ vaults' \in [Ids -> VaultType] /\ dir' \in [Paths -> {NoVault} \cup Ids]
      /\ \A a, b \in Paths : a # b /\ dir'[a] # NoVault => dir'[a] # dir'[b]
      /\ \A i \in Ids : vaults'[i].whole => Used(vaults'[i]) < vaults'[i].chunks
      /\ \A q \in Procs : job[q].pc \in Writing \cup Done =>
           job[q].dst # Fresh /\ dir'[job[q].at] = dir[job[q].at]
      /\ cliOpen # Fresh /\ vaults'[Fresh] = v
      /\ \A i : i # Fresh => vaults'[i] = vaults[i]
  BY <1>1, <1>2, <1>4, CreateStep
<1>6. Placed'
  BY <1>1, <1>5 DEF MInv, Placed
<1>7. Roomy'
  BY <1>1, <1>5 DEF MInv, Roomy, Writing, Done
<1>8. CopySound'
  <2> SUFFICES ASSUME NEW q \in Procs PROVE CopyOf(job[q], vaults'[job[q].dst])
    BY <1>1 DEF CopySound
  <2>1. CASE job[q].pc \in Writing \cup Done
    BY <1>5, <2>1 DEF MInv, CopySound
  <2>2. CASE job[q].pc \notin Writing \cup Done
    BY <2>2 DEF CopyOf, Writing, Done
  <2> QED
    BY <2>1, <2>2
<1>9. Kept'
  BY <1>1 DEF MInv, Kept
<1> QED
  BY <1>1, <1>5, <1>6, <1>7, <1>8, <1>9 DEF MInv

LEMMA AppCreatesStep ==
  ASSUME MInv, NEW owner \in {Owner, Anonymous}, NEW whole \in BOOLEAN, AppCreates(owner, whole)
  PROVE  MInv'
<1>1. /\ TakesName(owner, whole) /\ Unused # {} /\ job["app"].pc = "idle" /\ appOpen = NoVault
      /\ UNCHANGED <<job, cliOpen, begun, edits, acked, noted, misled>> /\ foreign' = TRUE
  BY DEF AppCreates, TakesName, AppIdle
<1>2. /\ vaults' \in [Ids -> VaultType] /\ dir' \in [Paths -> {NoVault} \cup Ids]
      /\ \A p, q \in Paths : p # q /\ dir'[p] # NoVault => dir'[p] # dir'[q]
      /\ Placed' /\ Roomy' /\ CopySound' /\ Kept'
  BY <1>1, TakesNameStep DEF MInv, Placed
<1>3. \/ appOpen' = Fresh /\ lock' = [lock EXCEPT ![Fresh] = "app"]
      \/ appOpen' = appOpen /\ lock' = lock
  BY DEF AppCreates
<1>4. Fresh \in Ids /\ lock[Fresh] = NoProc
  BY <1>1, FreshIsNew DEF MInv
<1>5. TypeOK'
  BY <1>1, <1>2, <1>3, <1>4 DEF MInv, TypeOK, Procs
<1>6. Owned'
  BY <1>1, <1>3, <1>4 DEF MInv, TypeOK, Owned, Placed, Procs, NoProc, JobType
<1> QED
  BY <1>2, <1>5, <1>6 DEF MInv

LEMMA CliInitsStep ==
  ASSUME MInv, NEW whole \in BOOLEAN, CliInits(whole)
  PROVE  MInv'
<1>1. /\ TakesName(Anonymous, whole) /\ UNCHANGED <<appOpen, lock>>
      /\ UNCHANGED <<job, cliOpen, begun, edits, acked, noted, misled>> /\ foreign' = TRUE
  BY DEF CliInits, TakesName
<1>2. /\ vaults' \in [Ids -> VaultType] /\ dir' \in [Paths -> {NoVault} \cup Ids]
      /\ \A p, q \in Paths : p # q /\ dir'[p] # NoVault => dir'[p] # dir'[q]
      /\ Placed' /\ Roomy' /\ CopySound' /\ Kept'
  BY <1>1, TakesNameStep DEF MInv, Placed
<1>3. TypeOK' /\ Owned'
  BY <1>1, <1>2 DEF MInv, TypeOK, Owned
<1> QED
  BY <1>2, <1>3 DEF MInv

\* A destination under construction is no vault anybody relies on.
LEMMA PowerLossStep ==
  ASSUME MInv, PowerLoss
  PROVE  MInv'
<1> USE MigrationAssumption
<1>1. PICK T \in SUBSET {job[p].dst : p \in {q \in Procs : job[q].pc \in EnginePhases}} :
        vaults' = [i \in Ids |-> IF i \in T THEN [vaults[i] EXCEPT !.whole = FALSE] ELSE vaults[i]]
  BY DEF PowerLoss
<1>2. /\ lock' = [i \in Ids |-> NoProc] /\ job' = [p \in Procs |-> NoJob]
      /\ appOpen' = NoVault /\ cliOpen' = NoVault
      /\ UNCHANGED <<dir, begun, edits, acked, noted, foreign, misled>>
  BY DEF PowerLoss
<1>3. \A p \in Procs : job'[p] = NoJob /\ job'[p].pc = "idle"
  BY <1>2 DEF NoJob
<1>4. ASSUME NEW i \in Ids
      PROVE  /\ vaults'[i] \in VaultType
             /\ vaults'[i].files = vaults[i].files /\ vaults'[i].count = vaults[i].count
             /\ vaults'[i].chunks = vaults[i].chunks
             /\ vaults'[i].whole => vaults[i].whole
             /\ i \notin T => vaults'[i] = vaults[i]
  <2>1. vaults[i] \in VaultType
    BY DEF MInv, TypeOK
  <2>2. vaults'[i] = IF i \in T THEN [vaults[i] EXCEPT !.whole = FALSE] ELSE vaults[i]
    BY <1>1
  <2> QED
    BY <2>1, <2>2 DEF VaultType
<1>5. TypeOK'
  <2>1. vaults' \in [Ids -> VaultType]
    BY <1>1, <1>4
  <2>2. job' \in [Procs -> JobType]
    BY <1>2, BlankType
  <2> QED
    BY <1>2, <2>1, <2>2 DEF MInv, TypeOK
<1>6. Owned' /\ Placed' /\ CopySound'
  BY <1>2, <1>3 DEF Owned, Placed, CopySound, CopyOf, Reading, Writing, Done, SwapPhases, Procs
<1>7. Roomy'
  <2>1. \A i \in Ids : Used(vaults'[i]) = Used(vaults[i])
    BY <1>4 DEF Used, Present
  <2> QED
    BY <1>3, <1>4, <2>1 DEF MInv, Roomy, Reading, Writing
<1>8. Kept'
  <2>1. ASSUME NEW a \in {"src", "bak"}, dir[a] # NoVault PROVE dir[a] \in Ids /\ dir[a] \notin T
    <3>1. dir[a] \in Ids
      BY <2>1 DEF MInv, TypeOK, Paths
    <3>2. ASSUME NEW p \in Procs, job[p].pc \in EnginePhases PROVE dir[a] # job[p].dst
      <4>1. CASE job[p].pc \in Writing
        BY <2>1, <4>1, DstApart
      <4>2. CASE job[p].pc \in {"opening", "building"}
        BY <2>1, <4>2 DEF MInv, Placed
      <4> QED
        BY <3>2, <4>1, <4>2 DEF EnginePhases, Writing
    <3> QED
      BY <3>1, <3>2
  <2>2. \A a \in {"src", "bak"} : dir[a] # NoVault => vaults'[dir[a]] = vaults[dir[a]]
    BY <1>4, <2>1
  <2> QED
    BY <1>2, <1>3, <2>2 DEF MInv, Kept, InBackup, UpToDate, Reading, SwapPhases, Procs
<1> QED
  BY <1>5, <1>6, <1>7, <1>8 DEF MInv

(***************************************************************************)
(* The invariant                                                           *)
(***************************************************************************)
LEMMA InitMInv == Init => MInv
<1> SUFFICES ASSUME Init PROVE MInv
  OBVIOUS
<1> USE MigrationAssumption
<1> DEFINE v(P) == [files |-> [f \in Files |-> IF f \in P THEN 1 ELSE 0], folders |-> Folders,
                    owner |-> Owner, count |-> SrcCount, chunks |-> SrcChunks, whole |-> TRUE]
<1>1. PICK P \in SUBSET Files : vaults = [i \in Ids |-> IF i = 1 THEN v(P) ELSE Blank]
  BY DEF Init
<1>2. /\ misled = FALSE
      /\ dir = [p \in Paths |-> IF p = "src" THEN 1 ELSE NoVault]
      /\ lock = [i \in Ids |-> NoProc] /\ job = [p \in Procs |-> NoJob]
      /\ appOpen = NoVault /\ cliOpen = NoVault /\ begun = 0
      /\ edits = 1 /\ acked = vaults[1].files /\ noted = SrcCount /\ foreign = FALSE
  BY DEF Init
<1>3. 1 \in Ids /\ vaults[1] = v(P) /\ \A i \in Ids \ {1} : vaults[i] = Blank
  BY <1>1 DEF Ids
<1>4. v(P) \in VaultType
  BY DEF VaultType
<1>5. acked = [f \in Files |-> IF f \in P THEN 1 ELSE 0]
  BY <1>2, <1>3
<1>6. \A p \in Procs : job[p] = NoJob /\ job[p].pc = "idle"
  BY <1>2 DEF NoJob
<1>7. dir["src"] = 1 /\ \A p \in Paths \ {"src"} : dir[p] = NoVault
  BY <1>2 DEF Paths
<1>8. TypeOK
  <2>1. vaults \in [Ids -> VaultType]
    BY <1>1, <1>4, BlankType
  <2>2. job \in [Procs -> JobType]
    BY <1>2, BlankType
  <2>3. acked \in [Files -> 0..MaxEdits]
    BY <1>5
  <2>4. dir \in [Paths -> {NoVault} \cup Ids] /\ lock \in [Ids -> Procs \cup {NoProc}]
    BY <1>2, <1>3
  <2>5. \A p, q \in Paths : p # q /\ dir[p] # NoVault => dir[p] # dir[q]
    BY <1>7 DEF NoVault
  <2>6. {appOpen, cliOpen} \subseteq {NoVault} \cup Ids /\ {foreign, misled} \subseteq BOOLEAN
    BY <1>2
  <2>7. begun \in 0..MaxBegun /\ edits \in 1..MaxEdits /\ noted \in Nat
    BY <1>2
  <2> QED
    BY <2>1, <2>2, <2>3, <2>4, <2>5, <2>6, <2>7 DEF TypeOK
<1>9. Owned /\ Placed /\ CopySound
  BY <1>2, <1>6 DEF Owned, Placed, CopySound, CopyOf, Reading, Writing, Done, SwapPhases, Procs
<1>10. Roomy
  <2>1. Used(v(P)) <= Cardinality(Files) /\ Used(v(P)) \in Nat /\ Cardinality(Files) \in Nat
    BY UsedIsNat, FS_Subset, FS_CardinalityType DEF Used
  <2>2. v(P).chunks = SrcChunks /\ ~Blank.whole
    BY DEF Blank
  <2> QED
    BY <1>3, <1>6, <2>1, <2>2 DEF Roomy, Reading, Writing
<1>11. Kept
  BY <1>2, <1>3, <1>5, <1>6, <1>7 DEF Kept, InBackup, UpToDate, Holds, Reading, SwapPhases, Procs, NoVault
<1> QED
  BY <1>8, <1>9, <1>10, <1>11 DEF MInv

LEMMA StutterStep == ASSUME MInv, UNCHANGED vars PROVE MInv'
<1>1. \A p \in Procs : CopyOf(job'[p], vaults'[job'[p].dst]) <=> CopyOf(job[p], vaults[job[p].dst])
  BY DEF vars
<1>2. CopySound'
  BY <1>1 DEF MInv, CopySound
<1>3. Used(job'["app"].snap) = Used(job["app"].snap)
  BY DEF vars
<1> QED
  BY <1>2 DEF MInv, TypeOK, Owned, Placed, Roomy, Kept, InBackup, UpToDate, vars

LEMMA NextMInv == MInv /\ [Next]_vars => MInv'
<1> SUFFICES ASSUME MInv, [Next]_vars PROVE MInv'
  OBVIOUS
<1>1. ASSUME NEW p \in Procs, Engine(p) \/ Kill(p) PROVE MInv'
  BY <1>1, OpensSourceStep, CreatesFileStep, FillsStep, CarriesStep, ReturnsStep, FailsStep,
     CopiesFileStep, VerifiesFileStep, KillStep DEF Engine
<1>2. CASE AppGivesUp \/ Swap
  <2>1. ASSUME Discards, job["app"].pc # "idle" PROVE MInv'
    BY <2>1, DiscardsStep
  <2>2. AppGivesUp \/ SwapFails => Discards /\ job["app"].pc # "idle"
    BY DEF AppGivesUp, SwapFails
  <2> QED
    BY <1>2, <2>1, <2>2, SwapClearsBackupStep, SwapMovesOutStep, SwapMovesInStep, MovesAwayStep
       DEF Swap
<1>3. ASSUME NEW p \in {"src", "away"}, AppOpens(p) PROVE MInv'
  BY <1>3, AppOpensStep
<1>4. CASE AppCloses \/ AppDiscardsStale \/ CliOpens \/ CliCleansUp \/ CliReports \/ PowerLoss
  BY <1>4, AppClosesStep, AppDiscardsStaleStep, CliOpensStep, CliCleansUpStep, CliReportsStep,
     PowerLossStep
<1>5. ASSUME NEW f \in Files, AppEdits(f) \/ CliAdds(f) PROVE MInv'
  BY <1>5, AppEditsStep, CliAddsStep
<1>6. ASSUME NEW away \in BOOLEAN, NEW cap \in {Same, Shrink}, AppMigrates(away, cap) PROVE MInv'
  BY <1>6, AppMigratesStep
<1>7. ASSUME NEW cap \in {Same, Shrink} \cup Exacts, CliMigrates(cap) PROVE MInv'
  BY <1>7, CliMigratesStep
<1>8. ASSUME NEW owner \in {Owner, Anonymous}, NEW whole \in BOOLEAN, AppCreates(owner, whole)
      PROVE  MInv'
  BY <1>8, AppCreatesStep
<1>9. ASSUME NEW whole \in BOOLEAN, CliInits(whole) PROVE MInv'
  BY <1>9, CliInitsStep
<1> QED
  BY <1>1, <1>2, <1>3, <1>4, <1>5, <1>6, <1>7, <1>8, <1>9, StutterStep DEF Next

LEMMA AlwaysMInv == Spec => []MInv
<1> QED
  BY InitMInv, NextMInv, PTL DEF Spec

(***************************************************************************)
(* The theorems                                                            *)
(***************************************************************************)
\* The variables keep their types, and no two paths ever name the same file:
\* the moves of the swap rename, and a new file is created where there is none.
THEOREM MigrationTypes == Spec => []TypeOK
<1>1. MInv => TypeOK
  BY DEF MInv
<1> QED
  BY <1>1, AlwaysMInv, PTL

\* When migrate_vault returns Ok, what its session read back is a full copy of
\* what was read under the lock, with a counter past it: the comparison of the
\* hashes catches damaged content.  The file shows that copy when the header, the
\* last manifest and the sync after the read-back, which nothing reads again,
\* were undamaged: earlier manifests do not matter.
THEOREM CopyIsComplete == Spec => []OkMeansCopied
<1>1. MInv => OkMeansCopied
  <2> SUFFICES ASSUME MInv, NEW p \in Procs, job[p].pc \in Done
               PROVE  /\ Complete(job[p].made, job[p].snap)
                      /\ job[p].intact => /\ vaults[job[p].dst].whole
                                          /\ Complete(vaults[job[p].dst], job[p].snap)
    BY DEF OkMeansCopied, Done
  <2> QED
    BY DEF MInv, CopySound, CopyOf
<1> QED
  BY <1>1, AlwaysMInv, PTL

\* The capacity migrate_vault computes, in any of its three modes, has room for
\* the contents and the manifest; the copy never stops for want of it.
THEOREM CopyFits == Spec => []CopyAlwaysFits
<1>1. ASSUME MInv, NEW p \in Procs, job[p].pc = "copying", job[p].todo # {}
      PROVE  HasRoom(job[p].made)
  <2> DEFINE s == job[p].snap
             d == job[p].made
  <2>1. /\ \A f \in Files : f \in job[p].todo \/ f \notin Present(s) => d.files[f] = 0
        /\ job[p].todo \subseteq Present(s)
    BY <1>1 DEF MInv, CopySound, CopyOf
  <2>2. Present(d) \subseteq Present(s) /\ Present(d) # Present(s)
    BY <1>1, <2>1 DEF Present
  <2>3. Used(d) < Used(s) /\ Used(d) \in Nat /\ Used(s) \in Nat
    BY <2>2, UsedMonotone, UsedIsNat
  <2>4. Used(s) < d.chunks
    BY <1>1 DEF MInv, Roomy, Writing
  <2>5. d.chunks \in Nat
    BY <1>1 DEF MInv, TypeOK, JobType, VaultType
  <2> QED
    BY <2>3, <2>4, <2>5 DEF HasRoom
<1>2. MInv => CopyAlwaysFits
  BY <1>1 DEF CopyAlwaysFits
<1> QED
  BY <1>2, AlwaysMInv, PTL

\* Through errors, failed moves, crashes and damaged copies, one file at the
\* vault's path or its .bak opens and holds every edit acknowledged in time, until
\* a new vault takes the name or the .bak of a damaged copy is removed.
THEOREM CopySurvives == Spec => []OneCopySurvives
<1>1. MInv => OneCopySurvives
  BY DEF MInv, Kept, InBackup, UpToDate, OneCopySurvives
<1> QED
  BY <1>1, AlwaysMInv, PTL

\* What opens under the vault's own name is never an older or unfinished state
\* of it, until a copy damaged where nothing reads it back takes the name: the
\* swap happens under a name nobody edits in the meantime.
THEOREM NameIsCurrent == Spec => []NameNeverStale
<1>1. MInv => NameNeverStale
  BY DEF MInv, Kept, InBackup, UpToDate, NameNeverStale
<1> QED
  BY <1>1, AlwaysMInv, PTL
=============================================================================
