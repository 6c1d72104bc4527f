----------------------------- MODULE VaultProofs -----------------------------
(***************************************************************************)
(* Theorems about VaultEngine, for every number of names, chunks, faults   *)
(* and operations: its types, the invariant Inductive and the safety       *)
(* properties it implies, and that VaultEngine implements VaultStore.      *)
(***************************************************************************)
EXTENDS VaultInvariant, VaultRefinement, SequenceTheorems, FiniteSetTheorems,
        TLAPS

USE DEF Manifest, Block

(***************************************************************************)
(* Manifests and chunk lists                                               *)
(***************************************************************************)
LEMMA ListOfFunction ==
  ASSUME NEW T, NEW k \in Nat, NEW f \in [1..k -> T]
  PROVE  f \in Seq(T) /\ Len(f) = k
<1>1. f \in Seq(T)  BY SeqDef
<1>2. QED  BY <1>1, LenProperties

LEMMA EmptyManifestType == EmptyManifest \in Manifest
BY EmptySeq DEF EmptyManifest

LEMMA ListedType ==
  ASSUME NEW m \in Manifest, NEW n \in Names
  PROVE  Listed(m, n) \subseteq Chunks
BY ElementOfSeq DEF Listed

LEMMA ListedInUnion ==
  ASSUME NEW m \in Manifest, NEW S \in SUBSET Names
  PROVE  UNION {Listed(m, n) : n \in S} \in SUBSET Chunks
<1>1. ASSUME NEW c \in UNION {Listed(m, n) : n \in S}  PROVE c \in Chunks
  <2>1. PICK n \in S : c \in Listed(m, n)  OBVIOUS
  <2>2. QED  BY <2>1, ListedType
<1>2. QED  BY <1>1

LEMMA UpsertType ==
  ASSUME NEW m \in Manifest, NEW n \in Names, NEW list \in Seq(Chunks)
  PROVE  Upsert(m, n, list) \in Manifest
BY DEF Upsert

LEMMA RemoveType ==
  ASSUME NEW m \in Manifest, NEW S \in SUBSET Names
  PROVE  Remove(m, S) \in Manifest
<1>1. IsFiniteSet(S \cap m.names)  BY FolderAssumption, FS_Subset
<1>2. Cardinality(S \cap m.names) \in Nat  BY <1>1, FS_CardinalityType
<1>3. [n \in Names |-> IF n \in S THEN <<>> ELSE m.chunks[n]] \in [Names -> Seq(Chunks)]
  BY EmptySeq
<1>4. QED  BY <1>2, <1>3 DEF Remove

LEMMA ExtendType ==
  ASSUME NEW old \in Seq(Chunks), NEW keep \in 0..Len(old), NEW len \in Nat,
         NEW fresh \in [(keep + 1)..len -> Chunks]
  PROVE  Extend(old, keep, len, fresh) \in [1..len -> Chunks]
<1>1. ASSUME NEW i \in 1..len
      PROVE  (IF i <= keep THEN old[i] ELSE fresh[i]) \in Chunks
  <2>1. CASE i <= keep  BY <2>1, ElementOfSeq, LenProperties
  <2>2. CASE ~(i <= keep)  BY <2>2, LenProperties
  <2>3. QED  BY <2>1, <2>2
<1>2. QED  BY <1>1 DEF Extend

LEMMA AllocType ==
  ASSUME NEW from, NEW to, NEW f \in Alloc(from, to)
  PROVE  /\ f \in [from..to -> Chunks]
         /\ \A i \in from..to : f[i] \notin Owned(live) \cup {MC}
         /\ \A i, j \in from..to : f[i] = f[j] => i = j
BY DEF Alloc, Free

(***************************************************************************)
(* Type correctness, one lemma per way a mutation starts                   *)
(***************************************************************************)
LEMMA BeginType ==
  ASSUME TypeOK, NEW S \in SUBSET Names, NEW js \in SUBSET Job, NEW ss \in SUBSET Chunks,
         NEW m \in Manifest, NEW g \in [Names -> Seq(Block)], Begin(S, js, ss, m, g)
  PROVE  TypeOK'
<1>1. Owned(live) \subseteq Chunks  BY ListedInUnion DEF Owned, TypeOK
<1>2. Phase(js, ss) \in {"idle", "fresh", "shred", "manifest", "sync"}  BY DEF Phase
<1>3. QED
  BY <1>1, <1>2 DEF TypeOK, Begin, diskVars, mediaVars, promiseVars

LEMMA DataIsBlock ==
  ASSUME NEW k \in Nat, NEW d \in [1..k -> Data]
  PROVE  d \in Seq(Block) /\ Len(d) = k
<1>1. d \in [1..k -> Block]  OBVIOUS
<1>2. QED  BY <1>1, ListOfFunction

LEMMA AddFileType ==
  ASSUME TypeOK, NEW n \in Names, NEW d \in Contents, AddFile(n, d)
  PROVE  TypeOK'
<1> DEFINE old == live.chunks[n]
           keep == IF Len(old) < Len(d) THEN Len(old) ELSE Len(d)
<1>1. PICK k \in Nat : d \in [1..k -> Data]  BY BoundAssumption DEF Contents
<1>2. d \in Seq(Block) /\ Len(d) = k  BY <1>1, DataIsBlock
<1>3. old \in Seq(Chunks) /\ Len(old) \in Nat  BY LenProperties DEF TypeOK
<1>4. PICK fresh \in Alloc(keep + 1, Len(d)) :
        LET list == Extend(old, keep, Len(d), fresh)
        IN  Begin({n},
                  {[to |-> list[i], from |-> NoChunk, val |-> d[i]] : i \in 1..Len(d)},
                  {old[i] : i \in (Len(d) + 1)..Len(old)},
                  Upsert(live, n, list), Only(n, d))
  BY DEF AddFile
<1> DEFINE list == Extend(old, keep, Len(d), fresh)
<1>5. keep \in 0..Len(old)  BY <1>2, <1>3
<1>6. list \in [1..k -> Chunks]  BY <1>2, <1>3, <1>4, <1>5, ExtendType, AllocType
<1>7. Upsert(live, n, list) \in Manifest
  BY <1>1, <1>6, ListOfFunction, UpsertType DEF TypeOK
<1>8. {[to |-> list[i], from |-> NoChunk, val |-> d[i]] : i \in 1..Len(d)} \in SUBSET Job
  BY <1>1, <1>2, <1>6, BlockAssumption DEF Job
<1>9. {old[i] : i \in (Len(d) + 1)..Len(old)} \in SUBSET Chunks
  BY <1>1, <1>2, <1>3, ElementOfSeq
<1>10. Only(n, d) \in [Names -> Seq(Block)]  BY <1>2 DEF Only, TypeOK
<1>11. QED  BY <1>4, <1>7, <1>8, <1>9, <1>10, BeginType

LEMMA CreateFileType ==
  ASSUME TypeOK, NEW n \in Names, CreateFile(n)
  PROVE  TypeOK'
<1>1. Upsert(live, n, <<>>) \in Manifest  BY EmptySeq, UpsertType DEF TypeOK
<1>2. Only(n, <<>>) \in [Names -> Seq(Block)]  BY EmptySeq DEF Only, TypeOK
<1>3. QED  BY <1>1, <1>2, BeginType DEF CreateFile

LEMMA WriteRangeType ==
  ASSUME TypeOK, NEW n \in Names, NEW lo \in 1..MaxLen, NEW hi \in lo..MaxLen, NEW v \in Data,
         WriteRange(n, lo, hi, v)
  PROVE  TypeOK'
<1> DEFINE old == live.chunks[n]
           len == IF hi < Len(old) THEN Len(old) ELSE hi
           g == [i \in 1..len |-> IF i \in lo..hi THEN v
                                  ELSE IF i > Len(old) THEN Zero ELSE disk[old[i]]]
<1>1. old \in Seq(Chunks) /\ Len(old) \in Nat  BY LenProperties DEF TypeOK
<1>2. len \in Nat /\ lo \in Nat /\ hi \in Nat /\ lo >= 1 /\ Len(old) <= len
  BY <1>1, BoundAssumption
<1>3. PICK first \in FirstDirty(old, lo) : \E fresh \in Alloc(first, len) :
        LET list == Extend(old, first - 1, len, fresh)
        IN  Begin({n}, {WriteJob(list, old, lo, hi, v, i) : i \in first..len},
                  Displaced(old, first), Upsert(live, n, list), Only(n, g))
  BY DEF WriteRange
<1>4. first \in 1..(Len(old) + 1)
  BY <1>1, <1>2, <1>3 DEF FirstDirty
<1>5. PICK fresh \in Alloc(first, len) :
        LET list == Extend(old, first - 1, len, fresh)
        IN  Begin({n}, {WriteJob(list, old, lo, hi, v, i) : i \in first..len},
                  Displaced(old, first), Upsert(live, n, list), Only(n, g))
  BY <1>3
<1> DEFINE list == Extend(old, first - 1, len, fresh)
<1>6. list \in [1..len -> Chunks]
  <2>1. first - 1 \in 0..Len(old) /\ (first - 1) + 1 = first  BY <1>1, <1>4
  <2>2. QED  BY <2>1, <1>1, <1>2, <1>5, ExtendType, AllocType
<1>7. Upsert(live, n, list) \in Manifest
  BY <1>2, <1>6, ListOfFunction, UpsertType DEF TypeOK
<1>8. {WriteJob(list, old, lo, hi, v, i) : i \in first..len} \in SUBSET Job
  <2>1. ASSUME NEW i \in first..len  PROVE WriteJob(list, old, lo, hi, v, i) \in Job
    <3>1. i \in 1..len /\ list[i] \in Chunks  BY <1>1, <1>2, <1>4, <1>6
    <3>2. CASE i <= Len(old)
      <4>1. old[i] \in Chunks /\ old[i] # NoChunk
        BY <3>1, <3>2, <1>1, <1>2, ElementOfSeq, ChunkAssumption
      <4>2. QED  BY <3>1, <3>2, <4>1, <1>1, <1>2 DEF WriteJob, Job
    <3>3. CASE ~(i <= Len(old))
      BY <3>1, <3>3, <1>1, <1>2, BlockAssumption DEF WriteJob, Job
    <3>4. QED  BY <3>2, <3>3
  <2>2. QED  BY <2>1
<1>9. Displaced(old, first) \in SUBSET Chunks
  BY <1>1, <1>4, ElementOfSeq DEF Displaced
<1>10. g \in [1..len -> Block]
  <2>1. ASSUME NEW i \in 1..len
        PROVE  (IF i \in lo..hi THEN v ELSE IF i > Len(old) THEN Zero ELSE disk[old[i]]) \in Block
    <3>1. CASE i <= Len(old)
      <4>1. old[i] \in Chunks  BY <3>1, <1>1, <1>2, ElementOfSeq
      <4>2. QED  BY <3>1, <4>1, <1>1, <1>2 DEF TypeOK
    <3>2. CASE ~(i <= Len(old))  BY <3>2, <1>1, <1>2, BlockAssumption
    <3>3. QED  BY <3>1, <3>2
  <2>2. QED  BY <2>1
<1>11. Only(n, g) \in [Names -> Seq(Block)]
  <2>1. g \in Seq(Block)
    <3> HIDE DEF g, len
    <3>1. QED  BY <1>2, <1>10, ListOfFunction
  <2>2. want \in [Names -> Seq(Block)]
    BY DEF TypeOK
  <2> HIDE DEF g
  <2>3. QED  BY <2>1, <2>2 DEF Only
<1>12. QED  BY <1>5, <1>7, <1>8, <1>9, <1>11, BeginType

LEMMA ReadType ==
  ASSUME TypeOK, NEW list \in Seq(Chunks)
  PROVE  Read(list) \in Seq(Block) /\ Len(Read(list)) = Len(list)
<1>1. Len(list) \in Nat  BY LenProperties
<1>2. Read(list) \in [1..Len(list) -> Block]
  BY ElementOfSeq DEF Read, TypeOK
<1>3. QED  BY <1>1, <1>2, ListOfFunction

LEMMA TruncateAlignedType ==
  ASSUME TypeOK, NEW n \in Names, NEW k \in 0..MaxLen, TruncateAligned(n, k)
  PROVE  TypeOK'
<1> DEFINE old == live.chunks[n]
<1>1. old \in Seq(Chunks) /\ Len(old) \in Nat /\ k \in Nat
  BY LenProperties, BoundAssumption DEF TypeOK
<1>2. k < Len(old)  BY DEF TruncateAligned
<1>3. SubSeq(old, 1, k) \in Seq(Chunks)
  BY <1>1, <1>2, SubSeqProperties, ElementOfSeq
<1>4. Upsert(live, n, SubSeq(old, 1, k)) \in Manifest  BY <1>3, UpsertType DEF TypeOK
<1>5. {old[i] : i \in (k + 1)..Len(old)} \in SUBSET Chunks  BY <1>1, ElementOfSeq
<1>6. Only(n, Read(SubSeq(old, 1, k))) \in [Names -> Seq(Block)]
  BY <1>3, ReadType DEF Only, TypeOK
<1>7. QED  BY <1>4, <1>5, <1>6, BeginType DEF TruncateAligned

LEMMA TruncateInsideType ==
  ASSUME TypeOK, NEW n \in Names, NEW k \in 1..MaxLen, NEW v \in Data, TruncateInside(n, k, v)
  PROVE  TypeOK'
<1> DEFINE old == live.chunks[n]
           g == [Read(SubSeq(old, 1, k)) EXCEPT ![k] = v]
<1>1. old \in Seq(Chunks) /\ Len(old) \in Nat /\ k \in Nat /\ k \in 1..Len(old)
  BY LenProperties, BoundAssumption DEF TypeOK, TruncateInside
<1>2. PICK fresh \in Alloc(k, k) :
        Begin({n}, {[to |-> fresh[k], from |-> old[k], val |-> v]},
              {old[i] : i \in k..Len(old)}, Upsert(live, n, Extend(old, k - 1, k, fresh)), Only(n, g))
  BY DEF TruncateInside
<1>3. fresh[k] \in Chunks /\ old[k] \in Chunks /\ old[k] # NoChunk
  BY <1>1, <1>2, AllocType, ElementOfSeq, ChunkAssumption
<1>4. Extend(old, k - 1, k, fresh) \in [1..k -> Chunks]
  <2>1. k - 1 \in 0..Len(old) /\ (k - 1) + 1 = k  BY <1>1
  <2>2. QED  BY <2>1, <1>1, <1>2, ExtendType, AllocType
<1>5. Upsert(live, n, Extend(old, k - 1, k, fresh)) \in Manifest
  BY <1>1, <1>4, ListOfFunction, UpsertType DEF TypeOK
<1>6. {[to |-> fresh[k], from |-> old[k], val |-> v]} \in SUBSET Job
  BY <1>3, BlockAssumption DEF Job
<1>7. {old[i] : i \in k..Len(old)} \in SUBSET Chunks  BY <1>1, ElementOfSeq
<1>8. SubSeq(old, 1, k) \in Seq(Chunks) /\ Len(SubSeq(old, 1, k)) = k
  BY <1>1, SubSeqProperties, ElementOfSeq
<1>9. g \in Seq(Block)
  <2>1. Read(SubSeq(old, 1, k)) \in Seq(Block) /\ k \in 1..Len(Read(SubSeq(old, 1, k)))
    <3>1. Read(SubSeq(old, 1, k)) \in Seq(Block) /\ Len(Read(SubSeq(old, 1, k))) = k
      BY <1>8, ReadType
    <3>2. QED  BY <3>1, <1>1
  <2>2. v \in Block  OBVIOUS
  <2>3. QED  BY <2>1, <2>2, ExceptSeq
<1>10. Only(n, g) \in [Names -> Seq(Block)]  BY <1>9 DEF Only, TypeOK
<1>11. QED  BY <1>2, <1>5, <1>6, <1>7, <1>10, BeginType

LEMMA RenameFileType ==
  ASSUME TypeOK, NEW a \in Names, NEW b \in Names, RenameFile(a, b)
  PROVE  TypeOK'
<1> DEFINE g == [want EXCEPT ![a] = <<>>, ![b] = Read(live.chunks[a])]
<1>1. live.chunks[a] \in Seq(Chunks) /\ live \in Manifest  BY DEF TypeOK
<1>2. Upsert(Remove(live, {a, b}), b, live.chunks[a]) \in Manifest
  BY <1>1, RemoveType, UpsertType
<1>3. Listed(live, b) \in SUBSET Chunks  BY <1>1, ListedType
<1>4. Read(live.chunks[a]) \in Seq(Block)  BY <1>1, ReadType
<1>5. g \in [Names -> Seq(Block)]  BY <1>4, EmptySeq DEF TypeOK
<1>6. QED  BY <1>2, <1>3, <1>5, BeginType DEF RenameFile

LEMMA DeleteFileType ==
  ASSUME TypeOK, NEW n \in Names, DeleteFile(n)
  PROVE  TypeOK'
<1>1. Remove(live, {n}) \in Manifest /\ Listed(live, n) \in SUBSET Chunks
  BY RemoveType, ListedType DEF TypeOK
<1>2. Only(n, <<>>) \in [Names -> Seq(Block)]  BY EmptySeq DEF Only, TypeOK
<1>3. QED  BY <1>1, <1>2, BeginType DEF DeleteFile

LEMMA DeleteFolderType ==
  ASSUME TypeOK, NEW f \in Folders, DeleteFolder(f)
  PROVE  TypeOK'
<1> DEFINE m == Remove(live, Under[f])
           g == [n \in Names |-> IF n \in Under[f] THEN <<>> ELSE want[n]]
<1>1. Under[f] \in SUBSET Names  BY FolderAssumption
<1>2. m \in Manifest  BY <1>1, RemoveType DEF TypeOK
<1>3. [m EXCEPT !.counter = @ + 1] \in Manifest  BY <1>2
<1>4. UNION {Listed(live, n) : n \in Under[f]} \in SUBSET Chunks
  BY <1>1, ListedInUnion DEF TypeOK
<1>5. g \in [Names -> Seq(Block)]  BY EmptySeq DEF TypeOK
<1>6. QED  BY <1>1, <1>3, <1>4, <1>5, BeginType DEF DeleteFolder

LEMMA CallType == TypeOK /\ Call => TypeOK'
<1> SUFFICES ASSUME TypeOK, Call  PROVE TypeOK'
  OBVIOUS
<1>1. CASE \E n \in Names, d \in Contents : AddFile(n, d)  BY <1>1, AddFileType
<1>2. CASE \E n \in Names : CreateFile(n) \/ DeleteFile(n)
  BY <1>2, CreateFileType, DeleteFileType
<1>3. CASE \E n \in Names, v \in Data, lo \in 1..MaxLen :
             \E hi \in lo..MaxLen : WriteRange(n, lo, hi, v)
  BY <1>3, WriteRangeType
<1>4. CASE \E n \in Names, k \in 0..MaxLen : TruncateAligned(n, k)
  BY <1>4, TruncateAlignedType
<1>5. CASE \E n \in Names, k \in 1..MaxLen, v \in Data : TruncateInside(n, k, v)
  BY <1>5, TruncateInsideType
<1>6. CASE \E a, b \in Names : RenameFile(a, b)  BY <1>6, RenameFileType
<1>7. CASE \E f \in Folders : DeleteFolder(f)  BY <1>7, DeleteFolderType
<1>8. QED  BY <1>1, <1>2, <1>3, <1>4, <1>5, <1>6, <1>7 DEF Call

(***************************************************************************)
(* Type correctness, the other steps                                       *)
(***************************************************************************)
LEMMA RestType == Rest => /\ pc' = "idle" /\ jobs' \subseteq Job /\ shred' \subseteq Chunks
                          /\ cand' \in Manifest /\ touch' \subseteq Names
                          /\ goal' \in [Names -> Seq(Block)] /\ freed' \subseteq Chunks
BY EmptyManifestType, EmptySeq DEF Rest

LEMMA PhaseType ==
  ASSUME NEW js, NEW ss
  PROVE  Phase(js, ss) \in {"idle", "fresh", "shred", "manifest", "sync"}
BY DEF Phase

LEMMA TearType ==
  ASSUME TypeOK, Tear
  PROVE  disk' \in [Chunks -> Block] /\ dirty' \subseteq Chunks /\ sure' \subseteq Names
<1>1. Targets \subseteq Chunks
  BY ChunkAssumption DEF Targets, TypeOK, Job
<1>2. CASE UNCHANGED <<disk, dirty, sure>>  BY <1>2 DEF TypeOK
<1>3. CASE \E c \in Targets :
             /\ Put(c, Junk)
             /\ sure' = IF c \in Owned(live) \cup {MC} THEN sure \ touch ELSE sure
  BY <1>1, <1>3 DEF TypeOK, Put
<1>4. QED  BY <1>2, <1>3 DEF Tear

LEMMA FaultType ==
  ASSUME TypeOK, NEW kind, Fault(kind)
  PROVE  faults' \in 0..MaxFaults
BY BoundAssumption DEF TypeOK, Fault

LEMMA StepType == TypeOK /\ [Next]_vars => TypeOK'
<1> SUFFICES ASSUME TypeOK, [Next]_vars  PROVE TypeOK'
  OBVIOUS
<1>1. CASE Call  BY <1>1, CallType
<1>2. CASE FreshStep
  <2>1. PICK j \in jobs :
          /\ Readable(j) /\ Put(j.to, FreshContent(j)) /\ jobs' = jobs \ {j}
          /\ pc' = Phase(jobs \ {j}, shred)
          /\ sure' = IF j.to \in Owned(live) THEN sure \ touch ELSE sure
    BY <1>2 DEF FreshStep
  <2>2. j \in Job  BY DEF TypeOK
  <2>3. j.to \in Chunks /\ FreshContent(j) \in Block
    BY <2>1, <2>2 DEF TypeOK, Job, FreshContent, Readable
  <2>4. pc' \in {"idle", "fresh", "shred", "manifest", "sync"}  BY <2>1, PhaseType
  <2>5. QED  BY <1>2, <2>1, <2>3, <2>4 DEF TypeOK, FreshStep, Put, mediaVars
<1>3. CASE ShredStep
  <2>1. PICK c \in shred : Put(c, Junk) /\ shred' = shred \ {c} /\ pc' = Phase({}, shred \ {c})
    BY <1>3 DEF ShredStep
  <2>2. pc' \in {"idle", "fresh", "shred", "manifest", "sync"}  BY <2>1, PhaseType
  <2>3. QED  BY <1>3, <2>1, <2>2 DEF TypeOK, ShredStep, Put, Unsettle, mediaVars
<1>4. CASE ManifestStep
  BY <1>4, ChunkAssumption DEF TypeOK, ManifestStep, Put, Unsettle, mediaVars
<1>5. CASE SyncStep
  <2>1. want' \in [Names -> Seq(Block)]  BY <1>5 DEF TypeOK, SyncStep
  <2>2. acked' \in Nat /\ there' \subseteq Names /\ sure' \subseteq Names
    BY <1>5 DEF TypeOK, SyncStep
  <2>3. QED  BY <1>5, <2>1, <2>2, RestType DEF TypeOK, SyncStep, Flush
<1>6. CASE ReadFails
  BY <1>6, RestType DEF TypeOK, ReadFails, diskVars, mediaVars, promiseVars
<1>7. CASE FreshFails
  BY <1>7, RestType, TearType, FaultType DEF TypeOK, FreshFails, mediaVars
<1>8. CASE DestructiveFails
  BY <1>8, RestType, TearType, FaultType DEF TypeOK, DestructiveFails, Poison, mediaVars
<1>9. CASE Kill
  BY <1>9, RestType, TearType, FaultType, EmptyManifestType DEF TypeOK, Kill, Offline, mediaVars
<1>10. CASE PowerLoss
  <2>1. PICK kept \in SUBSET dirty : \E torn \in SUBSET (dirty \ kept) :
          LET after == [c \in Chunks |->
                          IF c \in torn THEN Junk ELSE IF c \in kept THEN disk[c] ELSE media[c]]
              aman  == IF MC \in kept THEN dman ELSE mman
          IN  disk' = after /\ media' = after /\ dman' = aman /\ mman' = aman
    BY <1>10 DEF PowerLoss
  <2>2. disk' \in [Chunks -> Block] /\ media' = disk'  BY <2>1 DEF TypeOK
  <2>3. dman' \in Manifest /\ mman' = dman'  BY <2>1 DEF TypeOK
  <2>4. QED
    BY <1>10, <2>2, <2>3, RestType, FaultType, EmptyManifestType
    DEF TypeOK, PowerLoss, Offline, promiseVars
<1>11. CASE Open
  BY <1>11 DEF TypeOK, Open, diskVars, mediaVars, promiseVars, opVars
<1>12. CASE Close
  BY <1>12, EmptyManifestType DEF TypeOK, Close, Offline, diskVars, mediaVars, promiseVars, opVars
<1>13. CASE UNCHANGED vars  BY <1>13 DEF TypeOK, vars
<1>14. QED
  BY <1>1, <1>2, <1>3, <1>4, <1>5, <1>6, <1>7, <1>8, <1>9, <1>10, <1>11, <1>12, <1>13 DEF Next

LEMMA InitType == Init => TypeOK
<1> SUFFICES ASSUME Init  PROVE TypeOK
  OBVIOUS
<1>1. disk \in [Chunks -> Block] /\ media \in [Chunks -> Block]  BY DEF Init
<1>2. goal \in [Names -> Seq(Block)] /\ want \in [Names -> Seq(Block)]
  BY EmptySeq DEF Init
<1>3. dman \in Manifest /\ mman \in Manifest /\ live \in Manifest /\ cand \in Manifest
  BY EmptyManifestType DEF Init
<1>4. acked \in Nat /\ faults \in 0..MaxFaults  BY BoundAssumption DEF Init
<1>5. QED  BY <1>1, <1>2, <1>3, <1>4 DEF Init, TypeOK

\* Every variable keeps its type: chunk lists hold chunk indices only, and every
\* fresh chunk a mutation has yet to write has a defined content.
THEOREM TypeCorrect == Spec => []TypeOK
<1>1. QED  BY InitType, StepType, PTL DEF Spec
------------------------------------------------------------------------------

(***************************************************************************)
(* The safety properties of VaultEngine: every step re-establishes the     *)
(* invariant Inductive, and Inductive implies the properties.              *)
(***************************************************************************)

Elems(list) == {list[i] : i \in 1..Len(list)}

(***************************************************************************)
(* Ownership of chunks in manifests                                        *)
(***************************************************************************)
LEMMA OwnedMember ==
  ASSUME NEW m, NEW c
  PROVE  c \in Owned(m) <=> \E n \in Names : c \in Listed(m, n)
BY DEF Owned

LEMMA UpsertFields ==
  ASSUME NEW m \in Manifest, NEW n \in Names, NEW list \in Seq(Chunks),
         NEW u, u = Upsert(m, n, list)
  PROVE  /\ u \in Manifest
         /\ u.names = m.names \cup {n}
         /\ u.counter = m.counter + 1
         /\ Listed(u, n) = Elems(list) /\ u.chunks[n] = list
         /\ \A x \in Names \ {n} : u.chunks[x] = m.chunks[x] /\ Listed(u, x) = Listed(m, x)
<1>1. u.names = m.names \cup {n} /\ u.counter = m.counter + 1 /\ u.chunks[n] = list
  BY DEF Upsert
<1>2. \A x \in Names \ {n} : u.chunks[x] = m.chunks[x]  BY DEF Upsert
<1>3. u \in Manifest  BY UpsertType
<1>4. Listed(u, n) = Elems(list)  BY <1>1 DEF Listed, Elems
<1>5. \A x \in Names \ {n} : Listed(u, x) = Listed(m, x)  BY <1>2 DEF Listed
<1>6. QED  BY <1>1, <1>2, <1>3, <1>4, <1>5

\* Replacing the list of one file by a list of distinct chunks that were its own
\* or nobody's keeps the manifest well formed.
LEMMA UpsertWellFormed ==
  ASSUME NEW m \in Manifest, NEW n \in Names, NEW list \in Seq(Chunks),
         WellFormed(m),
         \A i, j \in 1..Len(list) : list[i] = list[j] => i = j,
         \A c \in Elems(list) : c # MC /\ \A x \in Names \ {n} : c \notin Listed(m, x)
  PROVE  WellFormed(Upsert(m, n, list))
<1> DEFINE u == Upsert(m, n, list)
<1>1. /\ u.names = m.names \cup {n} /\ u.chunks[n] = list
      /\ \A x \in Names \ {n} : u.chunks[x] = m.chunks[x]
  BY DEF Upsert
<1> HIDE DEF u
<1>2. ASSUME NEW x \in Names, NEW i \in 1..Len(u.chunks[x])  PROVE u.chunks[x][i] # MC
  <2>1. CASE x = n  BY <2>1, <1>1, <1>2 DEF Elems
  <2>2. CASE x # n  BY <2>2, <1>1, <1>2 DEF WellFormed
  <2>3. QED  BY <2>1, <2>2
<1>3. ASSUME NEW x \in Names, NEW y \in Names,
             NEW i \in 1..Len(u.chunks[x]), NEW j \in 1..Len(u.chunks[y]),
             u.chunks[x][i] = u.chunks[y][j]
      PROVE  x = y /\ i = j
  <2>1. CASE x = n /\ y = n  BY <2>1, <1>1, <1>3
  <2>2. CASE x = n /\ y # n
    <3>1. u.chunks[x][i] \in Elems(list)  BY <2>2, <1>1, <1>3 DEF Elems
    <3>2. u.chunks[y][j] \in Listed(m, y)  BY <2>2, <1>1, <1>3 DEF Listed
    <3>3. QED  BY <3>1, <3>2, <2>2, <1>3
  <2>3. CASE x # n /\ y = n
    <3>1. u.chunks[y][j] \in Elems(list)  BY <2>3, <1>1, <1>3 DEF Elems
    <3>2. u.chunks[x][i] \in Listed(m, x)  BY <2>3, <1>1, <1>3 DEF Listed
    <3>3. QED  BY <3>1, <3>2, <2>3, <1>3
  <2>4. CASE x # n /\ y # n  BY <2>4, <1>1, <1>3 DEF WellFormed
  <2>5. QED  BY <2>1, <2>2, <2>3, <2>4
<1>4. ASSUME NEW x \in Names \ u.names  PROVE u.chunks[x] = <<>>
  BY <1>1, <1>4 DEF WellFormed
<1>5. QED  BY <1>2, <1>3, <1>4 DEF WellFormed, u

LEMMA RemoveFields ==
  ASSUME NEW m \in Manifest, NEW S \in SUBSET Names, NEW r, r = Remove(m, S)
  PROVE  /\ r \in Manifest
         /\ r.names = m.names \ S
         /\ r.counter >= m.counter
         /\ \A x \in S : r.chunks[x] = <<>> /\ Listed(r, x) = {}
         /\ \A x \in Names \ S : r.chunks[x] = m.chunks[x] /\ Listed(r, x) = Listed(m, x)
<1>1. r \in Manifest  BY RemoveType
<1>2. IsFiniteSet(S \cap m.names)  BY FolderAssumption, FS_Subset
<1>3. Cardinality(S \cap m.names) \in Nat  BY <1>2, FS_CardinalityType
<1>4. r.counter >= m.counter /\ r.names = m.names \ S
  <2>1. r.counter = m.counter + Cardinality(S \cap m.names) /\ r.names = m.names \ S
    BY DEF Remove
  <2>2. m.counter \in Nat  OBVIOUS
  <2>3. QED  BY <2>1, <2>2, <1>3
<1>5. ASSUME NEW x \in S  PROVE r.chunks[x] = <<>> /\ Listed(r, x) = {}
  <2>1. r.chunks[x] = <<>>  BY DEF Remove
  <2>2. Len(r.chunks[x]) = 0  BY <2>1, EmptySeq
  <2>3. QED  BY <2>1, <2>2 DEF Listed
<1>6. \A x \in Names \ S : r.chunks[x] = m.chunks[x] /\ Listed(r, x) = Listed(m, x)
  BY DEF Remove, Listed
<1>7. QED  BY <1>1, <1>4, <1>5, <1>6

LEMMA RemoveWellFormed ==
  ASSUME NEW m \in Manifest, NEW S \in SUBSET Names, WellFormed(m)
  PROVE  WellFormed(Remove(m, S))
<1> DEFINE r == Remove(m, S)
<1>1. /\ r.names = m.names \ S
      /\ \A x \in S : r.chunks[x] = <<>>
      /\ \A x \in Names \ S : r.chunks[x] = m.chunks[x]
  BY RemoveFields
<1>2. \A x \in S : Len(r.chunks[x]) = 0  BY <1>1, EmptySeq
<1> HIDE DEF r
<1>3. \A x \in Names : \A i \in 1..Len(r.chunks[x]) : x \notin S
  BY <1>2
<1>4. QED
  <2>1. \A x \in Names : \A i \in 1..Len(r.chunks[x]) : r.chunks[x][i] # MC
    BY <1>1, <1>3 DEF WellFormed
  <2>2. \A x, y \in Names : \A i \in 1..Len(r.chunks[x]), j \in 1..Len(r.chunks[y]) :
          r.chunks[x][i] = r.chunks[y][j] => x = y /\ i = j
    BY <1>1, <1>3 DEF WellFormed
  <2>3. \A x \in Names \ r.names : r.chunks[x] = <<>>
    BY <1>1 DEF WellFormed
  <2>4. QED  BY <2>1, <2>2, <2>3 DEF WellFormed, r

\* In a well-formed manifest a chunk is listed for one file.
LEMMA OneOwner ==
  ASSUME NEW m, WellFormed(m), NEW x \in Names, NEW y \in Names, NEW c,
         c \in Listed(m, x), c \in Listed(m, y)
  PROVE  x = y /\ c # MC
BY DEF Listed, WellFormed

LEMMA EmptyWellFormed == WellFormed(EmptyManifest)
<1>1. \A n \in Names : EmptyManifest.chunks[n] = <<>> /\ Len(EmptyManifest.chunks[n]) = 0
  BY EmptySeq DEF EmptyManifest
<1>2. QED  BY <1>1 DEF WellFormed

(***************************************************************************)
(* Starting a mutation re-establishes the invariant                        *)
(***************************************************************************)
LEMMA BeginInductive ==
  ASSUME TypeOK, Inductive,
         NEW S \in SUBSET Names, NEW js \in SUBSET Job, NEW ss \in SUBSET Chunks,
         NEW m \in Manifest, NEW g, Begin(S, js, ss, m, g),
         WellFormed(m), Elsewhere(S, js, ss, m), Underway(S, js, m, g),
         Owned(live) \ Owned(m) \subseteq ss
  PROVE  Inductive'
<1>1. /\ Mutable
      /\ pc' = Phase(js, ss) /\ jobs' = js /\ shred' = ss /\ cand' = m /\ touch' = S
      /\ goal' = g /\ freed' = Owned(live) \ Owned(m)
      /\ UNCHANGED <<disk, dman, dirty, media, mman, sure, there, want, acked, open, live, poisoned>>
  BY DEF Begin, diskVars, mediaVars, promiseVars
<1>2. WellFormed(live) /\ WellFormed(dman) /\ WellFormed(mman)
  BY DEF Inductive, ChunkOwnership
<1>3. ChunkOwnership'  BY <1>1, <1>2 DEF ChunkOwnership
<1>4. open' /\ ~poisoned'  BY <1>1 DEF Mutable
<1>5. Elsewhere(touch, jobs, shred, cand)'
  BY <1>1 DEF Elsewhere, Confined, SameEntry
<1>6. Underway(touch, jobs, cand, goal)'
  BY <1>1 DEF Underway, FreshContent
<1>7. Erased'
  <2>1. ASSUME NEW c \in freed'  PROVE c # MC /\ c \notin Owned(m) /\ c \in ss
    <3>1. PICK x \in Names : c \in Listed(live, x)  BY <1>1, <2>1, OwnedMember
    <3>2. c # MC  BY <3>1, <1>2, OneOwner
    <3>3. QED  BY <1>1, <2>1, <3>2
  <2>2. QED  BY <1>1, <2>1 DEF Erased
<1>8. InFlight'  BY <1>4, <1>5, <1>6, <1>7 DEF InFlight
<1>9. PhaseOrder'  BY <1>1 DEF PhaseOrder, Phase
<1>10. SessionOnDisk' /\ CounterFloor'
  BY <1>1 DEF Inductive, SessionOnDisk, CounterFloor
<1>11. Synced'
  BY <1>1 DEF Inductive, Synced, Holds, SameEntry
<1>12. QED  BY <1>3, <1>8, <1>9, <1>10, <1>11 DEF Inductive

\* Giving one file a new list of chunks, of its own or of nobody's.
LEMMA UpsertPlan ==
  ASSUME TypeOK, Inductive, NEW n \in Names, NEW list \in Seq(Chunks),
         \A i, j \in 1..Len(list) : list[i] = list[j] => i = j,
         \A c \in Elems(list) : c \in Listed(live, n) \/ c \notin Owned(live) \cup {MC},
         NEW js, \A j \in js : j.to \in Elems(list),
         NEW ss, ss = Listed(live, n) \ Elems(list)
  PROVE  LET m == Upsert(live, n, list)
         IN  /\ WellFormed(m)
             /\ Elsewhere({n}, js, ss, m)
             /\ Owned(live) \ Owned(m) \subseteq ss
<1> DEFINE m == Upsert(live, n, list)
<1>1. live \in Manifest /\ WellFormed(live)
  BY DEF TypeOK, Inductive, ChunkOwnership
<1>2. ASSUME NEW c \in Elems(list)
      PROVE  c # MC /\ \A x \in Names \ {n} : c \notin Listed(live, x)
  <2>1. CASE c \in Listed(live, n)  BY <2>1, <1>1, OneOwner
  <2>2. CASE c \notin Owned(live) \cup {MC}  BY <2>2, OwnedMember
  <2>3. QED  BY <2>1, <2>2
<1>3. WellFormed(m)  BY <1>1, <1>2, UpsertWellFormed
<1>4. /\ m.names = live.names \cup {n} /\ m.counter = live.counter + 1
      /\ Listed(m, n) = Elems(list)
      /\ \A x \in Names \ {n} : m.chunks[x] = live.chunks[x] /\ Listed(m, x) = Listed(live, x)
  BY <1>1, UpsertFields
<1> HIDE DEF m
<1>5. \A x \in Names \ {n} : SameEntry(live, m, x)
  BY <1>4 DEF SameEntry
<1>6. m.counter >= live.counter  BY <1>1, <1>4
<1>7. ASSUME NEW j \in js  PROVE j.to \in Owned(m) /\ Confined(j.to, {n})
  BY <1>2, <1>4, OwnedMember DEF Confined
<1>8. ASSUME NEW c \in ss  PROVE c # MC /\ c \notin Owned(m) /\ Confined(c, {n})
  <2>1. c \in Listed(live, n) /\ c \notin Elems(list)  OBVIOUS
  <2>2. c # MC /\ \A x \in Names \ {n} : c \notin Listed(live, x)
    BY <2>1, <1>1, OneOwner
  <2>3. QED  BY <2>1, <2>2, <1>4, OwnedMember DEF Confined
<1>9. ASSUME NEW c \in Owned(live), c \notin Owned(m)  PROVE c \in ss
  <2>1. PICK x \in Names : c \in Listed(live, x)  BY OwnedMember
  <2>2. x = n /\ c \notin Elems(list)  BY <2>1, <1>4, <1>9, OwnedMember
  <2>3. QED  BY <2>1, <2>2
<1>10. QED  BY <1>3, <1>5, <1>6, <1>7, <1>8, <1>9 DEF Elsewhere, m

\* Keeping a prefix of a file's chunks and extending it with allocated ones.
LEMMA ExtendDistinct ==
  ASSUME TypeOK, Inductive, NEW n \in Names,
         NEW keep \in 0..Len(live.chunks[n]), NEW len \in Nat,
         NEW fresh \in Alloc(keep + 1, len)
  PROVE  LET old  == live.chunks[n]
             list == Extend(old, keep, len, fresh)
         IN  /\ list \in [1..len -> Chunks] /\ list \in Seq(Chunks) /\ Len(list) = len
             /\ \A i \in 1..len : i <= keep => list[i] = old[i] /\ list[i] \in Listed(live, n)
             /\ \A i \in 1..len : i > keep => list[i] \notin Owned(live) \cup {MC}
             /\ \A i, j \in 1..len : list[i] = list[j] => i = j
<1> DEFINE old == live.chunks[n]
           list == Extend(old, keep, len, fresh)
<1>1. old \in Seq(Chunks) /\ Len(old) \in Nat /\ keep \in Nat /\ keep <= Len(old)
  BY LenProperties DEF TypeOK
<1>2. /\ fresh \in [(keep + 1)..len -> Chunks]
      /\ \A i \in (keep + 1)..len : fresh[i] \notin Owned(live) \cup {MC}
      /\ \A i, j \in (keep + 1)..len : fresh[i] = fresh[j] => i = j
  BY AllocType
<1>3. list \in [1..len -> Chunks]  BY <1>1, <1>2, ExtendType
<1>4. list \in Seq(Chunks) /\ Len(list) = len  BY <1>3, ListOfFunction
<1>5. ASSUME NEW i \in 1..len, i <= keep
      PROVE  list[i] = old[i] /\ list[i] \in Listed(live, n) /\ i \in 1..Len(old)
  BY <1>1, <1>5 DEF Extend, Listed
<1>6. ASSUME NEW i \in 1..len, i > keep
      PROVE  i \in (keep + 1)..len /\ list[i] = fresh[i] /\ list[i] \notin Owned(live) \cup {MC}
  <2>1. i \in (keep + 1)..len  BY <1>1, <1>6
  <2>2. list[i] = fresh[i]  BY <1>1, <1>6 DEF Extend
  <2>3. QED  BY <2>1, <2>2, <1>2
<1>7. ASSUME NEW i \in 1..len, NEW j \in 1..len, list[i] = list[j]  PROVE i = j
  <2>1. CASE i <= keep /\ j <= keep
    <3>1. old[i] = old[j] /\ i \in 1..Len(old) /\ j \in 1..Len(old)  BY <2>1, <1>5, <1>7
    <3>2. QED  BY <3>1 DEF Inductive, ChunkOwnership, WellFormed
  <2>2. CASE i <= keep /\ j > keep  BY <2>2, <1>5, <1>6, <1>7, OwnedMember
  <2>3. CASE i > keep /\ j <= keep  BY <2>3, <1>5, <1>6, <1>7, OwnedMember
  <2>4. CASE i > keep /\ j > keep
    <3>1. fresh[i] = fresh[j] /\ i \in (keep + 1)..len /\ j \in (keep + 1)..len
      BY <2>4, <1>6, <1>7
    <3>2. QED  BY <3>1, <1>2
  <2>5. QED  BY <2>1, <2>2, <2>3, <2>4, <1>1
<1>8. QED  BY <1>3, <1>4, <1>5, <1>6, <1>7

LEMMA TailFreed ==
  ASSUME TypeOK, Inductive, NEW n \in Names,
         NEW keep \in 0..Len(live.chunks[n]), NEW len \in Nat, keep <= len,
         NEW fresh \in Alloc(keep + 1, len)
  PROVE  LET old  == live.chunks[n]
             list == Extend(old, keep, len, fresh)
         IN  /\ {old[i] : i \in (keep + 1)..Len(old)} = Listed(live, n) \ Elems(list)
             /\ \A c \in Elems(list) : c \in Listed(live, n) \/ c \notin Owned(live) \cup {MC}
<1> DEFINE old == live.chunks[n]
           list == Extend(old, keep, len, fresh)
<1>1. old \in Seq(Chunks) /\ Len(old) \in Nat /\ keep \in Nat /\ keep <= Len(old)
  BY LenProperties DEF TypeOK
<1>2. /\ Len(list) = len
      /\ \A i \in 1..len : i <= keep => list[i] = old[i] /\ list[i] \in Listed(live, n)
      /\ \A i \in 1..len : i > keep => list[i] \notin Owned(live) \cup {MC}
  BY ExtendDistinct
<1> HIDE DEF list
<1>3. ASSUME NEW c \in Elems(list)
      PROVE  c \in Listed(live, n) \/ c \notin Owned(live) \cup {MC}
  <2>1. PICK i \in 1..len : c = list[i]  BY <1>2 DEF Elems
  <2>2. i <= keep \/ i > keep  BY <1>1, <2>1
  <2>3. QED  BY <2>1, <2>2, <1>2
<1>4. ASSUME NEW i \in (keep + 1)..Len(old)  PROVE old[i] \in Listed(live, n) \ Elems(list)
  <2>1. i \in 1..Len(old)  BY <1>1, <1>4
  <2>2. ASSUME NEW j \in 1..len, list[j] = old[i]  PROVE FALSE
    <3>1. old[i] \in Owned(live)  BY <2>1, OwnedMember DEF Listed
    <3>2. j <= keep  BY <3>1, <2>2, <1>1, <1>2
    <3>3. old[j] = old[i] /\ j \in 1..Len(old)  BY <3>2, <2>2, <1>1, <1>2
    <3>4. j = i  BY <3>3, <2>1 DEF Inductive, ChunkOwnership, WellFormed
    <3>5. QED  BY <3>2, <3>4, <1>1, <1>4
  <2>3. QED  BY <2>1, <2>2, <1>2 DEF Listed, Elems
<1>5. ASSUME NEW c \in Listed(live, n), c \notin Elems(list)
      PROVE  c \in {old[i] : i \in (keep + 1)..Len(old)}
  <2>1. PICK i \in 1..Len(old) : c = old[i]  BY DEF Listed
  <2>2. CASE i <= keep
    <3>1. list[i] = old[i] /\ i \in 1..len  BY <2>2, <1>1, <1>2
    <3>2. QED  BY <3>1, <2>1, <1>5, <1>2 DEF Elems
  <2>3. CASE i > keep  BY <2>1, <2>3, <1>1
  <2>4. QED  BY <2>1, <2>2, <2>3, <1>1
<1>6. QED  BY <1>3, <1>4, <1>5 DEF list

LEMMA AddFileInductive ==
  ASSUME TypeOK, Inductive, NEW n \in Names, NEW d \in Contents, AddFile(n, d)
  PROVE  Inductive'
<1> DEFINE old == live.chunks[n]
           keep == IF Len(old) < Len(d) THEN Len(old) ELSE Len(d)
<1>1. PICK k \in Nat : d \in [1..k -> Data]  BY BoundAssumption DEF Contents
<1>2. Len(d) = k  BY <1>1, DataIsBlock
<1>3. old \in Seq(Chunks) /\ Len(old) \in Nat  BY LenProperties DEF TypeOK
<1>4. PICK fresh \in Alloc(keep + 1, Len(d)) :
        LET list == Extend(old, keep, Len(d), fresh)
        IN  Begin({n},
                  {[to |-> list[i], from |-> NoChunk, val |-> d[i]] : i \in 1..Len(d)},
                  {old[i] : i \in (Len(d) + 1)..Len(old)},
                  Upsert(live, n, list), Only(n, d))
  BY DEF AddFile
<1> DEFINE list == Extend(old, keep, k, fresh)
           js == {[to |-> list[i], from |-> NoChunk, val |-> d[i]] : i \in 1..k}
           ss == {old[i] : i \in (k + 1)..Len(old)}
           m == Upsert(live, n, list)
<1>5. Begin({n}, js, ss, m, Only(n, d))  BY <1>2, <1>4
<1>6. keep \in 0..Len(old) /\ keep <= k /\ (keep < k => keep = Len(old))  BY <1>2, <1>3
<1>7. /\ list \in [1..k -> Chunks] /\ list \in Seq(Chunks) /\ Len(list) = k
      /\ \A i \in 1..k : i <= keep => list[i] = old[i] /\ list[i] \in Listed(live, n)
      /\ \A i \in 1..k : i > keep => list[i] \notin Owned(live) \cup {MC}
      /\ \A i, j \in 1..k : list[i] = list[j] => i = j
  <2>1. keep \in 0..Len(live.chunks[n]) /\ k \in Nat /\ fresh \in Alloc(keep + 1, k)
    BY <1>2, <1>4, <1>6
  <2> HIDE DEF keep
  <2>2. QED  BY <2>1, ExtendDistinct
<1> HIDE DEF keep, list
<1>8. \A c \in Elems(list) : c \in Listed(live, n) \/ c \notin Owned(live) \cup {MC}
  BY <1>2, <1>4, <1>6, TailFreed DEF list
<1>9. \A j \in js : j.to \in Elems(list)  BY <1>7 DEF Elems
<1>10. ss = Listed(live, n) \ Elems(list)
  <2>1. ss = {old[i] : i \in (keep + 1)..Len(old)}  BY <1>2, <1>3, <1>6
  <2>2. QED  BY <2>1, <1>2, <1>4, <1>6, TailFreed DEF list
<1>11. WellFormed(m) /\ Elsewhere({n}, js, ss, m) /\ Owned(live) \ Owned(m) \subseteq ss
  BY <1>7, <1>8, <1>9, <1>10, UpsertPlan
<1>12. js \in SUBSET Job /\ ss \in SUBSET Chunks
  <2>1. ss \in SUBSET Chunks
    BY <1>1, <1>3, ElementOfSeq
  <2>2. ASSUME NEW i \in 1..k  PROVE [to |-> list[i], from |-> NoChunk, val |-> d[i]] \in Job
    <3>1. list[i] \in Chunks /\ d[i] \in Data
      BY <1>1, <1>7
    <3>2. d[i] # Keep
      BY <3>1, BlockAssumption
    <3> QED  BY <3>1, <3>2 DEF Job
  <2> QED  BY <2>1, <2>2
<1>13. m \in Manifest /\ m.chunks[n] = list
  <2>1. live \in Manifest  BY DEF TypeOK
  <2>2. QED  BY <2>1, <1>7, UpsertType DEF Upsert
<1>14. Only(n, d)[n] = d  BY DEF Only, TypeOK
<1>15. Underway({n}, js, m, Only(n, d))
  <2>1. \A j \in js : j.val # Keep  BY <1>1, BlockAssumption
  <2>2. ASSUME NEW i \in 1..k, NEW j \in js, j.to = list[i]  PROVE FreshContent(j) = d[i]
    <3>1. PICK h \in 1..k : j = [to |-> list[h], from |-> NoChunk, val |-> d[h]]  OBVIOUS
    <3>2. h = i  BY <3>1, <2>2, <1>7
    <3>3. QED  BY <3>1, <3>2, <2>1 DEF FreshContent
  <2>3. ASSUME NEW i \in 1..k, \A j \in js : j.to # list[i]  PROVE FALSE
    <3>1. [to |-> list[i], from |-> NoChunk, val |-> d[i]] \in js  OBVIOUS
    <3>2. QED  BY <3>1, <2>3
  <2>4. \A j, l \in js : j.val = Keep => j.from # l.to  BY <2>1
  <2>5. /\ Len(list) = Len(d)
        /\ \A i \in 1..Len(list) :
             /\ \A j \in js : j.to = list[i] => FreshContent(j) = d[i]
             /\ (\A j \in js : j.to # list[i]) => disk[list[i]] = d[i]
    BY <2>2, <2>3, <1>2, <1>7
  <2> HIDE DEF js, m
  <2>6. QED  BY <2>4, <2>5, <1>13, <1>14 DEF Underway
<1>16. QED  BY <1>5, <1>11, <1>12, <1>13, <1>15, BeginInductive

LEMMA CreateFileInductive ==
  ASSUME TypeOK, Inductive, NEW n \in Names, CreateFile(n)
  PROVE  Inductive'
<1> DEFINE m == Upsert(live, n, <<>>)
<1>1. n \notin live.names /\ Begin({n}, {}, {}, m, Only(n, <<>>))
  BY DEF CreateFile
<1>2. <<>> \in Seq(Chunks) /\ Len(<<>>) = 0  BY EmptySeq
<1>3. live.chunks[n] = <<>>  BY <1>1 DEF Inductive, ChunkOwnership, WellFormed
<1>4. Elems(<<>>) = {} /\ Listed(live, n) = {}  BY <1>2, <1>3 DEF Elems, Listed
<1>5. \A i, j \in 1..Len(<<>>) : <<>>[i] = <<>>[j] => i = j  BY <1>2
<1>6. WellFormed(m) /\ Elsewhere({n}, {}, {}, m) /\ Owned(live) \ Owned(m) \subseteq {}
  <2> DEFINE list == <<>>
             none == {}
  <2>1. /\ list \in Seq(Chunks) /\ \A i, j \in 1..Len(list) : list[i] = list[j] => i = j
        /\ \A c \in Elems(list) : c \in Listed(live, n) \/ c \notin Owned(live) \cup {MC}
        /\ \A j \in none : j.to \in Elems(list)
        /\ none = Listed(live, n) \ Elems(list)
    BY <1>2, <1>4, <1>5
  <2>2. m = Upsert(live, n, list)  OBVIOUS
  <2> HIDE DEF list, none, m
  <2>3. WellFormed(m) /\ Elsewhere({n}, none, none, m) /\ Owned(live) \ Owned(m) \subseteq none
    BY <2>1, <2>2, UpsertPlan
  <2>4. QED  BY <2>3 DEF none
<1>7. m \in Manifest /\ m.chunks[n] = <<>>
  <2>1. live \in Manifest  BY DEF TypeOK
  <2>2. QED  BY <2>1, <1>2, UpsertType DEF Upsert
<1>8. Only(n, <<>>)[n] = <<>>  BY DEF Only, TypeOK
<1>9. Underway({n}, {}, m, Only(n, <<>>))  BY <1>2, <1>7, <1>8 DEF Underway
<1>10. QED  BY <1>1, <1>6, <1>7, <1>9, BeginInductive

LEMMA WriteRangeInductive ==
  ASSUME TypeOK, Inductive, NEW n \in Names, NEW lo \in 1..MaxLen, NEW hi \in lo..MaxLen,
         NEW v \in Data, WriteRange(n, lo, hi, v)
  PROVE  Inductive'
<1> DEFINE old == live.chunks[n]
           len == IF hi < Len(old) THEN Len(old) ELSE hi
           g == [i \in 1..len |-> IF i \in lo..hi THEN v
                                  ELSE IF i > Len(old) THEN Zero ELSE disk[old[i]]]
<1>1. old \in Seq(Chunks) /\ Len(old) \in Nat  BY LenProperties DEF TypeOK
<1>2. /\ len \in Nat /\ lo \in Nat /\ hi \in Nat /\ lo >= 1 /\ lo <= hi
      /\ Len(old) <= len /\ hi <= len
  BY <1>1, BoundAssumption
<1>3. PICK first \in FirstDirty(old, lo) : \E fresh \in Alloc(first, len) :
        LET list == Extend(old, first - 1, len, fresh)
        IN  Begin({n}, {WriteJob(list, old, lo, hi, v, i) : i \in first..len},
                  Displaced(old, first), Upsert(live, n, list), Only(n, g))
  BY DEF WriteRange
<1>4. first \in 1..(Len(old) + 1) /\ first <= lo /\ first <= len
  BY <1>1, <1>2, <1>3 DEF FirstDirty
<1>5. PICK fresh \in Alloc(first, len) :
        LET list == Extend(old, first - 1, len, fresh)
        IN  Begin({n}, {WriteJob(list, old, lo, hi, v, i) : i \in first..len},
                  Displaced(old, first), Upsert(live, n, list), Only(n, g))
  BY <1>3
<1> DEFINE list == Extend(old, first - 1, len, fresh)
           js == {WriteJob(list, old, lo, hi, v, i) : i \in first..len}
           ss == Displaced(old, first)
           m == Upsert(live, n, list)
<1>6. Begin({n}, js, ss, m, Only(n, g))  BY <1>5
<1>7. first - 1 \in 0..Len(old) /\ (first - 1) + 1 = first /\ first - 1 <= len
  BY <1>1, <1>2, <1>4
<1> HIDE DEF len
<1>8. /\ list \in [1..len -> Chunks] /\ list \in Seq(Chunks) /\ Len(list) = len
      /\ \A i \in 1..len : i <= first - 1 => list[i] = old[i] /\ list[i] \in Listed(live, n)
      /\ \A i \in 1..len : i > first - 1 => list[i] \notin Owned(live) \cup {MC}
      /\ \A i, j \in 1..len : list[i] = list[j] => i = j
  <2> DEFINE keep == first - 1
  <2>1. keep \in 0..Len(live.chunks[n]) /\ len \in Nat /\ fresh \in Alloc(keep + 1, len)
    BY <1>2, <1>5, <1>7
  <2> HIDE DEF keep
  <2>2. /\ Extend(old, keep, len, fresh) \in [1..len -> Chunks]
        /\ Extend(old, keep, len, fresh) \in Seq(Chunks) /\ Len(Extend(old, keep, len, fresh)) = len
        /\ \A i \in 1..len : i <= keep => /\ Extend(old, keep, len, fresh)[i] = old[i]
                                         /\ Extend(old, keep, len, fresh)[i] \in Listed(live, n)
        /\ \A i \in 1..len : i > keep => Extend(old, keep, len, fresh)[i] \notin Owned(live) \cup {MC}
        /\ \A i, j \in 1..len : Extend(old, keep, len, fresh)[i] = Extend(old, keep, len, fresh)[j] => i = j
    BY <2>1, ExtendDistinct
  <2>3. QED  BY <2>2 DEF keep
<1>9. /\ ss = Listed(live, n) \ Elems(list)
      /\ \A c \in Elems(list) : c \in Listed(live, n) \/ c \notin Owned(live) \cup {MC}
  BY <1>2, <1>5, <1>7, TailFreed DEF Displaced
<1> HIDE DEF list
<1>10. \A j \in js : j.to \in Elems(list)
  <2>1. ASSUME NEW i \in first..len  PROVE WriteJob(list, old, lo, hi, v, i).to \in Elems(list)
    <3>1. i \in 1..len  BY <1>2, <1>4, <2>1
    <3>2. QED  BY <3>1, <1>8 DEF WriteJob, Elems
  <2>2. QED  BY <2>1
<1>11. WellFormed(m) /\ Elsewhere({n}, js, ss, m) /\ Owned(live) \ Owned(m) \subseteq ss
  BY <1>8, <1>9, <1>10, UpsertPlan
<1>12. js \in SUBSET Job
  <2>1. ASSUME NEW i \in first..len  PROVE WriteJob(list, old, lo, hi, v, i) \in Job
    <3>1. i \in 1..len /\ list[i] \in Chunks  BY <1>2, <1>4, <1>8
    <3>2. CASE i <= Len(old)
      <4>1. old[i] \in Chunks /\ old[i] # NoChunk
        BY <3>1, <3>2, <1>1, <1>2, ElementOfSeq, ChunkAssumption
      <4>2. QED  BY <3>1, <3>2, <4>1, <1>1, <1>2 DEF WriteJob, Job
    <3>3. CASE ~(i <= Len(old))
      BY <3>1, <3>3, <1>1, <1>2, BlockAssumption DEF WriteJob, Job
    <3>4. QED  BY <3>2, <3>3
  <2>2. QED  BY <2>1
<1>13. ss \in SUBSET Chunks  BY <1>1, <1>4, ElementOfSeq DEF Displaced
<1>14. m \in Manifest /\ m.chunks[n] = list
  <2>1. live \in Manifest  BY DEF TypeOK
  <2>2. QED  BY <2>1, <1>8, UpsertType DEF Upsert
<1>15. Only(n, g)[n] = g /\ g \in Seq(Block) /\ Len(g) = len
  <2>1. Only(n, g)[n] = g  BY DEF Only, TypeOK
  <2>2. ASSUME NEW i \in 1..len  PROVE g[i] \in Block
    <3>1. CASE i <= Len(old)
      <4>1. old[i] \in Chunks  BY <3>1, <1>1, <1>2, ElementOfSeq
      <4>2. QED  BY <3>1, <4>1, <1>1, <1>2 DEF TypeOK
    <3>2. CASE ~(i <= Len(old))  BY <3>2, <1>1, <1>2, BlockAssumption
    <3>3. QED  BY <3>1, <3>2
  <2>3. g \in [1..len -> Block]  BY <2>2
  <2>4. QED  BY <2>1, <2>3, <1>2, ListOfFunction
<1>16. Underway({n}, js, m, Only(n, g))
  <2>1. ASSUME NEW j \in js, NEW k \in js, j.val = Keep  PROVE j.from # k.to
    <3>1. PICK i \in first..len : j = WriteJob(list, old, lo, hi, v, i)  OBVIOUS
    <3>2. PICK h \in first..len : k = WriteJob(list, old, lo, hi, v, h)  OBVIOUS
    <3>3. i <= Len(old) /\ i >= 1 /\ i \in Nat
      BY <2>1, <3>1, <1>1, <1>2, <1>4, BlockAssumption DEF WriteJob
    <3>4. j.from = old[i] /\ old[i] \in Owned(live)
      BY <3>1, <3>3, <1>1, OwnedMember DEF WriteJob, Listed
    <3>5. k.to = list[h] /\ list[h] \notin Owned(live)
      BY <3>2, <1>1, <1>2, <1>4, <1>8 DEF WriteJob
    <3>6. QED  BY <3>4, <3>5
  <2>2. ASSUME NEW i \in 1..len, NEW j \in js, j.to = list[i]  PROVE FreshContent(j) = g[i]
    <3>1. PICK h \in first..len : j = WriteJob(list, old, lo, hi, v, h)  OBVIOUS
    <3>2. h = i  BY <3>1, <2>2, <1>1, <1>2, <1>4, <1>8 DEF WriteJob
    <3>3. QED
      BY <3>1, <3>2, <1>1, <1>2, BlockAssumption DEF FreshContent, WriteJob
  <2>3. ASSUME NEW i \in 1..len, \A j \in js : j.to # list[i]  PROVE disk[list[i]] = g[i]
    <3>1. i < first
      <4>1. ASSUME i \in first..len  PROVE FALSE
        <5>1. WriteJob(list, old, lo, hi, v, i) \in js  BY <4>1
        <5>2. WriteJob(list, old, lo, hi, v, i).to = list[i]  BY DEF WriteJob
        <5>3. QED  BY <5>1, <5>2, <2>3
      <4>2. QED  BY <4>1, <1>1, <1>2, <1>4
    <3>2. list[i] = old[i]  BY <3>1, <1>1, <1>2, <1>4, <1>8
    <3>3. QED  BY <3>1, <3>2, <1>1, <1>2, <1>4
  <2> HIDE DEF js, m, g
  <2>4. QED  BY <2>1, <2>2, <2>3, <1>8, <1>14, <1>15 DEF Underway
<1>17. QED  BY <1>6, <1>11, <1>12, <1>13, <1>14, <1>16, BeginInductive

LEMMA TruncateAlignedInductive ==
  ASSUME TypeOK, Inductive, NEW n \in Names, NEW k \in 0..MaxLen, TruncateAligned(n, k)
  PROVE  Inductive'
<1> DEFINE old == live.chunks[n]
           list == SubSeq(old, 1, k)
           ss == {old[i] : i \in (k + 1)..Len(old)}
           m == Upsert(live, n, list)
           g == Read(list)
<1>1. old \in Seq(Chunks) /\ Len(old) \in Nat /\ k \in Nat
  BY LenProperties, BoundAssumption DEF TypeOK
<1>2. k < Len(old) /\ Begin({n}, {}, ss, m, Only(n, g))  BY DEF TruncateAligned
<1>3. /\ list \in Seq(Chunks) /\ Len(list) = k
      /\ \A i \in 1..k : list[i] = old[i]
  BY <1>1, <1>2, SubSeqProperties, ElementOfSeq
<1>4. \A i, j \in 1..Len(old) : old[i] = old[j] => i = j
  BY DEF Inductive, ChunkOwnership, WellFormed
<1> HIDE DEF list
<1>5. \A i, j \in 1..Len(list) : list[i] = list[j] => i = j
  BY <1>1, <1>2, <1>3, <1>4
<1>6. /\ \A c \in Elems(list) : c \in Listed(live, n) \/ c \notin Owned(live) \cup {MC}
      /\ \A j \in {} : j.to \in Elems(list)
  BY <1>1, <1>2, <1>3 DEF Elems, Listed
<1>7. ss = Listed(live, n) \ Elems(list)
  <2>1. ASSUME NEW i \in (k + 1)..Len(old)  PROVE old[i] \in Listed(live, n) \ Elems(list)
    <3>1. i \in 1..Len(old)  BY <1>1
    <3>2. ASSUME NEW j \in 1..k, list[j] = old[i]  PROVE FALSE
      <4>1. old[j] = old[i] /\ j \in 1..Len(old)  BY <3>2, <1>1, <1>2, <1>3
      <4>2. QED  BY <4>1, <3>1, <1>1, <1>4
    <3>3. QED  BY <3>1, <3>2, <1>3 DEF Listed, Elems
  <2>2. ASSUME NEW c \in Listed(live, n), c \notin Elems(list)  PROVE c \in ss
    <3>1. PICK i \in 1..Len(old) : c = old[i]  BY DEF Listed
    <3>2. CASE i <= k  BY <3>1, <3>2, <2>2, <1>1, <1>3 DEF Elems
    <3>3. CASE i > k  BY <3>1, <3>3, <1>1
    <3>4. QED  BY <3>1, <3>2, <3>3, <1>1
  <2>3. QED  BY <2>1, <2>2
<1>8. WellFormed(m) /\ Elsewhere({n}, {}, ss, m) /\ Owned(live) \ Owned(m) \subseteq ss
  <2> DEFINE js == {}
  <2>1. \A j \in js : j.to \in Elems(list)  OBVIOUS
  <2> HIDE DEF js, ss
  <2>2. WellFormed(m) /\ Elsewhere({n}, js, ss, m) /\ Owned(live) \ Owned(m) \subseteq ss
    BY <1>3, <1>5, <1>6, <1>7, <2>1, UpsertPlan
  <2>3. QED  BY <2>2 DEF js
<1>9. ss \in SUBSET Chunks  BY <1>1, ElementOfSeq
<1>10. m \in Manifest /\ m.chunks[n] = list
  <2>1. live \in Manifest  BY DEF TypeOK
  <2>2. QED  BY <2>1, <1>3, UpsertType DEF Upsert
<1>11. Len(g) = k /\ \A i \in 1..k : g[i] = disk[list[i]]
  BY <1>3, ReadType DEF Read
<1>12. Only(n, g)[n] = g  BY DEF Only, TypeOK
<1> HIDE DEF m, g
<1>13. Underway({n}, {}, m, Only(n, g))
  BY <1>3, <1>10, <1>11, <1>12 DEF Underway
<1>14. QED  BY <1>2, <1>8, <1>9, <1>10, <1>13, BeginInductive

LEMMA TruncateInsideInductive ==
  ASSUME TypeOK, Inductive, NEW n \in Names, NEW k \in 1..MaxLen, NEW v \in Data,
         TruncateInside(n, k, v)
  PROVE  Inductive'
<1> DEFINE old == live.chunks[n]
           g == [Read(SubSeq(old, 1, k)) EXCEPT ![k] = v]
<1>1. old \in Seq(Chunks) /\ Len(old) \in Nat /\ k \in Nat /\ k \in 1..Len(old)
  BY LenProperties, BoundAssumption DEF TypeOK, TruncateInside
<1>2. PICK fresh \in Alloc(k, k) :
        Begin({n}, {[to |-> fresh[k], from |-> old[k], val |-> v]},
              {old[i] : i \in k..Len(old)}, Upsert(live, n, Extend(old, k - 1, k, fresh)), Only(n, g))
  BY DEF TruncateInside
<1> DEFINE list == Extend(old, k - 1, k, fresh)
           job == [to |-> fresh[k], from |-> old[k], val |-> v]
           ss == {old[i] : i \in k..Len(old)}
           m == Upsert(live, n, list)
<1>3. k - 1 \in 0..Len(old) /\ (k - 1) + 1 = k /\ k - 1 <= k  BY <1>1
<1>4. /\ list \in [1..k -> Chunks] /\ list \in Seq(Chunks) /\ Len(list) = k
      /\ \A i \in 1..k : i <= k - 1 => list[i] = old[i] /\ list[i] \in Listed(live, n)
      /\ \A i \in 1..k : i > k - 1 => list[i] \notin Owned(live) \cup {MC}
      /\ \A i, j \in 1..k : list[i] = list[j] => i = j
  BY <1>1, <1>2, <1>3, ExtendDistinct
<1>5. /\ ss = Listed(live, n) \ Elems(list)
      /\ \A c \in Elems(list) : c \in Listed(live, n) \/ c \notin Owned(live) \cup {MC}
  BY <1>1, <1>2, <1>3, TailFreed
<1>6. list[k] = fresh[k]  BY <1>1 DEF Extend
<1> HIDE DEF list
<1>7. \A j \in {job} : j.to \in Elems(list)  BY <1>1, <1>4, <1>6 DEF Elems
<1>8. WellFormed(m) /\ Elsewhere({n}, {job}, ss, m) /\ Owned(live) \ Owned(m) \subseteq ss
  <2> DEFINE js == {job}
  <2>1. \A j \in js : j.to \in Elems(list)  BY <1>7
  <2>2. \A i, j \in 1..Len(list) : list[i] = list[j] => i = j  BY <1>4
  <2> HIDE DEF js, ss
  <2>3. WellFormed(m) /\ Elsewhere({n}, js, ss, m) /\ Owned(live) \ Owned(m) \subseteq ss
    BY <1>4, <1>5, <2>1, <2>2, UpsertPlan
  <2>4. QED  BY <2>3 DEF js
<1>9. job \in Job
  <2>1. old[k] \in Chunks /\ old[k] # NoChunk  BY <1>1, ElementOfSeq, ChunkAssumption
  <2>2. fresh[k] \in Chunks  BY <1>1, <1>4, <1>6
  <2>3. QED  BY <2>1, <2>2, BlockAssumption DEF Job
<1>10. ss \in SUBSET Chunks  BY <1>1, ElementOfSeq
<1>11. m \in Manifest /\ m.chunks[n] = list
  <2>1. live \in Manifest  BY DEF TypeOK
  <2>2. QED  BY <2>1, <1>4, UpsertType DEF Upsert
<1>12. Len(g) = k /\ g[k] = v /\ \A i \in 1..k : i < k => g[i] = disk[list[i]]
  <2>1. /\ SubSeq(old, 1, k) \in Seq(Chunks) /\ Len(SubSeq(old, 1, k)) = k
        /\ \A i \in 1..k : SubSeq(old, 1, k)[i] = old[i]
    BY <1>1, SubSeqProperties, ElementOfSeq
  <2> DEFINE r == Read(SubSeq(old, 1, k))
  <2>2. r \in Seq(Block) /\ Len(r) = k  BY <2>1, ReadType
  <2>3. \A i \in 1..k : r[i] = disk[old[i]]  BY <2>1 DEF Read
  <2> HIDE DEF r
  <2>4. v \in Block /\ k \in 1..Len(r)  BY <2>2, <1>1
  <2>5. /\ Len([r EXCEPT ![k] = v]) = Len(r)
        /\ \A i \in 1..Len(r) : [r EXCEPT ![k] = v][i] = IF i = k THEN v ELSE r[i]
    BY <2>2, <2>4, ExceptSeq
  <2>6. g = [r EXCEPT ![k] = v]  BY DEF r
  <2> HIDE DEF g
  <2>7. Len(g) = k /\ g[k] = v  BY <2>2, <2>5, <2>6, <1>1
  <2>8. ASSUME NEW i \in 1..k, i < k  PROVE g[i] = disk[list[i]]
    <3>1. g[i] = r[i]  BY <2>2, <2>5, <2>6, <2>8, <1>1
    <3>2. list[i] = old[i]  BY <2>8, <1>1, <1>4
    <3>3. QED  BY <3>1, <3>2, <2>3
  <2>9. QED  BY <2>7, <2>8
<1>13. Only(n, g)[n] = g  BY DEF Only, TypeOK
<1>14. FreshContent(job) = v  BY BlockAssumption DEF FreshContent
<1> HIDE DEF m, g
<1>15. Underway({n}, {job}, m, Only(n, g))
  <2>1. job.val # Keep  BY BlockAssumption
  <2>2. ASSUME NEW i \in 1..k, list[i] = job.to  PROVE FreshContent(job) = g[i]
    BY <2>2, <1>1, <1>4, <1>6, <1>12, <1>14
  <2>3. ASSUME NEW i \in 1..k, list[i] # job.to  PROVE disk[list[i]] = g[i]
    BY <2>3, <1>1, <1>6, <1>12
  <2> HIDE DEF job
  <2>4. QED  BY <2>1, <2>2, <2>3, <1>4, <1>11, <1>12, <1>13 DEF Underway
<1>16. Begin({n}, {job}, ss, m, Only(n, g))  BY <1>2 DEF m, g, list
<1>17. QED  BY <1>8, <1>9, <1>10, <1>11, <1>15, <1>16, BeginInductive

LEMMA RenameFileInductive ==
  ASSUME TypeOK, Inductive, NEW a \in Names, NEW b \in Names, RenameFile(a, b)
  PROVE  Inductive'
<1> DEFINE S == {a, b}
           r == Remove(live, S)
           list == live.chunks[a]
           m == Upsert(r, b, list)
           g == [want EXCEPT ![a] = <<>>, ![b] = Read(list)]
           ss == Listed(live, b)
<1>1. a \in live.names /\ a # b /\ Begin({a, b}, {}, ss, m, g)  BY DEF RenameFile
<1>2. live \in Manifest /\ WellFormed(live) /\ list \in Seq(Chunks)
  BY DEF TypeOK, Inductive, ChunkOwnership
<1>3. S \in SUBSET Names /\ \A x \in Names : x \in S <=> x \in {a, b}  OBVIOUS
<1> HIDE DEF S
<1>4. /\ r \in Manifest /\ WellFormed(r)
      /\ r.names = live.names \ S /\ r.counter >= live.counter
      /\ \A x \in S : r.chunks[x] = <<>> /\ Listed(r, x) = {}
      /\ \A x \in Names \ S : r.chunks[x] = live.chunks[x] /\ Listed(r, x) = Listed(live, x)
  <2>1. live \in Manifest /\ S \in SUBSET Names /\ r = Remove(live, S)  BY <1>2, <1>3
  <2> HIDE DEF r
  <2>2. WellFormed(r)  BY <2>1, <1>2, RemoveWellFormed
  <2>3. QED  BY <2>1, <2>2, RemoveFields
<1> HIDE DEF r, list
<1>5. Elems(list) = Listed(live, a)  BY DEF Elems, Listed, list
<1>6. \A i, j \in 1..Len(list) : list[i] = list[j] => i = j
  BY <1>2 DEF WellFormed, list
<1>7. ASSUME NEW c \in Elems(list)
      PROVE  c # MC /\ \A x \in Names \ {b} : c \notin Listed(r, x)
  BY <1>2, <1>3, <1>4, <1>5, OneOwner
<1>8. WellFormed(m) /\ m = Upsert(r, b, list)
  BY <1>2, <1>4, <1>6, <1>7, UpsertWellFormed
<1> HIDE DEF m
<1>9. /\ m \in Manifest
      /\ m.names = r.names \cup {b} /\ m.counter = r.counter + 1
      /\ Listed(m, b) = Elems(list) /\ m.chunks[b] = list
      /\ \A x \in Names \ {b} : m.chunks[x] = r.chunks[x] /\ Listed(m, x) = Listed(r, x)
  <2>1. r \in Manifest /\ b \in Names /\ list \in Seq(Chunks) /\ m = Upsert(r, b, list)
    BY <1>2, <1>4, <1>8
  <2> HIDE DEF Manifest
  <2>2. QED  BY <2>1, UpsertFields
<1>10. Elsewhere(S, {}, ss, m)
  <2>1. \A x \in Names \ S : SameEntry(live, m, x)  BY <1>3, <1>4, <1>9 DEF SameEntry
  <2>2. m.counter >= live.counter
    <3>1. r.counter \in Nat /\ live.counter \in Nat  BY <1>2, <1>4
    <3>2. QED  BY <3>1, <1>4, <1>9
  <2>3. ASSUME NEW c \in ss  PROVE c # MC /\ c \notin Owned(m) /\ Confined(c, S)
    <3>1. c # MC /\ \A x \in Names \ {b} : c \notin Listed(live, x)  BY <1>2, OneOwner
    <3>2. ASSUME NEW x \in Names, c \in Listed(m, x)  PROVE FALSE
      BY <3>1, <3>2, <1>1, <1>3, <1>4, <1>5, <1>9
    <3>3. QED  BY <3>1, <3>2, <1>3, OwnedMember DEF Confined
  <2>4. QED  BY <2>1, <2>2, <2>3 DEF Elsewhere
<1>11. ASSUME NEW c \in Owned(live), c \notin Owned(m)  PROVE c \in ss
  <2>1. PICK x \in Names : c \in Listed(live, x)  BY OwnedMember
  <2>2. \A y \in Names : c \notin Listed(m, y)  BY <1>11, OwnedMember
  <2>3. x # a  BY <2>1, <2>2, <1>5, <1>9
  <2>4. x = b  BY <2>1, <2>2, <2>3, <1>3, <1>4, <1>9
  <2>5. QED  BY <2>1, <2>4
<1>12. ss \in SUBSET Chunks  BY <1>2, ListedType
<1>13. Read(list) \in Seq(Block) /\ Len(Read(list)) = Len(list)
       /\ \A i \in 1..Len(list) : Read(list)[i] = disk[list[i]]
  BY <1>2, ReadType DEF Read
<1>14. g[a] = <<>> /\ g[b] = Read(list)  BY <1>1 DEF TypeOK
<1>15. m.chunks[a] = <<>> /\ Len(<<>>) = 0  BY <1>1, <1>3, <1>4, <1>9, EmptySeq
<1> HIDE DEF g
<1>16. Underway(S, {}, m, g)
  <2>1. ASSUME NEW x \in S
        PROVE  /\ Len(m.chunks[x]) = Len(g[x])
               /\ \A i \in 1..Len(m.chunks[x]) : disk[m.chunks[x][i]] = g[x][i]
    <3>1. CASE x = a  BY <3>1, <1>14, <1>15
    <3>2. CASE x = b  BY <3>2, <1>9, <1>13, <1>14
    <3>3. QED  BY <3>1, <3>2, <1>3
  <2>2. QED  BY <2>1 DEF Underway
<1> DEFINE js == {}
<1>17. js \in SUBSET Job  OBVIOUS
<1>18. /\ Begin(S, js, ss, m, g) /\ Elsewhere(S, js, ss, m) /\ Underway(S, js, m, g)
  BY <1>1, <1>10, <1>16 DEF S, m, g, r, list
<1> HIDE DEF js, ss
<1>19. Owned(live) \ Owned(m) \subseteq ss  BY <1>11
<1>20. QED  BY <1>3, <1>8, <1>9, <1>12, <1>17, <1>18, <1>19, BeginInductive

\* Removing the entries of the names in S, shredding their chunks.
LEMMA RemovePlan ==
  ASSUME TypeOK, Inductive, NEW S \in SUBSET Names, NEW m \in Manifest, NEW ss,
         m.names = live.names \ S, m.chunks = Remove(live, S).chunks, m.counter >= live.counter,
         ss = UNION {Listed(live, n) : n \in S},
         NEW g, \A n \in S : g[n] = <<>>,
         Begin(S, {}, ss, m, g)
  PROVE  Inductive'
<1> DEFINE r == Remove(live, S)
           js == {}
<1>1. live \in Manifest /\ WellFormed(live)  BY DEF TypeOK, Inductive, ChunkOwnership
<1>2. WellFormed(r)  BY <1>1, RemoveWellFormed
<1>3. r.names = m.names /\ r.chunks = m.chunks  BY DEF Remove
<1>4. WellFormed(m)
  <2> HIDE DEF r
  <2>1. QED  BY <1>2, <1>3 DEF WellFormed
<1>5. /\ \A x \in S : m.chunks[x] = <<>> /\ Listed(m, x) = {}
      /\ \A x \in Names \ S : m.chunks[x] = live.chunks[x] /\ Listed(m, x) = Listed(live, x)
  <2>1. /\ \A x \in S : r.chunks[x] = <<>> /\ Listed(r, x) = {}
        /\ \A x \in Names \ S : r.chunks[x] = live.chunks[x] /\ Listed(r, x) = Listed(live, x)
    <3>1. r = Remove(live, S)  OBVIOUS
    <3> HIDE DEF r, Manifest
    <3>2. QED  BY <3>1, <1>1, RemoveFields
  <2>2. \A x \in Names : Listed(m, x) = Listed(r, x)  BY DEF Listed
  <2>3. QED  BY <2>1, <2>2
<1>6. ASSUME NEW c \in ss  PROVE c # MC /\ c \notin Owned(m) /\ Confined(c, S)
  <2>1. PICK x \in S : c \in Listed(live, x)  OBVIOUS
  <2>2. c # MC /\ \A y \in Names \ S : c \notin Listed(live, y)  BY <2>1, <1>1, OneOwner
  <2>3. \A y \in Names : c \notin Listed(m, y)  BY <2>2, <1>5
  <2>4. QED  BY <2>2, <2>3, OwnedMember DEF Confined
<1>7. ASSUME NEW c \in Owned(live), c \notin Owned(m)  PROVE c \in ss
  <2>1. PICK x \in Names : c \in Listed(live, x)  BY OwnedMember
  <2>2. x \in S  BY <2>1, <1>5, <1>7, OwnedMember
  <2>3. QED  BY <2>1, <2>2
<1>8. Elsewhere(S, js, ss, m)
  <2>1. \A x \in Names \ S : SameEntry(live, m, x)  BY <1>5 DEF SameEntry
  <2>2. QED  BY <2>1, <1>6 DEF Elsewhere
<1>9. Underway(S, js, m, g)
  <2>1. Len(<<>>) = 0  BY EmptySeq
  <2>2. \A x \in S : m.chunks[x] = <<>> /\ g[x] = <<>>  BY <1>5
  <2>3. QED  BY <2>1, <2>2 DEF Underway
<1>10. ss \in SUBSET Chunks  BY <1>1, ListedInUnion
<1>11. js \in SUBSET Job /\ Begin(S, js, ss, m, g)  OBVIOUS
<1>12. Owned(live) \ Owned(m) \subseteq ss  BY <1>7
<1> HIDE DEF js
<1>13. QED  BY <1>4, <1>8, <1>9, <1>10, <1>11, <1>12, BeginInductive

LEMMA DeleteFileInductive ==
  ASSUME TypeOK, Inductive, NEW n \in Names, DeleteFile(n)
  PROVE  Inductive'
<1> DEFINE S == {n}
           m == Remove(live, S)
           ss == Listed(live, n)
           g == Only(n, <<>>)
<1>1. Begin(S, {}, ss, m, g)  BY DEF DeleteFile
<1>2. live \in Manifest /\ S \in SUBSET Names  BY DEF TypeOK
<1>3. m \in Manifest /\ m.names = live.names \ S /\ m.counter >= live.counter
  <2> HIDE DEF S
  <2>1. QED  BY <1>2, RemoveFields
<1>4. ss = UNION {Listed(live, x) : x \in S}  OBVIOUS
<1>5. \A x \in S : g[x] = <<>>  BY DEF Only, TypeOK
<1>6. m.chunks = Remove(live, S).chunks  OBVIOUS
<1> HIDE DEF S, ss, g, m
<1>7. QED  BY <1>1, <1>2, <1>3, <1>4, <1>5, <1>6, RemovePlan

LEMMA DeleteFolderInductive ==
  ASSUME TypeOK, Inductive, NEW f \in Folders, DeleteFolder(f)
  PROVE  Inductive'
<1> DEFINE S == Under[f]
           r == Remove(live, S)
           m == [r EXCEPT !.counter = @ + 1]
           ss == UNION {Listed(live, n) : n \in S}
           g == [n \in Names |-> IF n \in S THEN <<>> ELSE want[n]]
<1>1. Begin(S, {}, ss, m, g)  BY DEF DeleteFolder
<1>2. live \in Manifest /\ S \in SUBSET Names  BY FolderAssumption DEF TypeOK
<1>3. r \in Manifest /\ r.names = live.names \ S /\ r.counter >= live.counter
  BY <1>2, RemoveFields
<1>4. m \in Manifest /\ m.names = live.names \ S /\ m.counter >= live.counter /\ m.chunks = r.chunks
  <2> HIDE DEF r
  <2>1. m.counter = r.counter + 1 /\ m.names = r.names /\ m.chunks = r.chunks /\ m \in Manifest
    BY <1>3
  <2>2. r.counter \in Nat /\ live.counter \in Nat  BY <1>2, <1>3
  <2> HIDE DEF m
  <2>3. QED  BY <2>1, <2>2, <1>3
<1>5. \A x \in S : g[x] = <<>>  BY <1>2
<1> HIDE DEF S, g, m
<1>6. QED  BY <1>1, <1>2, <1>4, <1>5, RemovePlan

LEMMA CallInductive == TypeOK /\ Inductive /\ Call => Inductive'
<1> SUFFICES ASSUME TypeOK, Inductive, Call  PROVE Inductive'
  OBVIOUS
<1>1. CASE \E n \in Names, d \in Contents : AddFile(n, d)  BY <1>1, AddFileInductive
<1>2. CASE \E n \in Names : CreateFile(n) \/ DeleteFile(n)
  BY <1>2, CreateFileInductive, DeleteFileInductive
<1>3. CASE \E n \in Names, v \in Data, lo \in 1..MaxLen :
             \E hi \in lo..MaxLen : WriteRange(n, lo, hi, v)
  BY <1>3, WriteRangeInductive
<1>4. CASE \E n \in Names, k \in 0..MaxLen : TruncateAligned(n, k)
  BY <1>4, TruncateAlignedInductive
<1>5. CASE \E n \in Names, k \in 1..MaxLen, v \in Data : TruncateInside(n, k, v)
  BY <1>5, TruncateInsideInductive
<1>6. CASE \E a, b \in Names : RenameFile(a, b)  BY <1>6, RenameFileInductive
<1>7. CASE \E f \in Folders : DeleteFolder(f)  BY <1>7, DeleteFolderInductive
<1>8. QED  BY <1>1, <1>2, <1>3, <1>4, <1>5, <1>6, <1>7 DEF Call

(***************************************************************************)
(* The writes of a mutation re-establish the invariant                     *)
(***************************************************************************)
LEMMA FlightFacts ==
  ASSUME TypeOK, Inductive, pc # "idle"
  PROVE  /\ open /\ ~poisoned /\ disk[MC] = Header /\ dman = live
         /\ WellFormed(live) /\ WellFormed(cand)
         /\ \A j \in jobs : j \in Job /\ j.to \in Chunks /\ j.to # MC /\ j.to \in Owned(cand)
                            /\ Confined(j.to, touch)
         /\ \A c \in shred : c \in Chunks /\ c # MC /\ c \notin Owned(cand) /\ Confined(c, touch)
<1>1. open /\ ~poisoned /\ Elsewhere(touch, jobs, shred, cand)
  BY DEF Inductive, InFlight
<1>2. disk[MC] = Header /\ dman = live  BY <1>1 DEF Inductive, SessionOnDisk
<1>3. WellFormed(live) /\ WellFormed(cand)  BY DEF Inductive, ChunkOwnership
<1>4. ASSUME NEW j \in jobs
      PROVE  j \in Job /\ j.to \in Chunks /\ j.to # MC /\ j.to \in Owned(cand) /\ Confined(j.to, touch)
  <2>1. j \in Job /\ j.to \in Chunks  BY DEF TypeOK, Job
  <2>2. j.to \in Owned(cand) /\ Confined(j.to, touch)  BY <1>1 DEF Elsewhere
  <2>3. j.to # MC  BY <2>2, <1>3, OwnedMember, OneOwner
  <2>4. QED  BY <2>1, <2>2, <2>3
<1>5. \A c \in shred : c \in Chunks /\ c # MC /\ c \notin Owned(cand) /\ Confined(c, touch)
  BY <1>1 DEF Elsewhere, TypeOK
<1>6. QED  BY <1>1, <1>2, <1>3, <1>4, <1>5

\* A write to a chunk that holds nothing of the files still settled.
LEMMA PutSynced ==
  ASSUME TypeOK, Inductive, NEW c \in Chunks, NEW v, Put(c, v),
         UNCHANGED <<media, mman, dman, there, want>>,
         sure' \subseteq sure, \A n \in sure' : c \notin Listed(dman, n)
  PROVE  Synced'
<1>1. disk' = [disk EXCEPT ![c] = v] /\ dirty' = dirty \cup {c}  BY DEF Put
<1>2. disk \in [Chunks -> Block]  BY DEF TypeOK
<1>3. \A d \in Chunks \ dirty' : disk'[d] = media'[d]
  BY <1>1, <1>2 DEF Inductive, Synced
<1>4. ASSUME NEW n \in sure'
      PROVE  Holds(mman, media, n)' /\ SameEntry(mman, dman, n)' /\ Listed(dman', n) \cap dirty' = {}
  <2>1. Holds(mman, media, n) /\ SameEntry(mman, dman, n) /\ Listed(dman, n) \cap dirty = {}
    BY DEF Inductive, Synced
  <2>2. Holds(mman, media, n)' /\ SameEntry(mman, dman, n)'  BY <2>1 DEF Holds, SameEntry
  <2>3. Listed(dman', n) \cap dirty' = {}  BY <2>1, <1>1
  <2>4. QED  BY <2>2, <2>3
<1>5. QED  BY <1>3, <1>4 DEF Synced

\* Chunks the mutation may write to, and who loses by it.
LEMMA WriteEndangersTouched ==
  ASSUME TypeOK, Inductive, pc # "idle", NEW c, Confined(c, touch) \/ c = MC,
         NEW left \in SUBSET sure, left \cap touch = {} \/ c \notin Owned(live) 
  PROVE  \A n \in left : c \notin Listed(dman, n)
<1>1. dman = live /\ WellFormed(live)  BY FlightFacts
<1>2. ASSUME NEW n \in left, c \in Listed(live, n)  PROVE FALSE
  <2>1. n \in Names  BY DEF TypeOK
  <2>2. c # MC /\ c \in Owned(live)  BY <2>1, <1>1, <1>2, OneOwner, OwnedMember
  <2>3. n \notin touch  BY <2>2
  <2>4. QED  BY <2>1, <2>2, <2>3, <1>2 DEF Confined
<1>3. QED  BY <1>1, <1>2

LEMMA FreshStepInductive == TypeOK /\ Inductive /\ FreshStep => Inductive'
<1> SUFFICES ASSUME TypeOK, Inductive, FreshStep  PROVE Inductive'
  OBVIOUS
<1>1. PICK j \in jobs :
        /\ pc = "fresh"
        /\ Readable(j) /\ Put(j.to, FreshContent(j)) /\ jobs' = jobs \ {j}
        /\ pc' = Phase(jobs \ {j}, shred)
        /\ sure' = IF j.to \in Owned(live) THEN sure \ touch ELSE sure
        /\ UNCHANGED <<dman, media, mman, open, live, poisoned, shred, cand, touch, goal,
                       freed, there, want, acked, faults>>
  BY DEF FreshStep, mediaVars
<1>2. /\ open /\ ~poisoned /\ disk[MC] = Header /\ dman = live
      /\ j \in Job /\ j.to \in Chunks /\ j.to # MC /\ j.to \in Owned(cand) /\ Confined(j.to, touch)
  BY <1>1, FlightFacts
<1>3. disk' = [disk EXCEPT ![j.to] = FreshContent(j)] /\ disk \in [Chunks -> Block]
  BY <1>1 DEF Put, TypeOK
<1>4. /\ Elsewhere(touch, jobs, shred, cand) /\ Underway(touch, jobs, cand, goal) /\ Erased
  BY <1>1 DEF Inductive, InFlight
<1>5. ChunkOwnership'  BY <1>1 DEF Inductive, ChunkOwnership
<1>6. Elsewhere(touch, jobs, shred, cand)'
  BY <1>1, <1>4 DEF Elsewhere, Confined, SameEntry
<1>7. ASSUME NEW k \in jobs  PROVE FreshContent(k)' = FreshContent(k)
  <2>1. k.val = Keep => k.from # j.to  BY <1>4 DEF Underway
  <2>2. k \in Job  BY DEF TypeOK
  <2>3. k.val = Keep => k.from \in Chunks  BY <2>2 DEF Job
  <2>4. QED  BY <2>1, <2>3, <1>3 DEF FreshContent
<1>8. Underway(touch, jobs, cand, goal)'
  <2>1. \A h, k \in jobs' : h.val = Keep => h.from # k.to  BY <1>1, <1>4 DEF Underway
  <2>2. ASSUME NEW n \in touch  PROVE Len(cand.chunks[n]) = Len(goal[n])  BY <1>4 DEF Underway
  <2>3. ASSUME NEW n \in touch, NEW i \in 1..Len(cand.chunks[n]), NEW k \in jobs',
               k.to = cand.chunks[n][i]
        PROVE  FreshContent(k)' = goal[n][i]
    <3>1. k \in jobs  BY <1>1
    <3>2. FreshContent(k) = goal[n][i]  BY <3>1, <2>3, <1>4 DEF Underway
    <3>3. QED  BY <3>1, <3>2, <1>7
  <2>4. ASSUME NEW n \in touch, NEW i \in 1..Len(cand.chunks[n]),
               \A k \in jobs' : k.to # cand.chunks[n][i]
        PROVE  disk'[cand.chunks[n][i]] = goal[n][i]
    <3> DEFINE c == cand.chunks[n][i]
    <3>1. CASE c = j.to
      <4>1. FreshContent(j) = goal[n][i]  BY <3>1, <1>4 DEF Underway
      <4>2. QED  BY <4>1, <3>1, <1>2, <1>3
    <3>2. CASE c # j.to
      <4>1. \A k \in jobs : k.to # c  BY <3>2, <2>4, <1>1
      <4>2. disk[c] = goal[n][i]  BY <4>1, <1>4 DEF Underway
      <4>3. c \in Chunks  BY ElementOfSeq DEF TypeOK
      <4>4. QED  BY <4>2, <4>3, <3>2, <1>3
    <3>3. QED  BY <3>1, <3>2
  <2>5. QED  BY <2>1, <2>2, <2>3, <2>4, <1>1 DEF Underway
<1>9. Erased'
  <2>1. ASSUME NEW c \in freed
        PROVE  c # MC /\ c \notin Owned(cand) /\ (c \in shred \/ disk'[c] = Junk)
    <3>1. c # MC /\ c \notin Owned(cand) /\ (c \in shred \/ disk[c] = Junk)  BY <1>4 DEF Erased
    <3>2. c # j.to /\ c \in Chunks  BY <3>1, <1>2 DEF TypeOK
    <3>3. QED  BY <3>1, <3>2, <1>3
  <2>2. QED  BY <2>1, <1>1 DEF Erased
<1>10. InFlight'  BY <1>1, <1>2, <1>6, <1>8, <1>9 DEF InFlight
<1>11. PhaseOrder'  BY <1>1 DEF PhaseOrder, Phase
<1>12. disk'[MC] = Header  BY <1>2, <1>3, ChunkAssumption
<1>13. SessionOnDisk' /\ CounterFloor'
  BY <1>1, <1>2, <1>12 DEF Inductive, SessionOnDisk, CounterFloor
<1>14. Synced'
  <2>1. \A n \in sure' : j.to \notin Listed(dman, n)
    <3>1. sure' \in SUBSET sure /\ (sure' \cap touch = {} \/ j.to \notin Owned(live))  BY <1>1
    <3>2. QED  BY <3>1, <1>1, <1>2, WriteEndangersTouched
  <2>2. QED  BY <2>1, <1>1, <1>2, PutSynced
<1>15. QED  BY <1>5, <1>10, <1>11, <1>13, <1>14 DEF Inductive

LEMMA ShredStepInductive == TypeOK /\ Inductive /\ ShredStep => Inductive'
<1> SUFFICES ASSUME TypeOK, Inductive, ShredStep  PROVE Inductive'
  OBVIOUS
<1>1. PICK c \in shred :
        /\ pc = "shred" /\ Put(c, Junk) /\ shred' = shred \ {c}
        /\ pc' = Phase({}, shred \ {c}) /\ sure' = sure \ touch
        /\ UNCHANGED <<dman, media, mman, open, live, poisoned, jobs, cand, touch, goal,
                       freed, there, want, acked, faults>>
  BY DEF ShredStep, Unsettle, mediaVars
<1>2. /\ open /\ ~poisoned /\ disk[MC] = Header /\ dman = live
      /\ c \in Chunks /\ c # MC /\ c \notin Owned(cand) /\ Confined(c, touch)
  BY <1>1, FlightFacts
<1>3. disk' = [disk EXCEPT ![c] = Junk] /\ disk \in [Chunks -> Block]
  BY <1>1 DEF Put, TypeOK
<1>4. /\ Elsewhere(touch, jobs, shred, cand) /\ Underway(touch, jobs, cand, goal) /\ Erased
      /\ jobs = {}
  BY <1>1 DEF Inductive, InFlight, PhaseOrder
<1>5. ChunkOwnership'  BY <1>1 DEF Inductive, ChunkOwnership
<1>6. Elsewhere(touch, jobs, shred, cand)'
  BY <1>1, <1>4 DEF Elsewhere, Confined, SameEntry
<1>7. Underway(touch, jobs, cand, goal)'
  <2>1. ASSUME NEW n \in touch, NEW i \in 1..Len(cand.chunks[n])
        PROVE  disk'[cand.chunks[n][i]] = goal[n][i]
    <3>1. n \in Names  BY DEF TypeOK
    <3>2. cand.chunks[n][i] \in Owned(cand)  BY <3>1, OwnedMember DEF Listed
    <3>3. cand.chunks[n][i] \in Chunks  BY <3>1, ElementOfSeq DEF TypeOK
    <3>4. disk[cand.chunks[n][i]] = goal[n][i]  BY <1>4 DEF Underway
    <3>5. QED  BY <3>2, <3>3, <3>4, <1>2, <1>3
  <2>2. \A n \in touch : Len(cand.chunks[n]) = Len(goal[n])  BY <1>4 DEF Underway
  <2>3. QED  BY <2>1, <2>2, <1>1, <1>4 DEF Underway
<1>8. Erased'
  <2>1. ASSUME NEW d \in freed
        PROVE  d # MC /\ d \notin Owned(cand) /\ (d \in shred' \/ disk'[d] = Junk)
    <3>1. d \in Chunks  BY DEF TypeOK
    <3>2. QED  BY <3>1, <1>1, <1>3, <1>4 DEF Erased
  <2>2. QED  BY <2>1, <1>1 DEF Erased
<1>9. InFlight'  BY <1>1, <1>2, <1>6, <1>7, <1>8 DEF InFlight
<1>10. PhaseOrder'  BY <1>1, <1>4 DEF PhaseOrder, Phase
<1>11. disk'[MC] = Header  BY <1>2, <1>3, ChunkAssumption
<1>12. SessionOnDisk' /\ CounterFloor'
  BY <1>1, <1>2, <1>11 DEF Inductive, SessionOnDisk, CounterFloor
<1>13. Synced'
  <2>1. \A n \in sure' : c \notin Listed(dman, n)
    <3>1. sure' \in SUBSET sure /\ sure' \cap touch = {}  BY <1>1
    <3>2. QED  BY <3>1, <1>1, <1>2, WriteEndangersTouched
  <2>2. QED  BY <2>1, <1>1, <1>2, PutSynced
<1>14. QED  BY <1>5, <1>9, <1>10, <1>12, <1>13 DEF Inductive

LEMMA ManifestStepInductive == TypeOK /\ Inductive /\ ManifestStep => Inductive'
<1> SUFFICES ASSUME TypeOK, Inductive, ManifestStep  PROVE Inductive'
  OBVIOUS
<1>1. /\ pc = "manifest" /\ Put(MC, Header) /\ dman' = cand /\ live' = cand /\ pc' = "sync"
      /\ sure' = sure \ touch
      /\ UNCHANGED <<media, mman, open, poisoned, jobs, shred, cand, touch, goal, freed,
                     there, want, acked, faults>>
  BY DEF ManifestStep, Unsettle, mediaVars
<1>2. /\ open /\ ~poisoned /\ disk[MC] = Header /\ dman = live
      /\ WellFormed(live) /\ WellFormed(cand)
  BY <1>1, FlightFacts
<1>3. disk' = [disk EXCEPT ![MC] = Header] /\ disk \in [Chunks -> Block] /\ dirty' = dirty \cup {MC}
  BY <1>1 DEF Put, TypeOK
<1>4. /\ Elsewhere(touch, jobs, shred, cand) /\ Underway(touch, jobs, cand, goal) /\ Erased
      /\ jobs = {} /\ shred = {}
  BY <1>1 DEF Inductive, InFlight, PhaseOrder
<1>5. disk' = disk  BY <1>2, <1>3
<1>6. ChunkOwnership'  BY <1>1 DEF Inductive, ChunkOwnership
<1>7. Elsewhere(touch, jobs, shred, cand)'
  <2>1. cand.counter \in Nat  BY DEF TypeOK
  <2>2. QED  BY <2>1, <1>1, <1>4 DEF Elsewhere, SameEntry
<1>8. Underway(touch, jobs, cand, goal)'  BY <1>1, <1>4, <1>5 DEF Underway
<1>9. Erased'  BY <1>1, <1>4, <1>5 DEF Erased
<1>10. InFlight'  BY <1>1, <1>2, <1>7, <1>8, <1>9 DEF InFlight
<1>11. PhaseOrder'  BY <1>1, <1>4 DEF PhaseOrder
<1>12. SessionOnDisk'  BY <1>1, <1>2, <1>5 DEF SessionOnDisk
<1>13. CounterFloor'
  <2>1. live.counter >= acked /\ cand.counter >= live.counter
    BY <1>2, <1>4 DEF Inductive, CounterFloor, Elsewhere
  <2>2. live.counter \in Nat /\ cand.counter \in Nat /\ acked \in Nat  BY DEF TypeOK
  <2>3. cand.counter >= acked  BY <2>1, <2>2
  <2>4. QED  BY <2>3, <1>1 DEF Inductive, CounterFloor
<1>14. Synced'
  <2>1. \A d \in Chunks \ dirty' : disk'[d] = media'[d]
    BY <1>1, <1>3, <1>5 DEF Inductive, Synced
  <2>2. ASSUME NEW n \in sure'
        PROVE  Holds(mman, media, n)' /\ SameEntry(mman, dman, n)' /\ Listed(dman', n) \cap dirty' = {}
    <3>1. n \in sure /\ n \in Names \ touch  BY <1>1 DEF TypeOK
    <3>2. Holds(mman, media, n) /\ SameEntry(mman, dman, n) /\ Listed(dman, n) \cap dirty = {}
      BY <3>1 DEF Inductive, Synced
    <3>3. SameEntry(live, cand, n)  BY <3>1, <1>4 DEF Elsewhere
    <3>4. SameEntry(mman, cand, n) /\ Listed(cand, n) = Listed(dman, n)
      BY <3>2, <3>3, <1>2 DEF SameEntry, Listed
    <3>5. MC \notin Listed(cand, n)  BY <3>1, <1>2, OneOwner
    <3>6. Listed(dman', n) \cap dirty' = {}  BY <3>2, <3>4, <3>5, <1>1, <1>3
    <3>7. QED  BY <3>2, <3>4, <3>6, <1>1 DEF Holds, SameEntry
  <2>3. QED  BY <2>1, <2>2 DEF Synced
<1>15. QED  BY <1>6, <1>10, <1>11, <1>12, <1>13, <1>14 DEF Inductive

LEMMA Resting ==
  ASSUME Rest, Inductive
  PROVE  InFlight' /\ PhaseOrder' /\ WellFormed(cand')
BY EmptyWellFormed DEF Rest, InFlight, PhaseOrder

LEMMA SyncStepInductive == TypeOK /\ Inductive /\ SyncStep => Inductive'
<1> SUFFICES ASSUME TypeOK, Inductive, SyncStep  PROVE Inductive'
  OBVIOUS
<1>1. /\ pc = "sync" /\ media' = disk /\ mman' = dman /\ dirty' = {}
      /\ sure' = sure \cup touch
      /\ there' = (there \ touch) \cup (touch \cap live.names)
      /\ want' = [n \in Names |-> IF n \in touch THEN goal[n] ELSE want[n]]
      /\ acked' = live.counter
      /\ Rest
      /\ UNCHANGED <<disk, dman, open, live, poisoned, faults>>
  BY DEF SyncStep, Flush
<1>2. open /\ ~poisoned /\ disk[MC] = Header /\ dman = live /\ cand = live
  BY <1>1, FlightFacts DEF Inductive, PhaseOrder
<1>3. Underway(touch, jobs, cand, goal) /\ jobs = {}
  BY <1>1 DEF Inductive, InFlight, PhaseOrder
<1>4. ChunkOwnership' /\ InFlight' /\ PhaseOrder'
  BY <1>1, Resting DEF Inductive, ChunkOwnership
<1>5. SessionOnDisk'  BY <1>1, <1>2 DEF SessionOnDisk
<1>6. CounterFloor'
  <2>1. live.counter \in Nat  BY DEF TypeOK
  <2>2. QED  BY <2>1, <1>1, <1>2 DEF CounterFloor
<1>7. Synced'
  <2>1. ASSUME NEW n \in touch  PROVE Holds(mman, media, n)'
    <3>1. n \in Names  BY DEF TypeOK
    <3>2. want'[n] = goal[n] /\ (n \in there' <=> n \in live.names)  BY <3>1, <1>1
    <3>3. /\ Len(live.chunks[n]) = Len(goal[n])
          /\ \A i \in 1..Len(live.chunks[n]) : disk[live.chunks[n][i]] = goal[n][i]
      BY <1>2, <1>3 DEF Underway
    <3>4. QED  BY <3>2, <3>3, <1>1, <1>2 DEF Holds
  <2>2. ASSUME NEW n \in sure \ touch  PROVE Holds(mman, media, n)'
    <3>1. n \in Names  BY DEF TypeOK
    <3>2. want'[n] = want[n] /\ (n \in there' <=> n \in there)  BY <3>1, <2>2, <1>1
    <3>3. Holds(mman, media, n) /\ SameEntry(mman, dman, n) /\ Listed(dman, n) \cap dirty = {}
      BY <2>2 DEF Inductive, Synced
    <3>4. ASSUME NEW i \in 1..Len(want[n])  PROVE disk[dman.chunks[n][i]] = want[n][i]
      <4>1. dman.chunks[n][i] = mman.chunks[n][i] /\ i \in 1..Len(dman.chunks[n])
        BY <3>3 DEF SameEntry, Holds
      <4>2. dman.chunks[n][i] \in Chunks \ dirty
        <5>1. dman.chunks[n][i] \in Listed(dman, n)  BY <4>1 DEF Listed
        <5>2. Listed(dman, n) \subseteq Chunks  BY <3>1, ListedType DEF TypeOK
        <5>3. QED  BY <5>1, <5>2, <3>3
      <4>3. QED  BY <4>1, <4>2, <3>3 DEF Inductive, Synced, Holds
    <3>5. QED  BY <3>2, <3>3, <3>4, <1>1 DEF Holds, SameEntry
  <2>3. \A n \in sure' : Holds(mman, media, n)'  BY <2>1, <2>2, <1>1
  <2>4. QED  BY <2>3, <1>1 DEF Synced, SameEntry
<1>8. QED  BY <1>4, <1>5, <1>6, <1>7 DEF Inductive

(***************************************************************************)
(* Faults and sessions re-establish the invariant                          *)
(***************************************************************************)
LEMMA TearEffect ==
  ASSUME TypeOK, Inductive, pc # "idle", Tear,
         UNCHANGED <<media, mman, dman, there, want>>
  PROVE  /\ Synced'
         /\ disk'[MC] \in {disk[MC], Junk}
         /\ pc = "fresh" => disk'[MC] = disk[MC]
<1>1. CASE UNCHANGED <<disk, dirty, sure>>
  BY <1>1 DEF Inductive, Synced, Holds, SameEntry
<1>2. CASE \E c \in Targets :
             /\ Put(c, Junk)
             /\ sure' = IF c \in Owned(live) \cup {MC} THEN sure \ touch ELSE sure
  <2>1. PICK c \in Targets :
          /\ Put(c, Junk)
          /\ sure' = IF c \in Owned(live) \cup {MC} THEN sure \ touch ELSE sure
    BY <1>2
  <2>2. c \in Chunks /\ (Confined(c, touch) \/ c = MC) /\ (pc = "fresh" => c # MC)
    BY FlightFacts, ChunkAssumption DEF Targets
  <2>3. sure' \in SUBSET sure /\ (sure' \cap touch = {} \/ c \notin Owned(live))  BY <2>1
  <2>4. \A n \in sure' : c \notin Listed(dman, n)  BY <2>2, <2>3, WriteEndangersTouched
  <2>5. Synced'  BY <2>1, <2>2, <2>3, <2>4, PutSynced
  <2>6. disk' = [disk EXCEPT ![c] = Junk]  BY <2>1 DEF Put
  <2>7. QED  BY <2>2, <2>5, <2>6, ChunkAssumption DEF TypeOK
<1>3. QED  BY <1>1, <1>2 DEF Tear

LEMMA ReadFailsInductive == TypeOK /\ Inductive /\ ReadFails => Inductive'
<1> SUFFICES ASSUME TypeOK, Inductive, ReadFails  PROVE Inductive'
  OBVIOUS
<1>1. Rest /\ UNCHANGED <<disk, dman, dirty, media, mman, sure, there, want, acked, open, live, poisoned>>
  BY DEF ReadFails, diskVars, mediaVars, promiseVars
<1>2. ChunkOwnership' /\ InFlight' /\ PhaseOrder'
  BY <1>1, Resting DEF Inductive, ChunkOwnership
<1>3. SessionOnDisk' /\ CounterFloor'
  BY <1>1 DEF Inductive, SessionOnDisk, CounterFloor
<1>4. Synced'  BY <1>1 DEF Inductive, Synced, Holds, SameEntry
<1>5. QED  BY <1>2, <1>3, <1>4 DEF Inductive

LEMMA FreshFailsInductive == TypeOK /\ Inductive /\ FreshFails => Inductive'
<1> SUFFICES ASSUME TypeOK, Inductive, FreshFails  PROVE Inductive'
  OBVIOUS
<1>1. /\ pc = "fresh" /\ Tear /\ Rest
      /\ UNCHANGED <<dman, media, mman, open, live, poisoned, there, want, acked>>
  BY DEF FreshFails, mediaVars
<1>2. Synced' /\ disk'[MC] = disk[MC]  BY <1>1, TearEffect
<1>3. ChunkOwnership' /\ InFlight' /\ PhaseOrder'
  BY <1>1, Resting DEF Inductive, ChunkOwnership
<1>4. SessionOnDisk' /\ CounterFloor'
  BY <1>1, <1>2 DEF Inductive, SessionOnDisk, CounterFloor
<1>5. QED  BY <1>2, <1>3, <1>4 DEF Inductive

LEMMA DestructiveFailsInductive == TypeOK /\ Inductive /\ DestructiveFails => Inductive'
<1> SUFFICES ASSUME TypeOK, Inductive, DestructiveFails  PROVE Inductive'
  OBVIOUS
<1>1. /\ pc # "idle" /\ Tear /\ Rest /\ poisoned'
      /\ UNCHANGED <<dman, media, mman, open, live, there, want, acked>>
  BY DEF DestructiveFails, Poison, mediaVars
<1>2. Synced' /\ disk'[MC] \in {disk[MC], Junk}  BY <1>1, TearEffect
<1>3. ChunkOwnership' /\ InFlight' /\ PhaseOrder'
  BY <1>1, Resting DEF Inductive, ChunkOwnership
<1>4. SessionOnDisk'  BY <1>1 DEF SessionOnDisk
<1>5. CounterFloor'
  BY <1>1, <1>2, BlockAssumption DEF Inductive, CounterFloor
<1>6. QED  BY <1>2, <1>3, <1>4, <1>5 DEF Inductive

LEMMA KillInductive == TypeOK /\ Inductive /\ Kill => Inductive'
<1> SUFFICES ASSUME TypeOK, Inductive, Kill  PROVE Inductive'
  OBVIOUS
<1>1. /\ pc # "idle" /\ Tear /\ Rest /\ open' = FALSE /\ live' = EmptyManifest
      /\ UNCHANGED <<dman, media, mman, there, want, acked>>
  BY DEF Kill, Offline, mediaVars
<1>2. Synced' /\ disk'[MC] \in {disk[MC], Junk}  BY <1>1, TearEffect
<1>3. ChunkOwnership' /\ InFlight' /\ PhaseOrder'
  BY <1>1, Resting, EmptyWellFormed DEF Inductive, ChunkOwnership
<1>4. SessionOnDisk'  BY <1>1 DEF SessionOnDisk
<1>5. CounterFloor'
  BY <1>1, <1>2, BlockAssumption DEF Inductive, CounterFloor
<1>6. QED  BY <1>2, <1>3, <1>4, <1>5 DEF Inductive

LEMMA PowerLossInductive == TypeOK /\ Inductive /\ PowerLoss => Inductive'
<1> SUFFICES ASSUME TypeOK, Inductive, PowerLoss  PROVE Inductive'
  OBVIOUS
<1>1. PICK kept \in SUBSET dirty : \E torn \in SUBSET (dirty \ kept) :
        LET after == [c \in Chunks |->
                        IF c \in torn THEN Junk ELSE IF c \in kept THEN disk[c] ELSE media[c]]
            aman  == IF MC \in kept THEN dman ELSE mman
        IN  disk' = after /\ media' = after /\ dman' = aman /\ mman' = aman
  BY DEF PowerLoss
<1>2. PICK torn \in SUBSET (dirty \ kept) :
        /\ disk' = [c \in Chunks |->
                      IF c \in torn THEN Junk ELSE IF c \in kept THEN disk[c] ELSE media[c]]
        /\ media' = disk'
        /\ dman' = (IF MC \in kept THEN dman ELSE mman) /\ mman' = dman'
  BY <1>1
<1>3. /\ dirty' = {} /\ Rest /\ open' = FALSE /\ live' = EmptyManifest
      /\ UNCHANGED <<sure, there, want, acked>>
  BY DEF PowerLoss, Offline, promiseVars
<1>4. ChunkOwnership'
  BY <1>2, <1>3, Resting, EmptyWellFormed DEF Inductive, ChunkOwnership
<1>5. InFlight' /\ PhaseOrder'  BY <1>3, Resting
<1>6. SessionOnDisk'  BY <1>3 DEF SessionOnDisk
<1>7. CounterFloor'
  <2>1. CASE MC \in torn  BY <2>1, <1>2, <1>3, ChunkAssumption, BlockAssumption DEF CounterFloor
  <2>2. CASE MC \in kept /\ MC \notin torn
    BY <2>2, <1>2, <1>3, ChunkAssumption DEF Inductive, CounterFloor
  <2>3. CASE MC \notin kept /\ MC \notin torn
    BY <2>3, <1>2, <1>3, ChunkAssumption DEF Inductive, CounterFloor
  <2>4. QED  BY <2>1, <2>2, <2>3
<1>8. Synced'
  <2>1. ASSUME NEW n \in sure
        PROVE  Holds(mman, media, n)'
    <3>1. n \in Names  BY DEF TypeOK
    <3>2. Holds(mman, media, n) /\ SameEntry(mman, dman, n) /\ Listed(dman, n) \cap dirty = {}
      BY DEF Inductive, Synced
    <3>3. SameEntry(mman, mman', n)  BY <3>2, <1>2 DEF SameEntry
    <3>4. ASSUME NEW i \in 1..Len(want[n])  PROVE media'[mman.chunks[n][i]] = want[n][i]
      <4>1. dman.chunks[n][i] = mman.chunks[n][i] /\ i \in 1..Len(dman.chunks[n])
        BY <3>2 DEF SameEntry, Holds
      <4>2. mman.chunks[n][i] \in Chunks \ dirty
        <5>1. mman.chunks[n][i] \in Listed(dman, n)  BY <4>1 DEF Listed
        <5>2. Listed(dman, n) \subseteq Chunks  BY <3>1, ListedType DEF TypeOK
        <5>3. QED  BY <5>1, <5>2, <3>2
      <4>3. media'[mman.chunks[n][i]] = media[mman.chunks[n][i]]  BY <4>2, <1>2
      <4>4. QED  BY <4>3, <3>2 DEF Holds
    <3>5. QED  BY <3>2, <3>3, <3>4, <1>3 DEF Holds, SameEntry
  <2>2. QED  BY <2>1, <1>2, <1>3 DEF Synced, SameEntry
<1>9. QED  BY <1>4, <1>5, <1>6, <1>7, <1>8 DEF Inductive

LEMMA OpenInductive == TypeOK /\ Inductive /\ Open => Inductive'
<1> SUFFICES ASSUME TypeOK, Inductive, Open  PROVE Inductive'
  OBVIOUS
<1>1. /\ ~open /\ disk[MC] = Header /\ open' /\ live' = dman
      /\ UNCHANGED <<disk, dman, dirty, media, mman, sure, there, want, acked,
                     pc, jobs, shred, cand, touch, goal, freed>>
  BY DEF Open, diskVars, mediaVars, promiseVars, opVars
<1>2. pc = "idle"  BY <1>1 DEF Inductive, InFlight
<1>3. ChunkOwnership'  BY <1>1 DEF Inductive, ChunkOwnership
<1>4. InFlight' /\ PhaseOrder'  BY <1>1, <1>2 DEF Inductive, InFlight, PhaseOrder
<1>5. SessionOnDisk' /\ CounterFloor'
  BY <1>1 DEF Inductive, SessionOnDisk, CounterFloor
<1>6. Synced'  BY <1>1 DEF Inductive, Synced, Holds, SameEntry
<1>7. QED  BY <1>3, <1>4, <1>5, <1>6 DEF Inductive

LEMMA CloseInductive == TypeOK /\ Inductive /\ Close => Inductive'
<1> SUFFICES ASSUME TypeOK, Inductive, Close  PROVE Inductive'
  OBVIOUS
<1>1. /\ pc = "idle" /\ open' = FALSE /\ live' = EmptyManifest
      /\ UNCHANGED <<disk, dman, dirty, media, mman, sure, there, want, acked,
                     pc, jobs, shred, cand, touch, goal, freed>>
  BY DEF Close, Offline, diskVars, mediaVars, promiseVars, opVars
<1>2. ChunkOwnership'  BY <1>1, EmptyWellFormed DEF Inductive, ChunkOwnership
<1>3. InFlight' /\ PhaseOrder'  BY <1>1 DEF Inductive, InFlight, PhaseOrder
<1>4. SessionOnDisk' /\ CounterFloor'
  BY <1>1 DEF Inductive, SessionOnDisk, CounterFloor
<1>5. Synced'  BY <1>1 DEF Inductive, Synced, Holds, SameEntry
<1>6. QED  BY <1>2, <1>3, <1>4, <1>5 DEF Inductive

(***************************************************************************)
(* The invariant, and what follows from it                                 *)
(***************************************************************************)
LEMMA InitInductive == Init => Inductive
<1> SUFFICES ASSUME Init  PROVE Inductive
  OBVIOUS
<1>1. /\ dman = EmptyManifest /\ mman = EmptyManifest /\ live = EmptyManifest
      /\ cand = EmptyManifest /\ pc = "idle" /\ touch = {} /\ media = disk /\ dirty = {} /\ acked = 0
      /\ there = {} /\ want = [n \in Names |-> <<>>] /\ sure = Names
      /\ disk[MC] = Header
  BY ChunkAssumption DEF Init
<1>2. ChunkOwnership  BY <1>1, EmptyWellFormed DEF ChunkOwnership
<1>3. InFlight /\ PhaseOrder  BY <1>1 DEF InFlight, PhaseOrder
<1>4. SessionOnDisk /\ CounterFloor  BY <1>1 DEF SessionOnDisk, CounterFloor, EmptyManifest
<1>5. Synced
  <2>1. ASSUME NEW n \in Names  PROVE Holds(mman, media, n) /\ SameEntry(mman, dman, n)
    <3>1. mman.chunks[n] = <<>> /\ want[n] = <<>> /\ n \notin mman.names /\ n \notin there
      BY <1>1 DEF EmptyManifest
    <3>2. Len(<<>>) = 0  BY EmptySeq
    <3>3. QED  BY <3>1, <3>2, <1>1 DEF Holds, SameEntry
  <2>2. QED  BY <2>1, <1>1 DEF Synced
<1>6. QED  BY <1>2, <1>3, <1>4, <1>5 DEF Inductive

LEMMA StepInductive == TypeOK /\ Inductive /\ [Next]_vars => Inductive'
<1> SUFFICES ASSUME TypeOK, Inductive, [Next]_vars  PROVE Inductive'
  OBVIOUS
<1>1. CASE UNCHANGED vars
  BY <1>1 DEF vars, Inductive, ChunkOwnership, InFlight, PhaseOrder, SessionOnDisk, CounterFloor,
              Synced, Elsewhere, Underway, Erased, Confined, SameEntry, Holds, FreshContent
<1>2. CASE Next
  BY <1>2, CallInductive, FreshStepInductive, ShredStepInductive, ManifestStepInductive,
     SyncStepInductive, ReadFailsInductive, FreshFailsInductive, DestructiveFailsInductive,
     KillInductive, PowerLossInductive, OpenInductive, CloseInductive
  DEF Next
<1>3. QED  BY <1>1, <1>2

\* The inductive invariant holds throughout: it is what the mutations keep true
\* between two writes, and every fault, kill and power loss leaves.
THEOREM Invariance == Spec => [](TypeOK /\ Inductive)
<1>1. QED  BY InitType, InitInductive, StepType, StepInductive, PTL DEF Spec

\* No sequence of operations and failures makes two files share a chunk or a
\* file own the manifest chunk, in any manifest the program can come to use.
THEOREM OwnershipHolds == Spec => []ChunkOwnership
<1>1. Inductive => ChunkOwnership  BY DEF Inductive
<1>2. QED  BY <1>1, Invariance, PTL

\* A session that is not poisoned works from the manifest on disk.
THEOREM LiveIsOnDisk == Spec => []LiveMatchesDisk
<1>1. Inductive => LiveMatchesDisk  BY DEF Inductive, SessionOnDisk, LiveMatchesDisk
<1>2. QED  BY <1>1, Invariance, PTL

\* No reopened vault shows a counter below the one last returned to the owner.
THEOREM CounterIsAFloor == Spec => []CounterNotBehindAck
<1>1. Inductive => CounterNotBehindAck  BY DEF Inductive, CounterFloor, CounterNotBehindAck
<1>2. QED  BY <1>1, Invariance, PTL

LEMMA PromiseKept == TypeOK /\ Inductive => SettledFilesSurvive
<1>1. ASSUME TypeOK, Inductive, NEW n \in sure  PROVE Holds(dman, disk, n)
  <2>1. n \in Names  BY <1>1 DEF TypeOK
  <2>2. Holds(mman, media, n) /\ SameEntry(mman, dman, n) /\ Listed(dman, n) \cap dirty = {}
    BY <1>1 DEF Inductive, Synced
  <2>3. ASSUME NEW i \in 1..Len(want[n])  PROVE disk[dman.chunks[n][i]] = want[n][i]
    <3>1. dman.chunks[n][i] = mman.chunks[n][i] /\ i \in 1..Len(dman.chunks[n])
      BY <2>2 DEF SameEntry, Holds
    <3>2. dman.chunks[n][i] \in Chunks \ dirty
      BY <1>1, <2>1, <2>2, <3>1, ElementOfSeq DEF Listed, TypeOK
    <3>3. QED  BY <1>1, <2>2, <3>1, <3>2 DEF Inductive, Synced, Holds
  <2>4. QED  BY <2>2, <2>3 DEF Holds, SameEntry
<1>2. QED  BY <1>1 DEF SettledFilesSurvive

\* Whatever fails and whenever: a settled file is found as it was acknowledged.
THEOREM SettledSurvive == Spec => []SettledFilesSurvive
<1>1. QED  BY PromiseKept, Invariance, PTL

\* Every chunk a mutation gave up is random on the medium when it returns Ok.
THEOREM ShreddedAtReturn == Spec => ShreddedWhenAcked
<1>1. ASSUME TypeOK, Inductive, [Next]_vars, Acknowledged, NEW c \in freed  PROVE media'[c] = Junk
  <2>1. pc = "sync" /\ pc' = "idle" /\ open' /\ ~poisoned'  BY <1>1 DEF Acknowledged
  <2>2. ~ReadFails /\ ~FreshFails /\ ~Close /\ ~FreshStep /\ ~ShredStep /\ ~ManifestStep
    BY <2>1 DEF ReadFails, FreshFails, Close, FreshStep, ShredStep, ManifestStep
  <2>3. ~UNCHANGED vars  BY <2>1 DEF vars
  <2>4. ~DestructiveFails /\ ~Kill /\ ~PowerLoss
    BY <2>1 DEF DestructiveFails, Poison, Kill, PowerLoss, Offline
  <2>5. ~Open
    BY <2>1 DEF Open, opVars
  <2>6. ~Call
    BY <2>1 DEF Call, AddFile, CreateFile, WriteRange, TruncateAligned, TruncateInside,
                RenameFile, DeleteFile, DeleteFolder, Begin, Mutable
  <2>7. SyncStep  BY <1>1, <2>2, <2>3, <2>4, <2>5, <2>6 DEF Next
  <2>8. media' = disk  BY <2>7 DEF SyncStep, Flush
  <2>9. shred = {} /\ (c \in shred \/ disk[c] = Junk)
    BY <1>1, <2>1 DEF Inductive, InFlight, Erased, PhaseOrder
  <2>10. QED  BY <2>8, <2>9
<1>2. TypeOK /\ Inductive /\ [Next]_vars
        => [Acknowledged => \A c \in freed : media'[c] = Junk]_vars
  BY <1>1
<1>3. QED  BY <1>2, Invariance, PTL DEF Spec, ShreddedWhenAcked
------------------------------------------------------------------------------

(***************************************************************************)
(* VaultEngine implements VaultStore: initial states map to initial ones,  *)
(* and every step to a request, to work on it, to its acknowledgement, or  *)
(* to no step.                                                             *)
(***************************************************************************)

files == [n \in Names |-> Found(n)]
quiet == pc = "idle" /\ dirty = {}
answer == [n \in Names |-> Outcome(n)]
lost == disk[MC] # Header

PromisesFound == \A n \in sure : Found(n) = IF n \in there THEN want[n] ELSE Gone

\* Whatever the disk holds, a settled name is found as it was promised.
LEMMA SettledFound == TypeOK /\ Inductive => PromisesFound
<1> SUFFICES ASSUME TypeOK, Inductive, NEW n \in sure
             PROVE  Found(n) = IF n \in there THEN want[n] ELSE Gone
  BY DEF PromisesFound
<1>1. n \in Names /\ want[n] \in Seq(Block)  BY DEF TypeOK
<1>2. CASE disk[MC] # Header  BY <1>2 DEF Found
<1>3. CASE disk[MC] = Header
  <2>1. Holds(dman, disk, n)  BY <1>3, PromiseKept DEF SettledFilesSurvive
  <2>2. CASE n \notin there  BY <1>3, <2>1, <2>2 DEF Found, Holds
  <2>3. CASE n \in there
    <3>1. Found(n) = [i \in 1..Len(want[n]) |-> want[n][i]]
      BY <1>3, <2>1, <2>3 DEF Found, Holds
    <3>2. want[n] = [i \in 1..Len(want[n]) |-> want[n][i]]
      <4>1. PICK k \in Nat : want[n] \in [1..k -> Block]  BY <1>1, SeqDef
      <4>2. Len(want[n]) = k  BY <4>1, ListOfFunction
      <4>3. QED  BY <4>1, <4>2
    <3>3. QED  BY <3>1, <3>2, <2>3
  <2>4. QED  BY <2>2, <2>3
<1>4. QED  BY <1>2, <1>3

\* A step that changes no promise leaves every name still settled as it was.
LEMMA SettledFilesStay ==
  ASSUME TypeOK, Inductive, TypeOK', Inductive',
         sure' \subseteq sure, UNCHANGED <<there, want>>
  PROVE  \A n \in sure' : files'[n] = files[n]
<1>1. PromisesFound  BY SettledFound
<1>2. PromisesFound'  BY SettledFound, PTL
<1>3. sure \subseteq Names  BY DEF TypeOK
<1>4. QED  BY <1>1, <1>2, <1>3 DEF files, PromisesFound

LEMMA NothingAsked == touch = {} => answer = [n \in Names |-> Gone]
BY DEF answer, Outcome

\* Steps that are work on the request in progress, its failure, or, when no
\* request is in progress, the end of unsynced writes.
LEMMA MapsToWork ==
  ASSUME TypeOK, Inductive, TypeOK', Inductive', ~quiet,
         sure' \subseteq sure, sure \ sure' \subseteq touch, UNCHANGED <<there, want>>,
         Rest \/ UNCHANGED <<touch, cand, goal>>
  PROVE  Store!Work
<1>1. \A n \in sure' : files'[n] = files[n]  BY SettledFilesStay
<1>2. CASE Rest
  <2>1. touch' = {}  BY <1>2 DEF Rest
  <2>2. answer' = [n \in Names |-> Gone]  BY <2>1 DEF answer, Outcome
  <2>3. QED
    BY <1>1, <2>1, <2>2 DEF Store!Work, Store!NoAnswer, files, quiet, answer
<1>3. CASE UNCHANGED <<touch, cand, goal>>
  <2>1. UNCHANGED <<touch, answer>>  BY <1>3 DEF answer, Outcome
  <2>2. QED  BY <1>1, <2>1 DEF Store!Work, files, quiet, answer
<1>4. QED  BY <1>2, <1>3

\* What every mutation has in common when it starts.
Started == /\ Mutable /\ pc' # "idle"
           /\ UNCHANGED <<disk, dman, there, want, sure>>

LEMMA BeginStarts ==
  ASSUME NEW S, NEW js, NEW ss, NEW m, NEW g, Begin(S, js, ss, m, g)
  PROVE  Started
BY DEF Begin, Phase, diskVars, promiseVars, Started

LEMMA CallStarts == Call => Started
<1>1. ASSUME NEW n, NEW d, AddFile(n, d)  PROVE Started  BY <1>1, BeginStarts DEF AddFile
<1>2. ASSUME NEW n, CreateFile(n)  PROVE Started  BY <1>2, BeginStarts DEF CreateFile
<1>3. ASSUME NEW n, DeleteFile(n)  PROVE Started  BY <1>3, BeginStarts DEF DeleteFile
<1>4. ASSUME NEW n, NEW lo, NEW hi, NEW v, WriteRange(n, lo, hi, v)  PROVE Started
  BY <1>4, BeginStarts DEF WriteRange
<1>5. ASSUME NEW n, NEW k, TruncateAligned(n, k)  PROVE Started
  BY <1>5, BeginStarts DEF TruncateAligned
<1>6. ASSUME NEW n, NEW k, NEW v, TruncateInside(n, k, v)  PROVE Started
  BY <1>6, BeginStarts DEF TruncateInside
<1>7. ASSUME NEW a, NEW b, RenameFile(a, b)  PROVE Started  BY <1>7, BeginStarts DEF RenameFile
<1>8. ASSUME NEW f, DeleteFolder(f)  PROVE Started  BY <1>8, BeginStarts DEF DeleteFolder
<1>9. QED  BY <1>1, <1>2, <1>3, <1>4, <1>5, <1>6, <1>7, <1>8 DEF Call

LEMMA CallMaps ==
  ASSUME TypeOK, Inductive, TypeOK', Call
  PROVE  Store!Ask
<1>1. Started  BY CallStarts
<1>2. /\ pc = "idle" /\ pc' # "idle"
      /\ UNCHANGED <<disk, dman, there, want, sure>>
  BY <1>1 DEF Started, Mutable
<1>3. touch = {} /\ touch' \in SUBSET Names
  BY <1>2 DEF Inductive, PhaseOrder, TypeOK
<1>4. answer' \in [Names -> Seq(Block) \cup {Gone}]
  BY DEF answer, Outcome, TypeOK
<1>5. UNCHANGED <<files, lost>>  BY <1>2 DEF files, Found, lost
<1>6. QED
  BY <1>2, <1>3, <1>4, <1>5 DEF Store!Ask, files, quiet, answer, lost

LEMMA SyncStepMaps ==
  ASSUME TypeOK, Inductive, SyncStep
  PROVE  Store!Acknowledge
<1>1. /\ pc = "sync" /\ pc' = "idle" /\ dirty' = {} /\ touch' = {}
      /\ sure' = sure \cup touch /\ UNCHANGED <<disk, dman>>
  BY DEF SyncStep, Rest, Flush
<1>2. disk[MC] = Header /\ dman = cand
  BY <1>1, FlightFacts DEF Inductive, PhaseOrder
<1>3. Underway(touch, jobs, cand, goal) /\ jobs = {}
  BY <1>1 DEF Inductive, InFlight, PhaseOrder
<1>4. ASSUME NEW n \in touch  PROVE files[n] = answer[n]
  <2>1. n \in Names  BY DEF TypeOK
  <2>2. CASE n \notin cand.names  BY <2>1, <2>2, <1>2 DEF files, answer, Found, Outcome
  <2>3. CASE n \in cand.names
    <3>1. Found(n) = [i \in 1..Len(goal[n]) |-> goal[n][i]]
      BY <1>2, <1>3, <2>3 DEF Found, Underway
    <3>2. goal[n] \in Seq(Block)  BY <2>1 DEF TypeOK
    <3>3. PICK k \in Nat : goal[n] \in [1..k -> Block]  BY <3>2, SeqDef
    <3>4. Len(goal[n]) = k  BY <3>3, ListOfFunction
    <3>5. Found(n) = goal[n]  BY <3>1, <3>3, <3>4
    <3>6. Outcome(n) = goal[n]  BY <2>3 DEF Outcome
    <3>7. QED  BY <2>1, <3>5, <3>6 DEF files, answer
  <2>4. QED  BY <2>2, <2>3
<1>5. UNCHANGED <<files, lost>>  BY <1>1, <1>2 DEF files, Found, lost
<1>6. answer' = [n \in Names |-> Gone]  BY <1>1 DEF answer, Outcome
<1>7. ~lost /\ ~quiet /\ quiet'  BY <1>1, <1>2 DEF lost, quiet
<1>8. QED
  BY <1>1, <1>4, <1>5, <1>6, <1>7
  DEF Store!Acknowledge, Store!NoAnswer, files, quiet, answer, lost

LEMMA InitMaps == Init => Store!Init
<1> SUFFICES ASSUME Init  PROVE Store!Init
  OBVIOUS
<1>1. /\ dman = EmptyManifest /\ pc = "idle" /\ dirty = {} /\ touch = {} /\ sure = Names
      /\ disk[MC] = Header
  BY ChunkAssumption DEF Init
<1>2. \A n \in Names : Found(n) = Gone  BY <1>1 DEF Found, EmptyManifest
<1>3. \A n \in Names : Outcome(n) = Gone  BY <1>1 DEF Outcome
<1>4. QED  BY <1>1, <1>2, <1>3 DEF Store!Init, Store!NoAnswer

LEMMA StepMaps ==
  TypeOK /\ Inductive /\ TypeOK' /\ Inductive' /\ [Next]_vars => [Store!Next]_Store!storeVars
<1> SUFFICES ASSUME TypeOK, Inductive, TypeOK', Inductive', [Next]_vars
             PROVE  Store!Next \/ UNCHANGED Store!storeVars
  OBVIOUS
<1>1. CASE Call  BY <1>1, CallMaps DEF Store!Next
<1>2. CASE FreshStep
  <2>1. pc = "fresh" /\ sure' \subseteq sure /\ sure \ sure' \subseteq touch
        /\ UNCHANGED <<there, want, touch, cand, goal>>
    BY <1>2 DEF FreshStep
  <2>2. QED  BY <2>1, MapsToWork DEF quiet, Store!Next
<1>3. CASE ShredStep
  <2>1. pc = "shred" /\ sure' \subseteq sure /\ sure \ sure' \subseteq touch
        /\ UNCHANGED <<there, want, touch, cand, goal>>
    BY <1>3 DEF ShredStep, Unsettle
  <2>2. QED  BY <2>1, MapsToWork DEF quiet, Store!Next
<1>4. CASE ManifestStep
  <2>1. pc = "manifest" /\ sure' \subseteq sure /\ sure \ sure' \subseteq touch
        /\ UNCHANGED <<there, want, touch, cand, goal>>
    BY <1>4 DEF ManifestStep, Unsettle
  <2>2. QED  BY <2>1, MapsToWork DEF quiet, Store!Next
<1>5. CASE SyncStep  BY <1>5, SyncStepMaps DEF Store!Next
<1>6. CASE ReadFails
  <2>1. pc = "fresh" /\ Rest /\ UNCHANGED <<sure, there, want>>
    BY <1>6 DEF ReadFails, promiseVars
  <2>2. QED  BY <2>1, MapsToWork DEF quiet, Store!Next
<1>7. CASE FreshFails \/ DestructiveFails \/ Kill
  <2>1. pc # "idle" /\ Rest /\ Tear /\ UNCHANGED <<there, want>>
    BY <1>7 DEF FreshFails, DestructiveFails, Kill
  <2>2. sure' \subseteq sure /\ sure \ sure' \subseteq touch  BY <2>1 DEF Tear
  <2>3. QED  BY <2>1, <2>2, MapsToWork DEF quiet, Store!Next
<1>8. CASE PowerLoss
  <2>1. dirty # {} /\ Rest /\ UNCHANGED <<sure, there, want>>
    BY <1>8 DEF PowerLoss, promiseVars
  <2>2. QED  BY <2>1, MapsToWork DEF quiet, Store!Next
<1>9. CASE Open \/ Close \/ UNCHANGED vars
  <2>1. UNCHANGED <<disk, dman, dirty, sure, there, want, pc, touch, cand, goal>>
    BY <1>9 DEF Open, Close, vars, diskVars, promiseVars, opVars
  <2>2. UNCHANGED <<files, lost, quiet, answer>>
    BY <2>1 DEF files, Found, lost, quiet, answer, Outcome
  <2>3. QED  BY <2>1, <2>2 DEF Store!storeVars, files, lost, quiet, answer
<1>10. QED
  BY <1>1, <1>2, <1>3, <1>4, <1>5, <1>6, <1>7, <1>8, <1>9 DEF Next

\* What callers see of the engine is what VaultStore allows, for every number
\* of names and chunks, every sequence of calls and every failure.
THEOREM Implementation == Spec => ImplementsStore
<1>1. Spec => Store!Init /\ [][Store!Next]_Store!storeVars
  BY InitMaps, StepMaps, Invariance, PTL DEF Spec
<1>2. QED  BY <1>1 DEF ImplementsStore, Store!Spec
==============================================================================
