----------------------------- MODULE SessionProofs -----------------------------
(***************************************************************************)
(* Proofs about Session: whatever the vaults and however many lock events  *)
(* and calls, the HID executor alone talks to keys, and a call that was    *)
(* started before a lock event never opens a vault.                        *)
(***************************************************************************)
EXTENDS Session, SequenceTheorems, TLAPS

\* What each queue holds: calls that have no answer yet, and answers, of which
\* only those that may carry something do.
HidTask == {t \in Task : t.op \notin PoolOps /\ t.got = None}
PoolTask == {t \in Task : t.op \in PoolOps /\ t.got = None}
Result == {t \in Task : t.op # "close" /\ (t.op \in {"migrate", "migrateHw", "removeKey"} => t.got = None)}

\* What makes the generation enough: a call that a lock event overtook carries
\* an older one.
Current == {t \in Task : t.gen <= generation /\ (t.late => t.gen < generation)}

-----------------------------------------------------------------------------
\* Removing an element leaves a sequence over the same set.
LEMMA RemoveAtType ==
  ASSUME NEW S, NEW s \in Seq(S), NEW i \in 1..Len(s)
  PROVE  RemoveAt(s, i) \in Seq(S)
<1>1. SubSeq(s, 1, i - 1) \in Seq(S)
  BY SubSeqProperties
<1>2. SubSeq(s, i + 1, Len(s)) \in Seq(S)
  BY SubSeqProperties
<1>3. QED  BY <1>1, <1>2, ConcatProperties DEF RemoveAt

\* A new task is one of this generation.
LEMMA NewTaskType ==
  ASSUME generation \in Nat, NEW op \in HidOps \cup PoolOps \cup {"close"},
         NEW v \in Vaults \cup {None}
  PROVE  NewTask(op, v, FALSE) \in Current /\ NewTask(op, v, FALSE).op = op
         /\ NewTask(op, v, FALSE).got = None /\ NewTask(op, v, FALSE).vault = v
BY DEF NewTask, Current, Task

\* A result is its task with something handed back: if a handle, then on a vault
\* that was not open.
LEMMA ResultType ==
  ASSUME NEW t \in Current, t.got = None, NEW r \in Results(t)
  PROVE  /\ r \in Current /\ r.op = t.op
         /\ r.op \in {"migrate", "migrateHw", "removeKey"} => r.got = None
         /\ Carries(r) => r.got \in Vaults \ live
<1> DEFINE free == t.vault \in Vaults \ live
<1>1. \/ r = t
      \/ t.op \in {"open", "create", "addKey", "convert"} /\ free /\ r = [t EXCEPT !.got = t.vault]
      \/ t.op \in {"migrate", "migrateHw"} /\ \E v \in Vaults \ live : r = [t EXCEPT !.vault = v]
      \/ t.op = "loadKeys" /\ r = [t EXCEPT !.got = t.vault]
  BY DEF Results
<1>2. CASE r = t
  BY <1>2 DEF Carries
<1>3. CASE r = [t EXCEPT !.got = t.vault] /\ (free \/ t.op = "loadKeys")
           /\ t.op \notin {"migrate", "migrateHw", "removeKey"}
  BY <1>3 DEF Current, Task, Carries
<1>4. CASE \E v \in Vaults \ live : r = [t EXCEPT !.vault = v]
  BY <1>4 DEF Current, Task, Carries
<1>5. QED  BY <1>1, <1>2, <1>3, <1>4

\* A lock event leaves the tasks where they are, and behind its generation.
LEMMA LateType ==
  ASSUME NEW S, S \subseteq Task, NEW tasks \in Seq(S \cap Current),
         \A t \in S : [t EXCEPT !.late = TRUE] \in S,
         generation \in Nat, generation' = generation + 1
  PROVE  Late(tasks) \in Seq(S) /\ Late(tasks) \in Seq(Current')
<1>1. \A t \in S \cap Current : [t EXCEPT !.late = TRUE] \in S \cap Current'
  <2> SUFFICES ASSUME NEW t \in S, t \in Current
               PROVE  [t EXCEPT !.late = TRUE] \in Current'
    OBVIOUS
  <2>1. t.gen \in Nat /\ t.gen <= generation
    BY DEF Current, Task
  <2>2. [t EXCEPT !.late = TRUE] \in Task /\ [t EXCEPT !.late = TRUE].gen = t.gen
    BY DEF Current, Task
  <2>3. t.gen <= generation' /\ t.gen < generation'
    BY <2>1
  <2>4. QED  BY <2>2, <2>3, Zenon DEF Current
<1>2. \A i \in 1..Len(tasks) : [tasks[i] EXCEPT !.late = TRUE] \in S \cap Current'
  BY <1>1
<1>3. Late(tasks) \in [1..Len(tasks) -> S \cap Current']
  BY <1>2 DEF Late
<1>4. Late(tasks) \in Seq(S \cap Current')
  BY <1>3
<1>5. QED  BY <1>4

-----------------------------------------------------------------------------
\* The first invariant in two halves: the window, and the queues.
Window ==
  /\ generation \in 0..MaxLocks /\ lockPending \in BOOLEAN
  /\ handle \in Vaults \cup {None} /\ keys \in Vaults \cup {None}
  /\ busy \in BOOLEAN /\ keyOp \in BOOLEAN /\ keysLoading \in BOOLEAN
  /\ live \subseteq Vaults

Queues ==
  /\ hid \in Seq(HidTask) /\ hid \in Seq(Current)
  /\ pool \in Seq(PoolTask) /\ pool \in Seq(Current)
  /\ done \in Seq(Result) /\ done \in Seq(Current)

\* Without a lock event, queues that only gain and lose tasks of this
\* generation keep their types.
LEMMA QueuesKeep ==
  ASSUME generation' = generation,
         hid' \in Seq(HidTask) /\ hid' \in Seq(Current),
         pool' \in Seq(PoolTask) /\ pool' \in Seq(Current),
         done' \in Seq(Result) /\ done' \in Seq(Current)
  PROVE  Queues'
<1>1. Current' = Current
  BY DEF Current
<1>2. HidTask' = HidTask /\ PoolTask' = PoolTask /\ Result' = Result
  OBVIOUS
<1>3. QED  BY <1>1, <1>2 DEF Queues

LEMMA HidAppend ==
  ASSUME Window, Queues, NEW op \in HidOps \cup {"close"}, NEW v \in Vaults \cup {None}
  PROVE  /\ Append(hid, NewTask(op, v, FALSE)) \in Seq(HidTask)
         /\ Append(hid, NewTask(op, v, FALSE)) \in Seq(Current)
<1>1. generation \in Nat
  BY SessionAssumption DEF Window
<1>2. PICK t : t = NewTask(op, v, FALSE)
  OBVIOUS
<1>3. t \in Current /\ t.op = op /\ t.got = None
  BY <1>1, <1>2, NewTaskType, Zenon
<1>4. t \in HidTask
  BY <1>3 DEF HidTask, Current, HidOps, PoolOps
<1>5. Append(hid, t) \in Seq(HidTask) /\ Append(hid, t) \in Seq(Current)
  BY <1>3, <1>4, AppendProperties DEF Queues
<1>6. QED  BY <1>2, <1>5, Zenon

LEMMA PoolAppend ==
  ASSUME Window, Queues, NEW op \in PoolOps, NEW v \in Vaults \cup {None}
  PROVE  /\ Append(pool, NewTask(op, v, FALSE)) \in Seq(PoolTask)
         /\ Append(pool, NewTask(op, v, FALSE)) \in Seq(Current)
<1>1. generation \in Nat
  BY SessionAssumption DEF Window
<1>2. PICK t : t = NewTask(op, v, FALSE)
  OBVIOUS
<1>3. t \in Current /\ t.op = op /\ t.got = None
  BY <1>1, <1>2, NewTaskType, Zenon
<1>4. t \in PoolTask
  BY <1>3 DEF PoolTask, Current
<1>5. Append(pool, t) \in Seq(PoolTask) /\ Append(pool, t) \in Seq(Current)
  BY <1>3, <1>4, AppendProperties DEF Queues
<1>6. QED  BY <1>2, <1>5, Zenon

-----------------------------------------------------------------------------
LEMMA UserKeeps ==
  ASSUME Window, Queues,
         \/ \E v \in Vaults : Unlock(v) \/ CreateVault(v)
         \/ LockNow
         \/ \E op \in {"migrate", "migrateHw"} : Migrate(op)
         \/ \E op \in {"addKey", "convert"} : KeyCall(op)
         \/ RemoveKey
         \/ LoadKeys
  PROVE  Window' /\ Queues'
<1> USE DEF Window, Close
<1>1. ASSUME NEW v \in Vaults, Unlock(v)  PROVE Window' /\ Queues'
  <2>1. Window'  BY <1>1 DEF Unlock, OpenHw
  <2>2. Queues'
    BY <1>1, HidAppend, QueuesKeep DEF Unlock, OpenHw, Queues, HidOps
  <2>3. QED  BY <2>1, <2>2
<1>2. ASSUME NEW v \in Vaults, CreateVault(v)  PROVE Window' /\ Queues'
  <2>1. Window'  BY <1>2 DEF CreateVault
  <2>2. Queues'
    BY <1>2, HidAppend, QueuesKeep DEF CreateVault, Queues, HidOps
  <2>3. QED  BY <2>1, <2>2
<1>3. ASSUME LockNow  PROVE Window' /\ Queues'
  BY <1>3, QueuesKeep DEF LockNow, Queues
<1>4. ASSUME NEW op \in {"migrate", "migrateHw"}, Migrate(op)  PROVE Window' /\ Queues'
  <2>1. Window'  BY <1>4 DEF Migrate
  <2>2. Queues'
    BY <1>4, HidAppend, QueuesKeep DEF Migrate, Queues, HidOps
  <2>3. QED  BY <2>1, <2>2
<1>5. ASSUME NEW op \in {"addKey", "convert"}, KeyCall(op)  PROVE Window' /\ Queues'
  <2>1. Window'  BY <1>5 DEF KeyCall
  <2>2. Queues'
    BY <1>5, HidAppend, QueuesKeep DEF KeyCall, Queues, HidOps
  <2>3. QED  BY <2>1, <2>2
<1>6. ASSUME RemoveKey  PROVE Window' /\ Queues'
  <2>1. Window'  BY <1>6 DEF RemoveKey
  <2>2. Queues'
    BY <1>6, PoolAppend, QueuesKeep DEF RemoveKey, Queues, PoolOps
  <2>3. QED  BY <2>1, <2>2
<1>7. ASSUME LoadKeys  PROVE Window' /\ Queues'
  <2>1. Window'  BY <1>7 DEF LoadKeys
  <2>2. Queues'
    BY <1>7, PoolAppend, QueuesKeep DEF LoadKeys, Queues, PoolOps
  <2>3. QED  BY <2>1, <2>2
<1>8. QED  BY <1>1, <1>2, <1>3, <1>4, <1>5, <1>6, <1>7

LEMMA AutoLockKeeps ==
  ASSUME Window, Queues, AutoLock
  PROVE  Window' /\ Queues'
<1>1. Window'
  BY SessionAssumption DEF Window, AutoLock, Close
<1>2. generation \in Nat /\ generation' = generation + 1
  BY SessionAssumption DEF Window, AutoLock
<1>3. hid' \in Seq(HidTask) /\ hid' \in Seq(Current')
  <2>1. hid \in Seq(HidTask \cap Current)
    BY DEF Queues
  <2>2. HidTask \subseteq Task /\ \A t \in HidTask : [t EXCEPT !.late = TRUE] \in HidTask
    BY DEF HidTask, Task
  <2>3. QED  BY <1>2, <2>1, <2>2, LateType DEF AutoLock
<1>4. pool' \in Seq(PoolTask) /\ pool' \in Seq(Current')
  <2>1. pool \in Seq(PoolTask \cap Current)
    BY DEF Queues
  <2>2. PoolTask \subseteq Task /\ \A t \in PoolTask : [t EXCEPT !.late = TRUE] \in PoolTask
    BY DEF PoolTask, Task
  <2>3. QED  BY <1>2, <2>1, <2>2, LateType DEF AutoLock
<1>5. done' \in Seq(Result) /\ done' \in Seq(Current')
  <2>1. done \in Seq(Result \cap Current)
    BY DEF Queues
  <2>2. Result \subseteq Task /\ \A t \in Result : [t EXCEPT !.late = TRUE] \in Result
    BY DEF Result, Task
  <2>3. QED  BY <1>2, <2>1, <2>2, LateType DEF AutoLock
<1>6. HidTask' = HidTask /\ PoolTask' = PoolTask /\ Result' = Result
  OBVIOUS
<1>7. QED  BY <1>1, <1>3, <1>4, <1>5, <1>6 DEF Queues

\* The facts about one call and its result.
LEMMA TaskFacts ==
  ASSUME NEW t \in Current
  PROVE  /\ t \in Task /\ t.vault \in Vaults \cup {None} /\ t.got \in Vaults \cup {None}
         /\ t.gen \in Nat /\ t.late \in BOOLEAN
BY DEF Current, Task

LEMMA RunHidKeeps ==
  ASSUME Window, Queues, RunHid
  PROVE  Window' /\ Queues'
<1>1. Head(hid) \in HidTask /\ Head(hid) \in Current
      /\ hid' \in Seq(HidTask) /\ hid' \in Seq(Current)
  BY HeadTailProperties DEF Queues, RunHid
<1>2. CASE Head(hid).op = "close"
  <2>1. live' = live \ {Head(hid).vault} /\ done' = done
    BY <1>2 DEF RunHid
  <2>2. Window'  BY <2>1 DEF Window, RunHid
  <2>3. Queues'  BY <1>1, <2>1, QueuesKeep DEF Queues, RunHid
  <2>4. QED  BY <2>2, <2>3
<1>3. CASE Head(hid).op # "close"
  <2>1. PICK r \in Results(Head(hid)) :
          done' = Append(done, r) /\ live' = IF Carries(r) THEN live \cup {r.got} ELSE live
    BY <1>3 DEF RunHid
  <2>2. r \in Current /\ r \in Result /\ r.got \in Vaults \cup {None}
    BY <1>1, <1>3, ResultType, TaskFacts DEF Result, HidTask
  <2>3. Window'  BY <2>1, <2>2 DEF Window, RunHid, Carries
  <2>4. done' \in Seq(Result) /\ done' \in Seq(Current)
    BY <2>1, <2>2, AppendProperties DEF Queues
  <2>5. Queues'  BY <1>1, <2>4, QueuesKeep DEF Queues, RunHid
  <2>6. QED  BY <2>3, <2>5
<1>4. QED  BY <1>2, <1>3

LEMMA RunPoolKeeps ==
  ASSUME Window, Queues, NEW i \in 1..Len(pool), RunPool(i)
  PROVE  Window' /\ Queues'
<1>1. pool[i] \in PoolTask /\ pool[i] \in Current
  BY DEF Queues
<1>2. PICK r \in Results(pool[i]) : done' = Append(done, r)
  BY DEF RunPool
<1>3. r \in Current /\ r \in Result
  BY <1>1, ResultType, TaskFacts DEF Result, PoolTask, PoolOps
<1>4. done' \in Seq(Result) /\ done' \in Seq(Current)
  BY <1>2, <1>3, AppendProperties DEF Queues
<1>5. pool' \in Seq(PoolTask) /\ pool' \in Seq(Current)
  BY RemoveAtType DEF RunPool, Queues
<1>6. Queues'  BY <1>4, <1>5, QueuesKeep DEF Queues, RunPool
<1>7. Window'  BY DEF Window, RunPool
<1>8. QED  BY <1>6, <1>7

-----------------------------------------------------------------------------
\* The delivery of a result changes the window within its types, and the HID
\* executor gets at most a task of this generation.
LEMMA DiscardKeeps ==
  ASSUME Window, Queues, NEW r \in Current, Discard(r)
  PROVE  /\ lockPending' \in BOOLEAN /\ keyOp' \in BOOLEAN
         /\ handle' \in Vaults \cup {None} /\ keys' \in Vaults \cup {None}
         /\ live' \subseteq Vaults
         /\ hid' \in Seq(HidTask) /\ hid' \in Seq(Current)
<1>1. hid' \in Seq(HidTask) /\ hid' \in Seq(Current)
  BY TaskFacts, HidAppend DEF Discard, Queues
<1>2. QED  BY <1>1 DEF Discard, Close, Window

LEMMA OpenHwKeeps ==
  ASSUME Window, Queues, NEW r \in Current, ~Gate(r), OpenHw(r.vault, r.late)
  PROVE  hid' \in Seq(HidTask) /\ hid' \in Seq(Current) /\ busy' \in BOOLEAN
<1>1. r.late = FALSE /\ r.vault \in Vaults \cup {None}
  <2>1. r.late \in BOOLEAN /\ r.gen = generation /\ (r.late => r.gen < generation)
    BY TaskFacts DEF Gate, Current
  <2>2. ~(r.gen < generation)
    BY <2>1, SessionAssumption DEF Window
  <2>3. QED  BY <2>1, <2>2, TaskFacts
<1>2. hid' = Append(hid, NewTask("open", r.vault, FALSE)) /\ busy' = TRUE
  BY <1>1 DEF OpenHw
<1>3. "open" \in HidOps \cup {"close"}
  BY DEF HidOps
<1>4. QED  BY <1>1, <1>2, <1>3, HidAppend

LEMMA DeliverKeeps ==
  ASSUME Window, Queues, NEW i \in 1..Len(done), Deliver(i)
  PROVE  Window' /\ Queues'
<1> DEFINE r == done[i]
<1>1. r \in Current /\ r \in Result
  BY DEF Queues
<1>2. r.got \in Vaults \cup {None} /\ r.vault \in Vaults \cup {None}
  BY <1>1, TaskFacts
<1>3. Adopt(r) \/ OpenFailed(r) \/ Migrated(r) \/ KeyCallEnded(r) \/ KeysRead(r)
  BY DEF Deliver
<1>4. generation' = generation /\ pool' = pool /\ done' = RemoveAt(done, i)
  BY DEF Deliver
<1> HIDE DEF r
<1> DEFINE Good == Window' /\ hid' \in Seq(HidTask) /\ hid' \in Seq(Current)
<1>5. ASSUME Adopt(r) PROVE Good
  <2>1. CASE Gate(r)
    BY <1>1, <1>4, <1>5, <2>1, DiscardKeeps DEF Adopt, Window
  <2>2. CASE ~Gate(r)
    BY <1>2, <1>4, <1>5, <2>2 DEF Adopt, FinishOpen, Carries, Window, Queues
  <2>3. QED  BY <2>1, <2>2
<1>6. ASSUME OpenFailed(r) PROVE Good
  BY <1>4, <1>6 DEF OpenFailed, ApplyPendingLock, Close, Window, Queues
<1>7. ASSUME Migrated(r) PROVE Good
  <2>1. CASE Gate(r) /\ busy' = FALSE /\ Discard(r)
    BY <1>1, <1>4, <1>7, <2>1, DiscardKeeps DEF Migrated, Window
  <2>2. CASE ~Gate(r) /\ OpenHw(r.vault, r.late) /\ UNCHANGED <<lockPending, handle, keyOp, keys, live>>
    BY <1>1, <1>4, <1>7, <2>2, OpenHwKeeps DEF Migrated, Window
  <2>3. CASE /\ ~Gate(r) /\ busy' = FALSE
             /\ \/ UNCHANGED <<lockPending, handle, keyOp, keys, live, hid>>
                \/ /\ r.vault \in Vaults \ live
                   /\ handle' = r.vault /\ keyOp' = FALSE
                   /\ live' = live \cup {r.vault}
                   /\ UNCHANGED <<lockPending, keys, hid>>
    BY <1>4, <1>7, <2>3 DEF Migrated, Window, Queues
  <2>4. QED  BY <1>7, <2>1, <2>2, <2>3 DEF Migrated
<1>8. ASSUME KeyCallEnded(r) PROVE Good
  <2>1. CASE Gate(r) /\ busy' = (busy /\ r.op = "removeKey") /\ Discard(r)
    BY <1>1, <1>4, <1>8, <2>1, DiscardKeeps DEF KeyCallEnded, Window
  <2>2. CASE ~Gate(r) /\ OpenHw(r.vault, r.late) /\ UNCHANGED <<lockPending, handle, keyOp, keys, live>>
    BY <1>1, <1>4, <1>8, <2>2, OpenHwKeeps DEF KeyCallEnded, Window
  <2>3. QED  BY <1>8, <2>1, <2>2 DEF KeyCallEnded
<1>9. ASSUME KeysRead(r) PROVE Good
  BY <1>2, <1>4, <1>9 DEF KeysRead, Window, Queues
<1>10. Good
  BY <1>3, <1>5, <1>6, <1>7, <1>8, <1>9
<1>11. done' \in Seq(Result) /\ done' \in Seq(Current)
  BY <1>4, RemoveAtType DEF Queues
<1>12. Queues'
  <2>1. pool' \in Seq(PoolTask) /\ pool' \in Seq(Current)
    BY <1>4 DEF Queues
  <2>2. QED  BY <1>4, <1>10, <1>11, <2>1, QueuesKeep
<1>13. QED  BY <1>10, <1>12

-----------------------------------------------------------------------------
LEMMA InitHolds == Init => Window /\ Queues
<1>1. Init => Window
  <2>1. 0 \in 0..MaxLocks
    BY SessionAssumption
  <2>2. QED  BY <2>1, Zenon DEF Init, Window
<1>2. \A S : <<>> \in Seq(S)
  OBVIOUS
<1>3. Init => Queues
  BY <1>2, Zenon DEF Init, Queues
<1>4. QED  BY <1>1, <1>3

LEMMA NextKeeps == Window /\ Queues /\ [Next]_vars => Window' /\ Queues'
<1> SUFFICES ASSUME Window, Queues, [Next]_vars
             PROVE  Window' /\ Queues'
  OBVIOUS
<1>1. CASE UNCHANGED vars
  BY <1>1, QueuesKeep DEF vars, Window, Queues
<1>2. CASE Next
  BY <1>2, UserKeeps, AutoLockKeeps, RunHidKeeps, RunPoolKeeps, DeliverKeeps DEF Next
<1>3. QED  BY <1>1, <1>2

\* The invariant holds of every behaviour.
THEOREM SessionInvariant == Spec => [](Window /\ Queues)
BY InitHolds, NextKeeps, PTL DEF Spec

\* Every variable keeps its type: no work that talks to keys (open, create,
\* migrate, enroll, convert) is ever on the global queue.
THEOREM SessionTypes == Spec => []TypeOK
<1>1. Window /\ Queues => TypeOK
  BY DEF Window, Queues, TypeOK, HidTask, PoolTask, Result
<1>2. QED  BY <1>1, SessionInvariant, PTL

\* A call that was started before a lock event never opens a vault.
THEOREM LateNever == Spec => LateNeverOpens
<1>1. Window /\ Queues /\ [Next]_vars =>
        [\A i \in 1..Len(done) : Deliver(i) /\ done[i].late => handle' \in {None, handle}]_vars
  <2> SUFFICES ASSUME Window, Queues, NEW i \in 1..Len(done), Deliver(i), done[i].late
               PROVE  handle' \in {None, handle}
    BY Zenon
  <2> DEFINE r == done[i]
  <2>1. r \in Current
    BY DEF Queues
  <2>2. Gate(r)
    <3>1. r.gen \in Nat /\ r.gen < generation
      BY <2>1, TaskFacts DEF Current
    <3>2. r.gen # generation
      BY <3>1
    <3>3. QED  BY <3>2 DEF Gate
  <2>3. Adopt(r) \/ OpenFailed(r) \/ Migrated(r) \/ KeyCallEnded(r) \/ KeysRead(r)
    BY DEF Deliver
  <2> HIDE DEF r
  <2>4. ASSUME Discard(r)  PROVE handle' \in {None, handle}
    BY <2>4 DEF Discard, Close
  <2>5. QED
    BY <2>2, <2>3, <2>4
    DEF Adopt, OpenFailed, ApplyPendingLock, Close, Migrated, KeyCallEnded, KeysRead
<1>2. QED  BY <1>1, SessionInvariant, PTL DEF Spec, LateNeverOpens

-----------------------------------------------------------------------------
(***************************************************************************)
(* Ownership of handles: NoStaleHandle of any results d, HID tasks q,      *)
(* session handle h and open vaults lv.                                    *)
(***************************************************************************)
Hands(d) == {i \in 1..Len(d) : Carries(d[i])}
Closes(q) == {i \in 1..Len(q) : q[i].op = "close"}

Sole(d, q, h, lv) ==
  /\ h # None => h \in lv
  /\ \A i \in Hands(d) : d[i].got \in lv \ {h}
  /\ \A i \in Closes(q) : q[i].vault \in lv \ {h}
  /\ \A i, j \in Hands(d) : d[i].got = d[j].got => i = j
  /\ \A i, j \in Closes(q) : q[i].vault = q[j].vault => i = j
  /\ \A i \in Hands(d), j \in Closes(q) : d[i].got # q[j].vault

LEMMA SoleIsNoStaleHandle == Sole(done, hid, handle, live) <=> NoStaleHandle
BY DEF Sole, NoStaleHandle, Hands, Closes, Handed, Closing

\* The session's handle is closed.
LEMMA SoleClose ==
  ASSUME NEW d, NEW q, NEW h, NEW lv, lv \subseteq Vaults, Sole(d, q, h, lv)
  PROVE  Sole(d, q, None, lv \ {h})
BY SessionAssumption DEF Sole

\* The session takes a vault that was not open.
LEMMA SoleReopen ==
  ASSUME NEW d, NEW q, NEW h, NEW lv, NEW v, v \notin lv, Sole(d, q, h, lv)
  PROVE  Sole(d, q, v, lv \cup {v})
BY DEF Sole

\* A call is queued that is not a close.
LEMMA SolePush ==
  ASSUME NEW d, NEW q \in Seq(HidTask), NEW h, NEW lv, Sole(d, q, h, lv),
         NEW t \in HidTask, t.op # "close"
  PROVE  Sole(d, Append(q, t), h, lv)
<1>1. Closes(Append(q, t)) = Closes(q) /\ \A i \in Closes(q) : Append(q, t)[i] = q[i]
  BY AppendProperties DEF Closes
<1>2. QED  BY <1>1 DEF Sole

\* Removing a result leaves the others, once each.
LEMMA RemoveAtElements ==
  ASSUME NEW S, NEW s \in Seq(S), NEW i \in 1..Len(s)
  PROVE  /\ Len(RemoveAt(s, i)) = Len(s) - 1
         /\ \A k \in 1..Len(s) - 1 : RemoveAt(s, i)[k] = s[IF k < i THEN k ELSE k + 1]
<1> DEFINE a == SubSeq(s, 1, i - 1)
           b == SubSeq(s, i + 1, Len(s))
<1>1. /\ a \in Seq(S) /\ Len(a) = i - 1 /\ \A k \in 1..i - 1 : a[k] = s[k]
      /\ b \in Seq(S) /\ Len(b) = Len(s) - i /\ \A k \in 1..Len(s) - i : b[k] = s[i + k]
  BY SubSeqProperties
<1> HIDE DEF a, b
<1>2. /\ Len(a \o b) = Len(s) - 1
      /\ \A k \in 1..Len(s) - 1 : (a \o b)[k] = IF k <= i - 1 THEN a[k] ELSE b[k - (i - 1)]
  <2>1. Len(s) \in Nat /\ Len(a) + Len(b) = Len(s) - 1
    BY <1>1, LenProperties
  <2>2. /\ Len(a \o b) = Len(a) + Len(b)
        /\ \A k \in 1..Len(a) + Len(b) : (a \o b)[k] = IF k <= Len(a) THEN a[k] ELSE b[k - Len(a)]
    BY <1>1, ConcatProperties
  <2>3. QED  BY <1>1, <2>1, <2>2
<1>3. \A k \in 1..Len(s) - 1 : (a \o b)[k] = s[IF k < i THEN k ELSE k + 1]
  <2> TAKE k \in 1..Len(s) - 1
  <2>1. CASE k < i
    BY <1>1, <1>2, <2>1
  <2>2. CASE ~(k < i)
    <3>1. k - (i - 1) \in 1..Len(s) - i /\ i + (k - (i - 1)) = k + 1
      BY <2>2
    <3>2. QED  BY <1>1, <1>2, <2>2, <3>1
  <2>3. QED  BY <2>1, <2>2
<1>4. QED  BY <1>2, <1>3 DEF RemoveAt, a, b

LEMMA SoleDrop ==
  ASSUME NEW d \in Seq(Result), NEW q, NEW h, NEW lv, Sole(d, q, h, lv), NEW i \in 1..Len(d)
  PROVE  /\ Sole(RemoveAt(d, i), q, h, lv)
         /\ Carries(d[i]) => \A k \in Hands(RemoveAt(d, i)) : RemoveAt(d, i)[k].got # d[i].got
<1> DEFINE e == RemoveAt(d, i)
           At(k) == IF k < i THEN k ELSE k + 1
<1>1. Len(d) \in Nat /\ Len(e) = Len(d) - 1 /\ \A k \in 1..Len(e) : e[k] = d[At(k)]
  BY RemoveAtElements
<1>2. \A k \in 1..Len(e) : At(k) \in 1..Len(d) /\ At(k) # i
  BY <1>1
<1>3. \A k, l \in 1..Len(e) : At(k) = At(l) => k = l
  BY <1>1
<1> HIDE DEF e, At
<1>4. \A k \in Hands(e) : At(k) \in Hands(d) /\ e[k] = d[At(k)] /\ At(k) # i
  BY <1>1, <1>2 DEF Hands
<1>5. \A k, l \in Hands(e) : e[k].got = e[l].got => k = l
  BY <1>3, <1>4 DEF Sole, Hands
<1>6. Sole(e, q, h, lv)
  BY <1>4, <1>5 DEF Sole
<1>7. Carries(d[i]) => \A k \in Hands(e) : e[k].got # d[i].got
  BY <1>4 DEF Sole, Hands
<1>8. QED  BY <1>6, <1>7 DEF e

\* A handle goes from a result to the session, or to the queue to be closed.
LEMMA SoleAdopt ==
  ASSUME NEW d \in Seq(Result), NEW q, NEW h, NEW lv, Sole(d, q, h, lv),
         NEW i \in 1..Len(d), Carries(d[i])
  PROVE  Sole(RemoveAt(d, i), q, d[i].got, lv)
<1> DEFINE e == RemoveAt(d, i)
<1>1. i \in Hands(d)
  BY DEF Hands
<1>2. Sole(e, q, h, lv) /\ \A k \in Hands(e) : e[k].got # d[i].got
  BY SoleDrop
<1>3. d[i].got \in lv /\ \A j \in Closes(q) : q[j].vault # d[i].got
  BY <1>1 DEF Sole
<1> HIDE DEF e
<1>4. Sole(e, q, d[i].got, lv)
  BY <1>2, <1>3 DEF Sole
<1>5. QED  BY <1>4 DEF e

LEMMA SoleOrphan ==
  ASSUME NEW d \in Seq(Result), NEW q \in Seq(HidTask), NEW h, NEW lv, Sole(d, q, h, lv),
         NEW i \in 1..Len(d), Carries(d[i]),
         NEW t \in HidTask, t.op = "close", t.vault = d[i].got
  PROVE  Sole(RemoveAt(d, i), Append(q, t), h, lv)
<1> DEFINE e == RemoveAt(d, i)
           p == Append(q, t)
<1>1. i \in Hands(d)
  BY DEF Hands
<1>2. Sole(e, q, h, lv) /\ \A k \in Hands(e) : e[k].got # t.vault
  BY SoleDrop
<1>3. t.vault \in lv \ {h} /\ \A j \in Closes(q) : q[j].vault # t.vault
  BY <1>1 DEF Sole
<1>4. /\ Len(q) \in Nat /\ Closes(p) = Closes(q) \cup {Len(q) + 1}
      /\ p[Len(q) + 1] = t /\ \A j \in Closes(q) : p[j] = q[j]
  BY AppendProperties DEF Closes
<1> HIDE DEF e, p
<1>5. \A j, k \in Closes(p) : p[j].vault = p[k].vault => j = k
  BY <1>2, <1>3, <1>4 DEF Sole
<1>6. Sole(e, p, h, lv)
  BY <1>2, <1>3, <1>4, <1>5 DEF Sole
<1>7. QED  BY <1>6 DEF e, p

\* A result is delivered to the queue.
LEMMA SoleAnswer ==
  ASSUME NEW d \in Seq(Result), NEW q, NEW h, NEW lv, Sole(d, q, h, lv),
         NEW r \in Result, Carries(r) => r.got \notin lv /\ r.got # None
  PROVE  Sole(Append(d, r), q, h, IF Carries(r) THEN lv \cup {r.got} ELSE lv)
<1> DEFINE e == Append(d, r)
<1>1. /\ Len(d) \in Nat /\ Len(e) = Len(d) + 1 /\ e[Len(d) + 1] = r
      /\ \A i \in 1..Len(d) : e[i] = d[i]
  BY AppendProperties
<1> HIDE DEF e
<1>2. CASE ~Carries(r)
  <2>1. Hands(e) = Hands(d)
    BY <1>1, <1>2 DEF Hands
  <2>2. \A i \in Hands(e) : e[i] = d[i]
    BY <1>1, <2>1 DEF Hands
  <2>3. QED  BY <1>2, <2>1, <2>2 DEF Sole, e
<1>3. CASE Carries(r)
  <2>1. Hands(e) = Hands(d) \cup {Len(d) + 1}
    BY <1>1, <1>3 DEF Hands
  <2>2. \A i \in Hands(d) : e[i] = d[i] /\ d[i].got # r.got
    BY <1>1, <1>3 DEF Hands, Sole
  <2>3. Sole(e, q, h, lv \cup {r.got})
    BY <1>1, <1>3, <2>1, <2>2 DEF Sole
  <2>4. QED  BY <1>3, <2>3 DEF e
<1>4. QED  BY <1>2, <1>3

\* The HID executor takes a task, and closes the vault if that is the task.
LEMMA SoleTail ==
  ASSUME NEW d, NEW q \in Seq(HidTask), q # <<>>, NEW h, NEW lv, Sole(d, q, h, lv)
  PROVE  /\ Sole(d, Tail(q), h, lv)
         /\ Head(q).op = "close" => Sole(d, Tail(q), h, lv \ {Head(q).vault})
<1> DEFINE p == Tail(q)
<1>1. Len(q) \in Nat /\ Len(p) = Len(q) - 1 /\ \A i \in 1..Len(p) : p[i] = q[i + 1]
  BY HeadTailProperties
<1>2. Head(q) = q[1] /\ 1 \in 1..Len(q)
  OBVIOUS
<1> HIDE DEF p
<1>3. \A i \in Closes(p) : i \in Nat /\ i > 0 /\ i + 1 \in Closes(q) /\ p[i] = q[i + 1]
  BY <1>1 DEF Closes
<1>4. \A i, j \in Closes(p) : p[i].vault = p[j].vault => i = j
  BY <1>3 DEF Sole
<1>5. Sole(d, p, h, lv)
  BY <1>3, <1>4 DEF Sole
<1>6. ASSUME Head(q).op = "close"
      PROVE  Sole(d, p, h, lv \ {Head(q).vault})
  <2>1. 1 \in Closes(q)
    BY <1>2, <1>6 DEF Closes
  <2>2. \A i \in Closes(p) : p[i].vault # q[1].vault
    BY <1>3, <2>1 DEF Sole
  <2>3. q[1].vault # h /\ \A i \in Hands(d) : d[i].got # q[1].vault
    BY <2>1 DEF Sole
  <2>4. QED  BY <1>2, <1>5, <2>2, <2>3 DEF Sole
<1>7. QED  BY <1>5, <1>6 DEF p

-----------------------------------------------------------------------------
\* Lock events change no call but for its history.
LEMMA LateKeeps ==
  ASSUME NEW S, S \subseteq Task, NEW tasks \in Seq(S)
  PROVE  /\ Len(Late(tasks)) = Len(tasks)
         /\ \A i \in 1..Len(tasks) :
              /\ Late(tasks)[i].op = tasks[i].op
              /\ Late(tasks)[i].got = tasks[i].got
              /\ Late(tasks)[i].vault = tasks[i].vault
<1>1. Len(tasks) \in Nat /\ \A i \in 1..Len(tasks) : tasks[i] \in Task
  OBVIOUS
<1>2. Len(Late(tasks)) = Len(tasks)
  BY <1>1 DEF Late
<1>3. \A i \in 1..Len(tasks) : Late(tasks)[i] = [tasks[i] EXCEPT !.late = TRUE]
  BY DEF Late
<1>4. QED  BY <1>1, <1>2, <1>3 DEF Task

LEMMA SoleLate ==
  ASSUME Queues, NEW h, NEW lv, Sole(done, hid, h, lv)
  PROVE  Sole(Late(done), Late(hid), h, lv)
<1>1. Result \subseteq Task /\ HidTask \subseteq Task
  BY DEF Result, HidTask
<1>2. /\ Hands(Late(done)) = Hands(done)
      /\ \A i \in Hands(done) : Late(done)[i].got = done[i].got
  BY <1>1, LateKeeps DEF Queues, Hands, Carries
<1>3. /\ Closes(Late(hid)) = Closes(hid)
      /\ \A i \in Closes(hid) : Late(hid)[i].vault = hid[i].vault
  BY <1>1, LateKeeps DEF Queues, Closes
<1>4. QED  BY <1>2, <1>3 DEF Sole

\* A new task of the HID executor that is no close changes no ownership.
LEMMA SoleNewTask ==
  ASSUME Window, Queues, NEW op \in HidOps, NEW v \in Vaults \cup {None}, NEW late \in BOOLEAN,
         NEW d, NEW h, NEW lv, Sole(d, hid, h, lv)
  PROVE  Sole(d, Append(hid, NewTask(op, v, late)), h, lv)
<1>1. generation \in Nat
  BY SessionAssumption DEF Window
<1>2. PICK t : t = NewTask(op, v, late)
  OBVIOUS
<1>3. t \in HidTask /\ t.op # "close"
  BY <1>1, <1>2 DEF NewTask, HidTask, Task, HidOps, PoolOps
<1>4. Sole(d, Append(hid, t), h, lv)
  BY <1>3, SolePush DEF Queues
<1>5. QED  BY <1>2, <1>4, Zenon

\* What close() does, whether a vault is open or not.
LEMMA SoleCloseOrKeep ==
  ASSUME Window, NEW d, NEW q, Sole(d, q, handle, live),
         Close \/ UNCHANGED <<live, handle, keys>>
  PROVE  Sole(d, q, handle', live')
<1>1. CASE Close
  BY <1>1, SoleClose DEF Window, Close
<1>2. CASE UNCHANGED <<live, handle, keys>>
  BY <1>2
<1>3. QED  BY <1>1, <1>2

LEMMA DiscardSole ==
  ASSUME Window, Queues, Sole(done, hid, handle, live), NEW i \in 1..Len(done),
         Carries(done[i]) \/ done[i].got = None, Discard(done[i])
  PROVE  Sole(RemoveAt(done, i), hid', handle', live')
<1>1. done \in Seq(Result) /\ hid \in Seq(HidTask) /\ done[i] \in Current
  BY DEF Queues
<1>2. Sole(RemoveAt(done, i), hid', handle, live)
  <2>1. CASE done[i].got = None
    BY <1>1, <2>1, SoleDrop DEF Discard
  <2>2. CASE done[i].got # None
    <3>1. generation \in Nat /\ done[i].got \in Vaults \cup {None}
      BY <1>1, TaskFacts, SessionAssumption DEF Window
    <3>2. PICK t : t = NewTask("close", done[i].got, FALSE)
      OBVIOUS
    <3>3. t \in HidTask /\ t.op = "close" /\ t.vault = done[i].got
      BY <3>1, <3>2 DEF NewTask, HidTask, Task, PoolOps
    <3>4. hid' = Append(hid, t)
      BY <2>2, <3>2 DEF Discard
    <3>5. QED  BY <1>1, <2>2, <3>3, <3>4, SoleOrphan
  <2>3. QED  BY <2>1, <2>2
<1>3. QED  BY <1>2, SoleCloseOrKeep DEF Discard

LEMMA DeliverSole ==
  ASSUME Window, Queues, Sole(done, hid, handle, live), NEW i \in 1..Len(done), Deliver(i)
  PROVE  Sole(done', hid', handle', live')
<1> DEFINE r == done[i]
<1>1. done \in Seq(Result) /\ hid \in Seq(HidTask) /\ r \in Result /\ r \in Current
      /\ done' = RemoveAt(done, i)
  BY DEF Queues, Deliver
<1>2. Sole(done', hid, handle, live)
  BY <1>1, SoleDrop
<1>3. Adopt(r) \/ OpenFailed(r) \/ Migrated(r) \/ KeyCallEnded(r) \/ KeysRead(r)
  BY DEF Deliver
<1>4. r.vault \in Vaults \cup {None} /\ r.late \in BOOLEAN
  BY <1>1, TaskFacts
<1>5. ASSUME Discard(r), Carries(r) \/ r.got = None
      PROVE  Sole(done', hid', handle', live')
  BY <1>1, <1>5, DiscardSole
<1>6. ASSUME OpenHw(r.vault, r.late), UNCHANGED <<handle, live>>
      PROVE  Sole(done', hid', handle', live')
  <2>1. "open" \in HidOps
    BY DEF HidOps
  <2>2. Sole(done', Append(hid, NewTask("open", r.vault, r.late)), handle, live)
    BY <1>2, <1>4, <2>1, SoleNewTask
  <2>3. QED  BY <1>6, <2>2 DEF OpenHw
<1>7. CASE Adopt(r)
  <2>1. CASE Gate(r)
    BY <1>5, <1>7, <2>1 DEF Adopt
  <2>2. CASE ~Gate(r)
    <3>1. Sole(done', hid, r.got, live)
      BY <1>1, <1>7, SoleAdopt DEF Adopt
    <3>2. QED  BY <1>7, <2>2, <3>1 DEF Adopt, FinishOpen
  <2>3. QED  BY <2>1, <2>2
<1>8. CASE OpenFailed(r)
  BY <1>2, <1>8, SoleCloseOrKeep DEF OpenFailed, ApplyPendingLock
<1>9. CASE Migrated(r)
  <2>1. CASE Discard(r)
    BY <1>1, <1>5, <1>9, <2>1 DEF Migrated, Result
  <2>2. CASE OpenHw(r.vault, r.late) /\ UNCHANGED <<handle, live>>
    BY <1>6, <2>2
  <2>3. CASE UNCHANGED <<handle, live, hid>>
    BY <1>2, <2>3
  <2>4. CASE r.vault \notin live /\ handle' = r.vault /\ live' = live \cup {r.vault} /\ hid' = hid
    <3>1. Sole(done', hid, r.vault, live \cup {r.vault})
      BY <1>2, <2>4, SoleReopen
    <3>2. QED  BY <2>4, <3>1
  <2>5. QED  BY <1>9, <2>1, <2>2, <2>3, <2>4 DEF Migrated
<1>10. CASE KeyCallEnded(r)
  <2>1. ~Carries(r) /\ r.got = None
    BY <1>10 DEF KeyCallEnded, Carries
  <2>2. QED  BY <1>5, <1>6, <1>10, <2>1 DEF KeyCallEnded
<1>11. CASE KeysRead(r)
  BY <1>2, <1>11 DEF KeysRead
<1>12. QED  BY <1>3, <1>7, <1>8, <1>9, <1>10, <1>11

LEMMA WorkerSole ==
  ASSUME Window, Queues, Sole(done, hid, handle, live),
         RunHid \/ \E i \in 1..Len(pool) : RunPool(i)
  PROVE  Sole(done', hid', handle', live')
<1>1. ASSUME RunHid, Head(hid).op = "close"
      PROVE  Sole(done', hid', handle', live')
  <2>1. done' = done /\ hid' = Tail(hid) /\ handle' = handle /\ live' = live \ {Head(hid).vault}
    BY <1>1 DEF RunHid
  <2>2. Sole(done, Tail(hid), handle, live \ {Head(hid).vault})
    BY <1>1, SoleTail DEF RunHid, Queues
  <2>3. QED  BY <2>1, <2>2
<1>2. ASSUME RunHid, Head(hid).op # "close"
      PROVE  Sole(done', hid', handle', live')
  <2>1. PICK r \in Results(Head(hid)) :
          done' = Append(done, r) /\ live' = IF Carries(r) THEN live \cup {r.got} ELSE live
    BY <1>2 DEF RunHid
  <2>2. Head(hid) \in HidTask /\ Head(hid) \in Current
    BY <1>2, HeadTailProperties DEF Queues, RunHid
  <2>3. r \in Result /\ (Carries(r) => r.got \notin live /\ r.got # None)
    BY <1>2, <2>1, <2>2, ResultType, SessionAssumption DEF Result, HidTask, Current
  <2>4. Sole(done, Tail(hid), handle, live)
    BY <1>2, SoleTail DEF RunHid, Queues
  <2>5. Sole(Append(done, r), Tail(hid), handle, IF Carries(r) THEN live \cup {r.got} ELSE live)
    BY <2>3, <2>4, SoleAnswer DEF Queues
  <2>6. QED  BY <1>2, <2>1, <2>5 DEF RunHid
<1>3. ASSUME NEW i \in 1..Len(pool), RunPool(i)
      PROVE  Sole(done', hid', handle', live')
  <2>1. pool[i] \in PoolTask /\ pool[i] \in Current
    BY DEF Queues
  <2>2. PICK r \in Results(pool[i]) : done' = Append(done, r)
    BY <1>3 DEF RunPool
  <2>3. r \in Result /\ ~Carries(r)
    BY <2>1, <2>2, ResultType DEF Result, PoolTask, PoolOps, Current, Carries
  <2>4. Sole(Append(done, r), hid, handle, live)
    BY <2>3, SoleAnswer DEF Queues
  <2>5. QED  BY <1>3, <2>2, <2>4 DEF RunPool
<1>4. QED  BY <1>1, <1>2, <1>3

LEMMA UserSole ==
  ASSUME Window, Queues, Sole(done, hid, handle, live),
         \/ \E v \in Vaults : Unlock(v) \/ CreateVault(v)
         \/ LockNow
         \/ \E op \in {"migrate", "migrateHw"} : Migrate(op)
         \/ \E op \in {"addKey", "convert"} : KeyCall(op)
         \/ RemoveKey
         \/ LoadKeys
  PROVE  Sole(done', hid', handle', live')
<1>1. ASSUME NEW op \in HidOps, NEW v \in Vaults \cup {None},
             hid' = Append(hid, NewTask(op, v, FALSE)), done' = done,
             Close \/ UNCHANGED <<live, handle, keys>>
      PROVE  Sole(done', hid', handle', live')
  <2>1. Sole(done, hid', handle, live)
    BY <1>1, SoleNewTask
  <2>2. QED  BY <1>1, <2>1, SoleCloseOrKeep
<1>2. ASSUME hid' = hid, done' = done, Close \/ UNCHANGED <<live, handle, keys>>
      PROVE  Sole(done', hid', handle', live')
  BY <1>2, SoleCloseOrKeep
<1>3. handle \in Vaults \cup {None}
  BY DEF Window
<1>4. ASSUME NEW v \in Vaults, Unlock(v) \/ CreateVault(v)
      PROVE  Sole(done', hid', handle', live')
  BY <1>1, <1>4 DEF Unlock, CreateVault, OpenHw, HidOps
<1>5. ASSUME NEW op \in {"migrate", "migrateHw"}, Migrate(op)
      PROVE  Sole(done', hid', handle', live')
  BY <1>1, <1>3, <1>5 DEF Migrate, HidOps
<1>6. ASSUME NEW op \in {"addKey", "convert"}, KeyCall(op)
      PROVE  Sole(done', hid', handle', live')
  BY <1>1, <1>3, <1>6 DEF KeyCall, HidOps
<1>7. ASSUME LockNow \/ RemoveKey \/ LoadKeys
      PROVE  Sole(done', hid', handle', live')
  BY <1>2, <1>7 DEF LockNow, RemoveKey, LoadKeys
<1>8. QED  BY <1>4, <1>5, <1>6, <1>7

\* Every handle is open and held once, by whoever holds it.
THEOREM HandlesAreSole == Spec => []NoStaleHandle
<1> DEFINE S == Sole(done, hid, handle, live)
<1>1. Init => S
  BY DEF Init, Sole, Hands, Closes
<1>2. Window /\ Queues /\ S /\ [Next]_vars => S'
  <2> SUFFICES ASSUME Window, Queues, S, [Next]_vars
               PROVE  Sole(done', hid', handle', live')
    BY DEF Sole, Hands, Closes, Carries
  <2>1. CASE UNCHANGED vars
    BY <2>1 DEF vars
  <2>2. CASE AutoLock
    <3>1. Sole(Late(done), Late(hid), handle', live')
      BY <2>2, SoleLate, SoleCloseOrKeep DEF AutoLock
    <3>2. QED  BY <2>2, <3>1 DEF AutoLock
  <2>3. CASE Next /\ ~AutoLock
    BY <2>3, UserSole, WorkerSole, DeliverSole DEF Next
  <2>4. QED  BY <2>1, <2>2, <2>3
<1>3. S <=> NoStaleHandle
  BY SoleIsNoStaleHandle
<1>4. QED  BY <1>1, <1>2, <1>3, SessionInvariant, PTL DEF Spec
=============================================================================
