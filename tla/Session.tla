-------------------------------- MODULE Session --------------------------------
(***************************************************************************)
(* The session of the macOS application (VaultModel in main.swift): one    *)
(* handle on an open vault, long calls that run on other threads, and lock *)
(* events (sleep, screen lock, inactivity) that come at any time.          *)
(*                                                                         *)
(* Everything on the main thread - a click, a lock event, the delivery of  *)
(* a result - is one step.  A long call is a task: the HID executor runs   *)
(* its tasks one by one in order, the global queue runs its own in any     *)
(* order, and results wait in `done` until the main thread takes them.     *)
(* The library lets one handle at a time be open on a vault (its flock).   *)
(***************************************************************************)
EXTENDS Naturals, Sequences, SequencesExt

CONSTANTS
  Vaults,    \* paths of vaults
  None,      \* no vault, no handle: nil
  MaxLocks,  \* bound: lock events
  MaxTasks   \* bound: calls in flight

ASSUME SessionAssumption == None \notin Vaults /\ MaxLocks \in Nat /\ MaxTasks \in Nat

VARIABLES
  generation,   \* sessionGeneration
  lockPending,  \* a lock event waits for the call in flight
  handle,       \* the handle (isOpen, info.path change with it)
  busy,         \* the window is disabled
  keyOp,        \* keyOpInProgress: the unlocked window stays up meanwhile
  keys,         \* the vault whose keys the panel lists (keysLoaded)
  keysLoading,  \* the panel waits for the list
  live,         \* the vaults the library holds open
  hid,          \* tasks of the HID executor
  pool,         \* tasks of the global queue
  done          \* results on their way to the main thread

vars == <<generation, lockPending, handle, busy, keyOp, keys, keysLoading, live, hid, pool, done>>

HidOps == {"open", "create", "migrate", "migrateHw", "addKey", "convert"}
PoolOps == {"removeKey", "loadKeys"}

\* vault: the path captured at the start; gen: beginSessionOp; got: the handle
\* (or the vault whose keys were listed) that came back.  late is history: a
\* lock event has come since the user started this.
Task == [op : HidOps \cup PoolOps \cup {"close"}, vault : Vaults \cup {None},
         gen : Nat, got : Vaults \cup {None}, late : BOOLEAN]

NewTask(op, v, late) == [op |-> op, vault |-> v, gen |-> generation, got |-> None, late |-> late]

InFlight == Len(hid) + Len(pool) + Len(done)

(***************************************************************************)
(* Pieces of the main thread's blocks                                      *)
(***************************************************************************)
\* A mutant: the closed handle is kept.
CloseKeepsHandle ==
  /\ live' = live \ {handle}
  /\ keys' = None
  /\ UNCHANGED handle

\* close(): without a handle it still clears the list of keys.
Close ==
  /\ live' = live \ {handle}
  /\ handle' = None
  /\ keys' = None

\* openHw(path): its two attempts, without and with the key, are one task.
OpenHw(v, late) ==
  /\ busy' = TRUE
  /\ hid' = Append(hid, NewTask("open", v, late))

\* A mutant: the generation is not compared.
GateWhenPending(r) == lockPending

\* lockGateAtCompletion holds the result r back.
Gate(r) == r.gen # generation \/ lockPending

\* A mutant: the window of the key operation stays up.
DiscardKeepsWindow(r) ==
  /\ lockPending' = FALSE
  /\ IF handle # None THEN Close ELSE UNCHANGED <<live, handle, keys>>
  /\ hid' = IF r.got = None THEN hid ELSE Append(hid, NewTask("close", r.got, FALSE))
  /\ UNCHANGED keyOp

\* What the gate does: the handle r carries is closed on the HID executor, and
\* the open vault, if there is one, at once.
Discard(r) ==
  /\ lockPending' = FALSE
  /\ keyOp' = FALSE
  /\ IF handle # None THEN Close ELSE UNCHANGED <<live, handle, keys>>
  /\ hid' = IF r.got = None THEN hid ELSE Append(hid, NewTask("close", r.got, FALSE))

\* finishOpen
FinishOpen(v) ==
  /\ handle' = v
  /\ keyOp' = FALSE
  /\ UNCHANGED <<lockPending, keys, live, hid>>

\* A mutant: a call that failed leaves the lock event pending.
ApplyPendingNever == UNCHANGED <<lockPending, live, handle, keys>>

\* applyPendingLock
ApplyPendingLock ==
  /\ lockPending' = FALSE
  /\ IF lockPending /\ handle # None THEN Close ELSE UNCHANGED <<live, handle, keys>>

(***************************************************************************)
(* The user.  The unlock screen is up when no vault is open and no key     *)
(* operation holds the unlocked window; a busy window takes no clicks; the *)
(* keys panel offers its buttons once a list has been read.                *)
(***************************************************************************)
Unlocked == handle # None \/ keyOp
KeysListed == Unlocked /\ ~busy /\ ~keysLoading /\ keys # None

Unlock(v) ==
  /\ ~Unlocked /\ ~busy
  /\ InFlight < MaxTasks
  /\ OpenHw(v, FALSE)
  /\ UNCHANGED <<generation, lockPending, handle, keyOp, keys, keysLoading, live, pool, done>>

CreateVault(v) ==
  /\ ~Unlocked /\ ~busy
  /\ InFlight < MaxTasks
  /\ busy' = TRUE
  /\ hid' = Append(hid, NewTask("create", v, FALSE))
  /\ UNCHANGED <<generation, lockPending, handle, keyOp, keys, keysLoading, live, pool, done>>

LockNow ==
  /\ Unlocked /\ ~busy
  /\ Close
  /\ UNCHANGED <<generation, lockPending, busy, keyOp, keysLoading, hid, pool, done>>

\* The handle is closed so that the engine can take the flock.
Migrate(op) ==
  /\ Unlocked /\ ~busy
  /\ InFlight < MaxTasks
  /\ Close
  /\ busy' = TRUE
  /\ hid' = Append(hid, NewTask(op, handle, FALSE))
  /\ UNCHANGED <<generation, lockPending, keyOp, keysLoading, pool, done>>

\* A mutant: the enrollment is dispatched to the global queue.
KeyCallOnPool(op) ==
  /\ KeysListed
  /\ InFlight < MaxTasks
  /\ Close
  /\ busy' = TRUE /\ keyOp' = TRUE
  /\ pool' = Append(pool, NewTask(op, handle, FALSE))
  /\ UNCHANGED <<generation, lockPending, keysLoading, hid, done>>

\* addBackupKey, convertToPassphraseOnly
KeyCall(op) ==
  /\ KeysListed
  /\ InFlight < MaxTasks
  /\ Close
  /\ busy' = TRUE /\ keyOp' = TRUE
  /\ hid' = Append(hid, NewTask(op, handle, FALSE))
  /\ UNCHANGED <<generation, lockPending, keysLoading, pool, done>>

\* removeKey needs no key to be touched: it does not disable the window.
RemoveKey ==
  /\ KeysListed
  /\ InFlight < MaxTasks
  /\ Close
  /\ keyOp' = TRUE /\ keysLoading' = TRUE
  /\ pool' = Append(pool, NewTask("removeKey", handle, FALSE))
  /\ UNCHANGED <<generation, lockPending, busy, hid, done>>

LoadKeys ==
  /\ Unlocked /\ ~busy
  /\ InFlight < MaxTasks
  /\ keysLoading' = TRUE
  /\ pool' = Append(pool, NewTask("loadKeys", handle, FALSE))
  /\ UNCHANGED <<generation, lockPending, handle, busy, keyOp, keys, live, hid, done>>

(***************************************************************************)
(* Lock events: autoLock                                                   *)
(***************************************************************************)
Late(tasks) == [i \in 1..Len(tasks) |-> [tasks[i] EXCEPT !.late = TRUE]]

AutoLock ==
  /\ generation < MaxLocks
  /\ generation' = generation + 1
  /\ \/ handle # None /\ ~busy /\ Close /\ UNCHANGED lockPending
     \/ /\ handle = None \/ busy
        /\ lockPending' = (lockPending \/ busy \/ keyOp)
        /\ UNCHANGED <<live, handle, keys>>
  /\ hid' = Late(hid) /\ pool' = Late(pool) /\ done' = Late(done)
  /\ UNCHANGED <<busy, keyOp, keysLoading>>

(***************************************************************************)
(* The worker threads.  A call may fail for any reason; it can only        *)
(* succeed on a vault that is not held open.                               *)
(***************************************************************************)
Results(t) ==
  LET free == t.vault \in Vaults \ live
  IN  {t} \cup
      CASE t.op \in {"open", "create", "addKey", "convert"} /\ free -> {[t EXCEPT !.got = t.vault]}
        \* A migration ends with the vault to open next, here or elsewhere.
        [] t.op \in {"migrate", "migrateHw"} /\ free -> {[t EXCEPT !.vault = v] : v \in Vaults \ live}
        [] t.op = "loadKeys" -> {[t EXCEPT !.got = t.vault]}
        [] OTHER -> {}

\* A result carries a handle.
Carries(r) == r.op # "loadKeys" /\ r.got # None

RunHid ==
  /\ hid # <<>>
  /\ hid' = Tail(hid)
  /\ \/ /\ Head(hid).op = "close"
        /\ live' = live \ {Head(hid).vault}
        /\ UNCHANGED done
     \/ /\ Head(hid).op # "close"
        /\ \E r \in Results(Head(hid)) :
             /\ done' = Append(done, r)
             /\ live' = IF Carries(r) THEN live \cup {r.got} ELSE live
  /\ UNCHANGED <<generation, lockPending, handle, busy, keyOp, keys, keysLoading, pool>>

RunPool(i) ==
  /\ \E r \in Results(pool[i]) : done' = Append(done, r)
  /\ pool' = RemoveAt(pool, i)
  /\ UNCHANGED <<generation, lockPending, handle, busy, keyOp, keys, keysLoading, live, hid>>

(***************************************************************************)
(* Delivery of a result on the main thread                                 *)
(***************************************************************************)
\* The call came back with an open vault: adoptOrDiscard.
Adopt(r) ==
  /\ Carries(r)
  /\ busy' = FALSE
  /\ IF Gate(r) THEN Discard(r) ELSE FinishOpen(r.got)
  /\ UNCHANGED keysLoading

\* openHw or createVaultHw failed.
OpenFailed(r) ==
  /\ r.op \in {"open", "create"} /\ ~Carries(r)
  /\ busy' = FALSE
  /\ keyOp' = (keyOp /\ r.op = "create")
  /\ ApplyPendingLock
  /\ UNCHANGED <<keysLoading, hid>>

\* A migration ended, well or not; reopenAfterMigration opens a vault without a
\* key on the main thread, at once.
Migrated(r) ==
  /\ r.op \in {"migrate", "migrateHw"}
  /\ UNCHANGED keysLoading
  /\ \/ Gate(r) /\ busy' = FALSE /\ Discard(r)
     \/ /\ ~Gate(r) /\ r.op = "migrateHw"
        /\ OpenHw(r.vault, r.late)
        /\ UNCHANGED <<lockPending, handle, keyOp, keys, live>>
     \/ /\ ~Gate(r) /\ r.op = "migrate"
        /\ busy' = FALSE
        /\ \/ UNCHANGED <<lockPending, handle, keyOp, keys, live, hid>>
           \/ /\ r.vault \in Vaults \ live
              /\ handle' = r.vault /\ keyOp' = FALSE
              /\ live' = live \cup {r.vault}
              /\ UNCHANGED <<lockPending, keys, hid>>

\* A key operation ended without handing back an open vault.
KeyCallEnded(r) ==
  /\ r.op \in {"addKey", "convert", "removeKey"} /\ ~Carries(r)
  /\ keysLoading' = (keysLoading /\ r.op # "removeKey")
  /\ \/ Gate(r) /\ busy' = (busy /\ r.op = "removeKey") /\ Discard(r)
     \/ /\ ~Gate(r)
        /\ OpenHw(r.vault, r.late)
        /\ UNCHANGED <<lockPending, handle, keyOp, keys, live>>

KeysRead(r) ==
  /\ r.op = "loadKeys"
  /\ keysLoading' = FALSE
  /\ keys' = r.got
  /\ UNCHANGED <<lockPending, handle, busy, keyOp, live, hid>>

Deliver(i) ==
  /\ LET r == done[i]
     IN  Adopt(r) \/ OpenFailed(r) \/ Migrated(r) \/ KeyCallEnded(r) \/ KeysRead(r)
  /\ done' = RemoveAt(done, i)
  /\ UNCHANGED <<generation, pool>>

-----------------------------------------------------------------------------
Init ==
  /\ generation = 0 /\ lockPending = FALSE
  /\ handle = None /\ busy = FALSE /\ keyOp = FALSE
  /\ keys = None /\ keysLoading = FALSE
  /\ live = {}
  /\ hid = <<>> /\ pool = <<>> /\ done = <<>>

Next ==
  \/ \E v \in Vaults : Unlock(v) \/ CreateVault(v)
  \/ LockNow
  \/ \E op \in {"migrate", "migrateHw"} : Migrate(op)
  \/ \E op \in {"addKey", "convert"} : KeyCall(op)
  \/ RemoveKey
  \/ LoadKeys
  \/ AutoLock
  \/ RunHid
  \/ \E i \in 1..Len(pool) : RunPool(i)
  \/ \E i \in 1..Len(done) : Deliver(i)

\* Threads run what is queued on them, and calls return: waits for keys time
\* out.  No kind of result is passed over for ever.
Fairness ==
  /\ WF_vars(RunHid)
  /\ \A op \in PoolOps : WF_vars(\E i \in 1..Len(pool) : pool[i].op = op /\ RunPool(i))
  /\ \A op \in HidOps \cup PoolOps :
       WF_vars(\E i \in 1..Len(done) : done[i].op = op /\ Deliver(i))

Spec == Init /\ [][Next]_vars /\ Fairness
-----------------------------------------------------------------------------
(***************************************************************************)
(* Properties                                                              *)
(***************************************************************************)
\* Types; what talks to keys runs on the HID executor only.
TypeOK ==
  /\ generation \in 0..MaxLocks /\ lockPending \in BOOLEAN
  /\ handle \in Vaults \cup {None} /\ keys \in Vaults \cup {None}
  /\ busy \in BOOLEAN /\ keyOp \in BOOLEAN /\ keysLoading \in BOOLEAN
  /\ live \subseteq Vaults
  /\ hid \in Seq({t \in Task : t.op \notin PoolOps})
  /\ pool \in Seq({t \in Task : t.op \in PoolOps})
  /\ done \in Seq({t \in Task : t.op # "close"})

\* A call that was started before a lock event never opens a vault, whatever
\* else ran, failed or was reopened in between.
LateNeverOpens ==
  [][\A i \in 1..Len(done) :
       Deliver(i) /\ done[i].late => handle' \in {None, handle}]_vars

\* Every handle the program holds - the session's, those in results on their way,
\* those queued to be closed - is open, and is held once: none is used after it
\* was closed, closed twice, or shown in two places.
Handed == {i \in 1..Len(done) : Carries(done[i])}
Closing == {i \in 1..Len(hid) : hid[i].op = "close"}

NoStaleHandle ==
  /\ handle # None => handle \in live
  /\ \A i \in Handed : done[i].got \in live \ {handle}
  /\ \A i \in Closing : hid[i].vault \in live \ {handle}
  /\ \A i, j \in Handed : done[i].got = done[j].got => i = j
  /\ \A i, j \in Closing : hid[i].vault = hid[j].vault => i = j
  /\ \A i \in Handed, j \in Closing : done[i].got # hid[j].vault

\* A lock event that found a call in flight is applied when the calls return.
LockApplied == lockPending ~> (~lockPending /\ handle = None)

\* The window comes back: it is not disabled for ever, nor does the unlocked
\* window stay up without a vault.
WindowReturns == (busy ~> ~busy) /\ (keyOp ~> ~keyOp)

(***************************************************************************)
(* What comments of main.swift say, which the code does not do.            *)
(***************************************************************************)
\* keys: "The vault's enrolled hardware keys."  loadKeys compares neither path
\* nor generation when its result arrives.
KeysAreThisVaults == keys # None /\ handle # None => keys = handle

\* setupAutoLock: "so an unattended Mac doesn't leave a decrypted vault open".
\* removeKey leaves the window enabled, so that a second call can start; of two
\* handles that come back, finishOpen forgets one.
AutoLockLeavesNoneOpen == [][AutoLock /\ InFlight = 0 => live' = {}]_vars
=============================================================================
