---------------------------- MODULE SlotEnrollment ----------------------------
(***************************************************************************)
(* The hardware keys of one vault.  Its slot holds the master key wrapped  *)
(* under a key-wrapping key, and that key wrapped once for each enrolled   *)
(* credential; several processes with the passphrase add, revoke and       *)
(* convert while the user inserts and touches devices.                     *)
(*                                                                         *)
(* A write of the slot reads, edits and writes it under the flock: one     *)
(* step.  What a call read of the slot before it began to wait for devices *)
(* stays in its record and may be out of date when it writes.              *)
(***************************************************************************)
EXTENDS Naturals, Sequences

CONSTANTS
  Callers,   \* processes (a process makes one of these calls at a time)
  Devices,   \* physical keys
  None,      \* no process
  MaxCreds   \* bound: credentials ever made

ASSUME SlotAssumption == None \notin Callers /\ MaxCreds \in Nat

VARIABLES
  slot,      \* the slot on disk
  owner,     \* owner[c]: the device that made credential c
  holder,    \* the process that holds the vault open, and so its flock
  call,      \* call[p]: the key operation of p
  enrolled,  \* history: credentials that were written into the slot
  revoked    \* history: credentials that were taken out again

vars == <<slot, owner, holder, call, enrolled, revoked>>

MAX_HW_KEYS_PER_LEVEL == 3

Phrase == 0   \* the key-wrapping key derived from the passphrase (no_hw_kwk)
NoCred == 0

\* Credentials are numbered in the order of their making.  A random
\* key-wrapping key is named by the first credential it was wrapped for.
Creds == 1..Len(owner)

\* kdf: the profile the passphrase key is derived with, "light" when a key
\* carries the strength; master: what the master key is wrapped under.
Entry == [cred : Nat, kwk : Nat, kdf : {"light", "heavy"}]
Slot == [kdf : {"light", "heavy"}, master : Nat, entries : Seq(Entry)]

K(s) == Len(s.entries)
CredsOf(s) == {s.entries[i].cred : i \in 1..K(s)}

(***************************************************************************)
(* Slots                                                                   *)
(***************************************************************************)
\* WrappedSlot::wrap, under the profile that goes with the enrollment.
Wrap(creds) ==
  IF creds = <<>>
    THEN [kdf |-> "heavy", master |-> Phrase, entries |-> <<>>]
    ELSE [kdf |-> "light", master |-> creds[1],
          entries |-> [i \in 1..Len(creds) |-> [cred |-> creds[i], kwk |-> creds[1], kdf |-> "light"]]]

\* The entry of s that the answer of credential c decrypts.
EntryFor(s, c) == {i \in 1..K(s) : s.entries[i].cred = c /\ s.entries[i].kdf = s.kdf}

\* WrappedSlot::try_unwrap with an authenticator that answers with c.
Unwraps(s, c) ==
  \/ K(s) = 0 /\ s.master = Phrase
  \/ \E i \in EntryFor(s, c) : s.entries[i].kwk = s.master

Appended(s, c, kwk) ==
  [s EXCEPT !.entries = Append(@, [cred |-> c, kwk |-> kwk, kdf |-> s.kdf])]

\* A mutant: a fourth key is let in.
CredentialsAddedPastTheEnd(s, present, c) ==
  IF K(s) > MAX_HW_KEYS_PER_LEVEL THEN {}
  ELSE IF K(s) = 0 THEN {Appended(s, c, Phrase)}
  ELSE {Appended(s, c, s.entries[i].kwk) : i \in EntryFor(s, present)}

\* WrappedSlot::add_credential: none when the slot is full, or when the
\* present key recovers nothing from it.
CredentialsAdded(s, present, c) ==
  IF K(s) >= MAX_HW_KEYS_PER_LEVEL THEN {}
  ELSE IF K(s) = 0 THEN {Appended(s, c, Phrase)}
  ELSE {Appended(s, c, s.entries[i].kwk) : i \in EntryFor(s, present)}

\* The entries after i, moved down over it.
Shifted(e, i) == [j \in 1..(Len(e) - 1) |-> IF j < i THEN e[j] ELSE e[j + 1]]

\* A mutant: the last key can be taken out too.
CanRemoveLast(s, i) == i \in 1..K(s)

\* What WrappedSlot::remove_credential asks of the index.
CanRemove(s, i) == i \in 1..K(s) /\ K(s) >= 2

(***************************************************************************)
(* Calls                                                                   *)
(***************************************************************************)
\* stage: what the call waits for or does next.  known: the credentials it
\* read from the slot; present: the one that answered; new: the one just made.
Stages == {"idle", "current", "fresh", "write", "reopen", "last", "rewrap", "reopenPlain"}
Call == [stage : Stages, known : SUBSET Nat, present : Nat, new : Nat]
Idle == [stage |-> "idle", known |-> {}, present |-> NoCred, new |-> NoCred]

Owned(d, cs) == {c \in cs : c \in Creds /\ owner[c] = d}

Return(p) == call' = [call EXCEPT ![p] = Idle]

Init ==
  \* farewell_create_vault_hw: distinct keys, one after the other.
  /\ \E ds \in UNION {[1..n -> Devices] : n \in 0..MAX_HW_KEYS_PER_LEVEL} :
       /\ \A i, j \in DOMAIN ds : ds[i] = ds[j] => i = j
       /\ owner = ds
       /\ slot = Wrap([i \in 1..Len(ds) |-> i])
       /\ enrolled = 1..Len(ds)
  /\ holder = None
  /\ call = [p \in Callers |-> Idle]
  /\ revoked = {}

\* farewell_open_hw: with no key (K = 0) or the touch of device d.  It holds
\* the flock through the touch, which other calls cannot tell from an open vault.
Open(p, d) ==
  /\ call[p].stage = "idle" /\ holder = None
  /\ \E c \in Owned(d, CredsOf(slot)) \cup {NoCred} : Unwraps(slot, c)
  /\ holder' = p
  /\ UNCHANGED <<slot, owner, call, enrolled, revoked>>

\* farewell_close.
Close(p) ==
  /\ holder = p
  /\ holder' = None
  /\ UNCHANGED <<slot, owner, call, enrolled, revoked>>

\* farewell_remove_hw_key: one locked edit, with the passphrase alone.
Revoke(p, i) ==
  /\ call[p].stage = "idle" /\ holder = None
  /\ CanRemove(slot, i)
  /\ slot' = [slot EXCEPT !.entries = Shifted(@, i)]
  /\ revoked' = revoked \cup {slot.entries[i].cred}
  /\ UNCHANGED <<owner, holder, call, enrolled>>

(***************************************************************************)
(* farewell_add_backup_key                                                 *)
(***************************************************************************)
\* Reads the enrollment, without the flock.  The application has closed its
\* own vault first.
AddStart(p) ==
  /\ call[p].stage = "idle" /\ holder # p
  /\ call' = [call EXCEPT ![p] = [Idle EXCEPT
                !.stage = IF K(slot) = 0 THEN "fresh" ELSE "current",
                !.known = CredsOf(slot)]]
  /\ UNCHANGED <<slot, owner, holder, enrolled, revoked>>

\* The current key is touched: its answer will recover the wrapping key.
AddTouchCurrent(p, d) ==
  /\ call[p].stage = "current"
  /\ \E c \in Owned(d, call[p].known) :
       call' = [call EXCEPT ![p].stage = "fresh", ![p].present = c]
  /\ UNCHANGED <<slot, owner, holder, enrolled, revoked>>

\* A device that owns none of the credentials read enrolls.
AddEnroll(p, d) ==
  /\ call[p].stage = "fresh"
  /\ Owned(d, call[p].known) = {}
  /\ Len(owner) < MaxCreds
  /\ owner' = Append(owner, d)
  /\ call' = [call EXCEPT ![p].stage = "write", ![p].new = Len(owner) + 1]
  /\ UNCHANGED <<slot, holder, enrolled, revoked>>

\* A mutant: the slot is rebuilt around the new key whatever it holds now.
WritesForRebuilding(r) ==
  IF r.known = {} THEN {Wrap(<<r.new>>)} ELSE CredentialsAdded(slot, r.present, r.new)

\* reenroll_slot without a key when the slot had none: fails if it has now.
WritesFor(r) ==
  IF r.known = {}
    THEN IF K(slot) = 0 THEN {Wrap(<<r.new>>)} ELSE {}
    ELSE CredentialsAdded(slot, r.present, r.new)

\* The locked write; the sync after it may fail, and the call with it.
AddWrite(p) ==
  /\ call[p].stage = "write" /\ holder = None
  /\ slot' \in WritesFor(call[p])
  /\ enrolled' = enrolled \cup {call[p].new}
  /\ call' \in {[call EXCEPT ![p].stage = "reopen"], [call EXCEPT ![p] = Idle]}
  /\ UNCHANGED <<owner, holder, revoked>>

\* A mutant: the first key is not there to be replayed.
ReplayPresent(r) == r.present

\* The credential whose answer ReplayAuthenticator gives again.
Replay(r) == IF r.present = NoCred THEN r.new ELSE r.present

AddReopen(p) ==
  /\ call[p].stage = "reopen" /\ holder = None
  /\ Unwraps(slot, Replay(call[p]))
  /\ holder' = p
  /\ Return(p)
  /\ UNCHANGED <<slot, owner, enrolled, revoked>>

(***************************************************************************)
(* farewell_convert_to_passphrase_only                                     *)
(***************************************************************************)
ConvertStart(p) ==
  /\ call[p].stage = "idle" /\ holder # p
  /\ K(slot) > 0
  /\ call' = [call EXCEPT ![p] = [Idle EXCEPT !.stage = "last", !.known = CredsOf(slot)]]
  /\ UNCHANGED <<slot, owner, holder, enrolled, revoked>>

ConvertTouch(p, d) ==
  /\ call[p].stage = "last"
  /\ \E c \in Owned(d, call[p].known) :
       call' = [call EXCEPT ![p].stage = "rewrap", ![p].present = c]
  /\ UNCHANGED <<slot, owner, holder, enrolled, revoked>>

\* reenroll_slot with the answer replayed: every key goes.
ConvertWrite(p) ==
  /\ call[p].stage = "rewrap" /\ holder = None
  /\ Unwraps(slot, call[p].present)
  /\ slot' = Wrap(<<>>)
  /\ revoked' = revoked \cup CredsOf(slot)
  /\ call' \in {[call EXCEPT ![p].stage = "reopenPlain"], [call EXCEPT ![p] = Idle]}
  /\ UNCHANGED <<owner, holder, enrolled>>

ConvertReopen(p) ==
  /\ call[p].stage = "reopenPlain" /\ holder = None
  /\ K(slot) = 0
  /\ holder' = p
  /\ Return(p)
  /\ UNCHANGED <<slot, owner, enrolled, revoked>>

(***************************************************************************)
(* A call returns an error: a wait for a device times out, a key does not  *)
(* answer, the vault is open elsewhere (AlreadyLocked), the slot is not    *)
(* what the call read, the disk fails.                                     *)
(***************************************************************************)
Fail(p) ==
  /\ call[p].stage # "idle"
  /\ Return(p)
  /\ UNCHANGED <<slot, owner, holder, enrolled, revoked>>

\* The process is killed; the flock goes with it.
Kill(p) ==
  /\ call[p] # Idle \/ holder = p
  /\ Return(p)
  /\ holder' = IF holder = p THEN None ELSE holder
  /\ UNCHANGED <<slot, owner, enrolled, revoked>>

Next ==
  \E p \in Callers :
    \/ \E d \in Devices : Open(p, d) \/ AddTouchCurrent(p, d) \/ AddEnroll(p, d) \/ ConvertTouch(p, d)
    \/ \E i \in 1..MAX_HW_KEYS_PER_LEVEL : Revoke(p, i)
    \/ AddStart(p) \/ AddWrite(p) \/ AddReopen(p)
    \/ ConvertStart(p) \/ ConvertWrite(p) \/ ConvertReopen(p)
    \/ Close(p) \/ Fail(p) \/ Kill(p)

Spec == Init /\ [][Next]_vars

-------------------------------------------------------------------------------

\* Types; a slot has room for three entries.
TypeOK ==
  /\ slot \in Slot
  /\ K(slot) <= MAX_HW_KEYS_PER_LEVEL
  /\ owner \in Seq(Devices)
  /\ holder \in Callers \cup {None}
  /\ call \in [Callers -> Call]
  /\ enrolled \subseteq Creds
  /\ revoked \subseteq enrolled

\* Exactly the keys that were enrolled and not taken out open the vault with
\* the passphrase: none is lost to another process that writes the slot in
\* between, to the shift of a removal or to a change of profile, and none that
\* was revoked ever opens it again.
EnrolledKeysOpen ==
  \A c \in Creds : K(slot) > 0 /\ Unwraps(slot, c) <=> c \in enrolled \ revoked

\* Whatever the processes do to the slot, something opens the vault: the
\* passphrase alone, or a key that is enrolled and not revoked.  Removing the
\* last key "would orphan the master", says remove_credential.
NeverLockedOut ==
  \E c \in (enrolled \ revoked) \cup {NoCred} : Unwraps(slot, c)

\* The key an enrollment replays to reopen the vault without another touch
\* still opens it, unless that very key was revoked since it was touched.
ReplayOpens ==
  \A p \in Callers :
    call[p].stage = "reopen" /\ Replay(call[p]) \notin revoked
      => Unwraps(slot, Replay(call[p]))
=============================================================================
