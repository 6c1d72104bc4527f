------------------------------ MODULE SlotProofs ------------------------------
(***************************************************************************)
(* Proofs about SlotEnrollment: whatever the processes, the devices and    *)
(* the number of credentials, the keys that open the vault are exactly     *)
(* those enrolled and not revoked, and something always opens it.          *)
(***************************************************************************)
EXTENDS SlotEnrollment, SequenceTheorems, TLAPS

\* A slot in good order that holds the credentials cs: each once, each with the
\* key that wraps the master, under the slot's own profile.
Holds(s, cs) ==
  /\ s \in Slot
  /\ K(s) <= MAX_HW_KEYS_PER_LEVEL
  /\ \A i, j \in 1..K(s) : s.entries[i].cred = s.entries[j].cred => i = j
  /\ \A i \in 1..K(s) : s.entries[i].kwk = s.master /\ s.entries[i].kdf = s.kdf
  /\ CredsOf(s) = cs
  /\ K(s) = 0 => s.master = Phrase

\* What a call may still write is new to the slot, and new to other calls; what
\* it may replay has been in the slot.
CallsOK ==
  /\ \A p \in Callers : call[p].present \in enrolled \cup {NoCred}
  /\ \A p \in Callers : call[p].known \subseteq enrolled
  /\ \A p \in Callers : call[p].stage = "write" => call[p].new \in Creds \ enrolled
  /\ \A p, q \in Callers :
       call[p].stage = "write" /\ call[q].stage = "write" /\ call[p].new = call[q].new => p = q
  /\ \A p \in Callers : call[p].stage = "reopen" => Replay(call[p]) \in enrolled

Vars ==
  /\ owner \in Seq(Devices)
  /\ holder \in Callers \cup {None}
  /\ call \in [Callers -> Call]
  /\ enrolled \subseteq Creds
  /\ revoked \subseteq enrolled

IInv == Vars /\ Holds(slot, enrolled \ revoked) /\ CallsOK

-----------------------------------------------------------------------------
\* An empty enrollment is wrapped under the passphrase.
LEMMA WrapNone == Holds(Wrap(<<>>), {})
BY DEF Holds, Wrap, K, CredsOf, Slot, Phrase, MAX_HW_KEYS_PER_LEVEL

\* wrap puts every credential it is given in order.
LEMMA WrapSome ==
  ASSUME NEW n \in 1..MAX_HW_KEYS_PER_LEVEL, NEW f \in [1..n -> Nat],
         \A i, j \in 1..n : f[i] = f[j] => i = j
  PROVE  Holds(Wrap(f), {f[i] : i \in 1..n})
<1> DEFINE e == [i \in 1..n |-> [cred |-> f[i], kwk |-> f[1], kdf |-> "light"]]
<1>1. f \in Seq(Nat) /\ Len(f) = n /\ f # <<>> /\ n \in Nat
  BY DEF MAX_HW_KEYS_PER_LEVEL
<1>2. Wrap(f) = [kdf |-> "light", master |-> f[1], entries |-> e]
  BY <1>1 DEF Wrap
<1>3. e \in Seq(Entry) /\ Len(e) = n
  <2>1. \A i \in 1..n : [cred |-> f[i], kwk |-> f[1], kdf |-> "light"] \in Entry
    BY <1>1 DEF Entry
  <2>2. e \in [1..n -> Entry]
    BY <2>1
  <2>3. QED  BY <2>2, <1>1
<1>4. Wrap(f) \in Slot
  BY <1>1, <1>2, <1>3 DEF Slot
<1>5. K(Wrap(f)) = n
  BY <1>2, <1>3 DEF K
<1>6. \A i \in 1..n : Wrap(f).entries[i] = [cred |-> f[i], kwk |-> f[1], kdf |-> "light"]
  BY <1>2
<1>7. \A i \in 1..n : /\ Wrap(f).entries[i].cred = f[i]
                       /\ Wrap(f).entries[i].kwk = Wrap(f).master
                       /\ Wrap(f).entries[i].kdf = Wrap(f).kdf
  BY <1>2, <1>6
<1>8. CredsOf(Wrap(f)) = {f[i] : i \in 1..n}
  <2>1. CredsOf(Wrap(f)) = {Wrap(f).entries[i].cred : i \in 1..n}
    BY <1>5 DEF CredsOf
  <2>2. QED  BY <1>7, <2>1
<1>9. \A i, j \in 1..n : Wrap(f).entries[i].cred = Wrap(f).entries[j].cred => i = j
  BY <1>7
<1>10. n <= MAX_HW_KEYS_PER_LEVEL /\ n # 0
  BY DEF MAX_HW_KEYS_PER_LEVEL
<1>11. QED
  BY <1>4, <1>5, <1>7, <1>8, <1>9, <1>10 DEF Holds

\* add_credential adds one credential and disturbs no other.
LEMMA AddHolds ==
  ASSUME NEW s, NEW cs, Holds(s, cs), NEW c \in Nat \ cs, NEW present,
         NEW t \in CredentialsAdded(s, present, c)
  PROVE  Holds(t, cs \cup {c})
<1>1. /\ s \in Slot /\ s.entries \in Seq(Entry) /\ K(s) \in Nat
      /\ K(s) = Len(s.entries) /\ s.kdf \in {"light", "heavy"} /\ s.master \in Nat
  BY DEF Holds, Slot, K
<1>2. K(s) < MAX_HW_KEYS_PER_LEVEL /\ t = Appended(s, c, s.master)
  <2>1. CASE K(s) = 0
    BY <2>1, <1>1 DEF CredentialsAdded, MAX_HW_KEYS_PER_LEVEL, Holds
  <2>2. CASE K(s) # 0
    <3>1. \A i \in EntryFor(s, present) : s.entries[i].kwk = s.master
      BY DEF EntryFor, Holds
    <3>2. QED  BY <2>2, <3>1, <1>1 DEF CredentialsAdded, MAX_HW_KEYS_PER_LEVEL
  <2>3. QED  BY <2>1, <2>2
<1> DEFINE n == K(s)
           x == [cred |-> c, kwk |-> s.master, kdf |-> s.kdf]
<1>3. x \in Entry /\ x.cred = c /\ x.kwk = s.master /\ x.kdf = s.kdf
  BY <1>1 DEF Entry
<1>4. /\ t.entries = Append(s.entries, x) /\ t.kdf = s.kdf /\ t.master = s.master
      /\ t = [kdf |-> s.kdf, master |-> s.master, entries |-> Append(s.entries, x)]
  BY <1>1, <1>2 DEF Appended, Slot
<1>5. /\ t.entries \in Seq(Entry) /\ Len(t.entries) = n + 1
      /\ \A i \in 1..n : t.entries[i] = s.entries[i]
      /\ t.entries[n + 1] = x
  BY <1>1, <1>3, <1>4, AppendProperties
<1> HIDE DEF x
<1>6. t \in Slot /\ K(t) = n + 1
  BY <1>1, <1>4, <1>5 DEF Slot, K
<1>7. \A i \in 1..n : s.entries[i].cred \in cs
  BY DEF Holds, CredsOf
<1>8. \A i, j \in 1..(n + 1) : t.entries[i].cred = t.entries[j].cred => i = j
  <2> SUFFICES ASSUME NEW i \in 1..(n + 1), NEW j \in 1..(n + 1),
                      t.entries[i].cred = t.entries[j].cred
               PROVE  i = j
    OBVIOUS
  <2>1. CASE i \in 1..n /\ j \in 1..n
    BY <2>1, <1>5 DEF Holds
  <2>2. CASE i = n + 1 \/ j = n + 1
    <3>1. \A k \in 1..n : t.entries[k].cred # c
      BY <1>5, <1>7
    <3>2. t.entries[n + 1].cred = c
      BY <1>3, <1>5
    <3>3. \A k \in 1..(n + 1) : k # n + 1 => k \in 1..n
      BY <1>1
    <3>4. QED  BY <2>2, <3>1, <3>2, <3>3
  <2>3. QED  BY <2>1, <2>2, <1>1
<1>9. CredsOf(t) = cs \cup {c}
  <2>1. CredsOf(t) = {t.entries[i].cred : i \in 1..(n + 1)}
    BY <1>6 DEF CredsOf
  <2>2. ASSUME NEW i \in 1..(n + 1)
        PROVE  t.entries[i].cred \in cs \cup {c}
    <3>1. CASE i = n + 1
      BY <3>1, <1>3, <1>5
    <3>2. CASE i # n + 1
      <4>1. i \in 1..n
        BY <3>2, <1>1
      <4>2. QED  BY <4>1, <1>5, <1>7
    <3>3. QED  BY <3>1, <3>2
  <2>3. ASSUME NEW y \in cs
        PROVE  \E i \in 1..(n + 1) : t.entries[i].cred = y
    <3>1. PICK i \in 1..n : s.entries[i].cred = y
      BY DEF Holds, CredsOf
    <3>2. i \in 1..(n + 1) /\ t.entries[i].cred = y
      BY <3>1, <1>1, <1>5
    <3>3. QED  BY <3>2
  <2>4. n + 1 \in 1..(n + 1) /\ t.entries[n + 1].cred = c
    BY <1>1, <1>3, <1>5
  <2>5. QED  BY <2>1, <2>2, <2>3, <2>4
<1>10. \A i \in 1..(n + 1) : t.entries[i].kwk = t.master /\ t.entries[i].kdf = t.kdf
  <2> SUFFICES ASSUME NEW i \in 1..(n + 1)
               PROVE  t.entries[i].kwk = t.master /\ t.entries[i].kdf = t.kdf
    OBVIOUS
  <2>1. CASE i \in 1..n
    BY <2>1, <1>4, <1>5 DEF Holds
  <2>2. CASE i = n + 1
    BY <2>2, <1>3, <1>4, <1>5
  <2>3. QED  BY <2>1, <2>2, <1>1
<1>11. QED
  BY <1>1, <1>2, <1>6, <1>8, <1>9, <1>10 DEF Holds, MAX_HW_KEYS_PER_LEVEL

\* remove_credential takes one credential out and disturbs no other.
LEMMA RemoveHolds ==
  ASSUME NEW s, NEW cs, Holds(s, cs), NEW i, CanRemove(s, i),
         NEW t, t = [s EXCEPT !.entries = Shifted(@, i)]
  PROVE  Holds(t, cs \ {s.entries[i].cred}) /\ s.entries[i].cred \in cs
<1> DEFINE n == K(s)
           e == Shifted(s.entries, i)
           from(j) == IF j < i THEN j ELSE j + 1
<1>1. /\ s \in Slot /\ s.entries \in Seq(Entry) /\ n \in Nat /\ n = Len(s.entries)
      /\ s.kdf \in {"light", "heavy"} /\ s.master \in Nat
      /\ n >= 2 /\ n <= MAX_HW_KEYS_PER_LEVEL /\ i \in 1..n
  BY DEF Holds, Slot, K, CanRemove
<1>2. \A j \in 1..(n - 1) : from(j) \in 1..n /\ from(j) # i /\ e[j] = s.entries[from(j)]
  BY <1>1 DEF Shifted
<1>3. \A j \in 1..(n - 1) : e[j] \in Entry
  BY <1>1, <1>2, ElementOfSeq
<1>4. e \in Seq(Entry) /\ Len(e) = n - 1
  <2>1. e \in [1..(n - 1) -> Entry]
    BY <1>1, <1>3 DEF Shifted
  <2>2. n - 1 \in Nat
    BY <1>1
  <2> HIDE DEF e
  <2>3. QED  BY <2>1, <2>2
<1>5. t = [kdf |-> s.kdf, master |-> s.master, entries |-> e]
  BY <1>1 DEF Slot
<1>6. t \in Slot /\ K(t) = n - 1 /\ t.entries = e /\ t.kdf = s.kdf /\ t.master = s.master
  BY <1>1, <1>4, <1>5 DEF Slot, K
<1>7. \A j, k \in 1..(n - 1) : from(j) = from(k) => j = k
  BY <1>1
<1>8. \A j, k \in 1..(n - 1) : t.entries[j].cred = t.entries[k].cred => j = k
  BY <1>2, <1>6, <1>7 DEF Holds
<1>9. \A j \in 1..(n - 1) : t.entries[j].kwk = t.master /\ t.entries[j].kdf = t.kdf
  BY <1>2, <1>6 DEF Holds
<1>10. CredsOf(t) = CredsOf(s) \ {s.entries[i].cred}
  <2>1. \A j \in 1..(n - 1) : e[j].cred \in CredsOf(s) /\ e[j].cred # s.entries[i].cred
    BY <1>1, <1>2 DEF Holds, CredsOf
  <2>2. \A k \in 1..n : k # i => \E j \in 1..(n - 1) : from(j) = k
    <3> SUFFICES ASSUME NEW k \in 1..n, k # i
                 PROVE  \E j \in 1..(n - 1) : from(j) = k
      OBVIOUS
    <3>1. CASE k < i
      BY <3>1, <1>1
    <3>2. CASE k > i
      <4>1. k - 1 \in 1..(n - 1) /\ from(k - 1) = k
        BY <3>2, <1>1
      <4>2. QED  BY <4>1
    <3>3. QED  BY <3>1, <3>2, <1>1
  <2>3. \A k \in 1..n : k # i => s.entries[k].cred \in CredsOf(t)
    <3> SUFFICES ASSUME NEW k \in 1..n, k # i
                 PROVE  s.entries[k].cred \in CredsOf(t)
      OBVIOUS
    <3>1. PICK j \in 1..(n - 1) : from(j) = k
      BY <2>2
    <3>2. e[j] = s.entries[k]
      BY <3>1, <1>2
    <3>3. QED  BY <3>2, <1>6 DEF CredsOf
  <2>4. ASSUME NEW y \in CredsOf(t)
        PROVE  y \in CredsOf(s) \ {s.entries[i].cred}
    <3>1. PICK j \in 1..(n - 1) : y = e[j].cred
      BY <1>6 DEF CredsOf
    <3>2. QED  BY <3>1, <2>1
  <2>5. ASSUME NEW y \in CredsOf(s), y # s.entries[i].cred
        PROVE  y \in CredsOf(t)
    <3>1. PICK k \in 1..n : y = s.entries[k].cred
      BY DEF CredsOf
    <3>2. k # i
      BY <3>1, <2>5
    <3>3. QED  BY <3>1, <3>2, <2>3
  <2>6. QED  BY <2>4, <2>5
<1>11. CredsOf(s) = cs /\ s.entries[i].cred \in cs
  BY <1>1 DEF Holds, CredsOf
<1>12. K(t) <= MAX_HW_KEYS_PER_LEVEL /\ K(t) # 0
  BY <1>1, <1>6 DEF MAX_HW_KEYS_PER_LEVEL
<1>13. QED
  BY <1>6, <1>8, <1>9, <1>10, <1>11, <1>12 DEF Holds

\* The credentials that open a slot in good order are those it holds.
LEMMA HoldsOpens ==
  ASSUME NEW s, NEW cs, Holds(s, cs), NEW c
  PROVE  K(s) > 0 /\ Unwraps(s, c) <=> c \in cs
<1>1. K(s) \in Nat /\ CredsOf(s) = cs
  BY DEF Holds, Slot, K
<1>2. \A i \in 1..K(s) : s.entries[i].kwk = s.master /\ s.entries[i].kdf = s.kdf
  BY DEF Holds
<1>3. (\E i \in EntryFor(s, c) : s.entries[i].kwk = s.master) <=> c \in cs
  BY <1>1, <1>2 DEF EntryFor, CredsOf
<1>4. c \in cs => K(s) > 0
  BY <1>1 DEF CredsOf
<1>5. QED  BY <1>1, <1>3, <1>4 DEF Unwraps

-----------------------------------------------------------------------------
\* The application starts from a vault with distinct keys, in good order.
LEMMA InitIInv == Init => IInv
<1> SUFFICES ASSUME Init PROVE IInv
  OBVIOUS
<1> USE SlotAssumption
<1>0. PICK ds \in UNION {[1..n -> Devices] : n \in 0..MAX_HW_KEYS_PER_LEVEL} :
        owner = ds /\ slot = Wrap([i \in 1..Len(ds) |-> i]) /\ enrolled = 1..Len(ds)
  BY DEF Init
<1>1. PICK n \in 0..MAX_HW_KEYS_PER_LEVEL : ds \in [1..n -> Devices]
  BY <1>0
<1>2. n \in Nat /\ ds \in Seq(Devices) /\ Len(ds) = n
  BY <1>1 DEF MAX_HW_KEYS_PER_LEVEL
<1>3. enrolled = 1..n /\ Creds = 1..n /\ revoked = {}
  BY <1>0, <1>2 DEF Creds, Init
<1>4. Holds(slot, enrolled \ revoked)
  <2> DEFINE f == [i \in 1..n |-> i]
  <2>1. slot = Wrap(f)
    BY <1>0, <1>2
  <2>2. CASE n = 0
    <3>1. f = <<>> /\ enrolled \ revoked = {}
      BY <2>2, <1>3
    <3>2. QED  BY <3>1, <2>1, WrapNone
  <2>3. CASE n # 0
    <3>1. n \in 1..MAX_HW_KEYS_PER_LEVEL
      BY <1>1, <2>3 DEF MAX_HW_KEYS_PER_LEVEL
    <3>2. f \in [1..n -> Nat] /\ \A i, j \in 1..n : f[i] = f[j] => i = j
      BY <1>2
    <3>3. {f[i] : i \in 1..n} = enrolled \ revoked
      BY <1>3
    <3>4. Holds(Wrap(f), {f[i] : i \in 1..n})
      BY <3>1, <3>2, WrapSome
    <3>5. QED  BY <3>3, <3>4, <2>1
  <2>4. QED  BY <2>2, <2>3
<1>5. Vars
  BY <1>0, <1>2, <1>3 DEF Vars, Init, Call, Idle, Stages, NoCred
<1>6. CallsOK
  BY DEF Init, CallsOK, Idle, NoCred
<1>7. QED  BY <1>4, <1>5, <1>6 DEF IInv

\* A step that leaves the slot and its history alone, and brings at most one
\* call forward without a credential to write, keeps the invariant.
LEMMA StepsAlone ==
  ASSUME IInv, UNCHANGED <<slot, owner, enrolled, revoked>>,
         NEW p \in Callers, NEW r \in Call, call' = [call EXCEPT ![p] = r],
         r.present \in enrolled \cup {NoCred}, r.known \subseteq enrolled,
         r.stage \notin {"write", "reopen"},
         holder' \in Callers \cup {None}
  PROVE  IInv'
<1>1. call \in [Callers -> Call] /\ call'[p] = r
      /\ \A q \in Callers : q # p => call'[q] = call[q]
  BY DEF IInv, Vars
<1>2. Vars'
  BY DEF IInv, Vars, Creds
<1>3. CallsOK'
  BY <1>1 DEF IInv, CallsOK, Creds, Replay
<1>4. Holds(slot, enrolled \ revoked)'
  BY DEF IInv, Holds, K, CredsOf
<1>5. QED  BY <1>2, <1>3, <1>4 DEF IInv

\* Every step keeps the invariant.
LEMMA NextIInv == IInv /\ [Next]_vars => IInv'
<1> SUFFICES ASSUME IInv, [Next]_vars PROVE IInv'
  OBVIOUS
<1> USE SlotAssumption
<1>a. /\ Holds(slot, enrolled \ revoked)
      /\ call \in [Callers -> Call] /\ owner \in Seq(Devices) /\ Len(owner) \in Nat
      /\ holder \in Callers \cup {None}
      /\ enrolled \subseteq Creds /\ revoked \subseteq enrolled
      /\ CredsOf(slot) = enrolled \ revoked
      /\ NoCred \notin Creds /\ Creds \subseteq Nat
  BY DEF IInv, Vars, Holds, Creds, NoCred
<1>b. \A p \in Callers :
        /\ call[p] \in Call
        /\ call[p].present \in enrolled \cup {NoCred} /\ call[p].known \subseteq enrolled
  BY DEF IInv, Vars, CallsOK
<1>c. Idle \in Call /\ Idle.present = NoCred /\ Idle.known = {} /\ Idle.stage = "idle"
  BY DEF Idle, Call, Stages, NoCred
<1>1. ASSUME NEW p \in Callers, NEW d \in Devices, Open(p, d)
      PROVE  IInv'
  <2>1. call' = [call EXCEPT ![p] = call[p]] /\ call[p].stage = "idle"
    BY <1>1, <1>a DEF Open
  <2>2. QED  BY <1>1, <2>1, <1>b, StepsAlone DEF Open
<1>2. ASSUME NEW p \in Callers, NEW d \in Devices, AddTouchCurrent(p, d)
      PROVE  IInv'
  <2>1. PICK c \in Owned(d, call[p].known) :
          call' = [call EXCEPT ![p].stage = "fresh", ![p].present = c]
    BY <1>2 DEF AddTouchCurrent
  <2> DEFINE r == [call[p] EXCEPT !.stage = "fresh", !.present = c]
  <2>2. call' = [call EXCEPT ![p] = r]
    BY <2>1
  <2>3. c \in enrolled /\ c \in Nat
    BY <2>1, <1>a, <1>b DEF Owned
  <2>4. r \in Call /\ r.present = c /\ r.known = call[p].known /\ r.stage = "fresh"
    BY <1>b, <2>3 DEF Call, Stages
  <2>5. UNCHANGED <<slot, owner, enrolled, revoked>> /\ holder' \in Callers \cup {None}
    BY <1>2, <1>a DEF AddTouchCurrent
  <2>6. r.present \in enrolled \cup {NoCred} /\ r.known \subseteq enrolled
        /\ r.stage \notin {"write", "reopen"}
    BY <1>b, <2>3, <2>4
  <2> HIDE DEF r
  <2>7. QED  BY <2>2, <2>4, <2>5, <2>6, StepsAlone
<1>3. ASSUME NEW p \in Callers, NEW d \in Devices, ConvertTouch(p, d)
      PROVE  IInv'
  <2>1. PICK c \in Owned(d, call[p].known) :
          call' = [call EXCEPT ![p].stage = "rewrap", ![p].present = c]
    BY <1>3 DEF ConvertTouch
  <2> DEFINE r == [call[p] EXCEPT !.stage = "rewrap", !.present = c]
  <2>2. call' = [call EXCEPT ![p] = r]
    BY <2>1
  <2>3. c \in enrolled /\ c \in Nat
    BY <2>1, <1>a, <1>b DEF Owned
  <2>4. r \in Call /\ r.present = c /\ r.known = call[p].known /\ r.stage = "rewrap"
    BY <1>b, <2>3 DEF Call, Stages
  <2>5. UNCHANGED <<slot, owner, enrolled, revoked>> /\ holder' \in Callers \cup {None}
    BY <1>3, <1>a DEF ConvertTouch
  <2>6. r.present \in enrolled \cup {NoCred} /\ r.known \subseteq enrolled
        /\ r.stage \notin {"write", "reopen"}
    BY <1>b, <2>3, <2>4
  <2> HIDE DEF r
  <2>7. QED  BY <2>2, <2>4, <2>5, <2>6, StepsAlone
<1>4. ASSUME NEW p \in Callers, AddStart(p)
      PROVE  IInv'
  <2> DEFINE r == [Idle EXCEPT !.stage = IF K(slot) = 0 THEN "fresh" ELSE "current",
                               !.known = CredsOf(slot)]
  <2>1. call' = [call EXCEPT ![p] = r]
    BY <1>4 DEF AddStart
  <2>2. r \in Call /\ r.present = NoCred /\ r.known = CredsOf(slot)
        /\ r.stage \in {"fresh", "current"}
    BY <1>a, <1>c DEF Call, Idle, Stages
  <2>3. UNCHANGED <<slot, owner, enrolled, revoked>> /\ holder' \in Callers \cup {None}
    BY <1>4, <1>a DEF AddStart
  <2>4. r.present \in enrolled \cup {NoCred} /\ r.known \subseteq enrolled
        /\ r.stage \notin {"write", "reopen"}
    BY <1>a, <2>2
  <2> HIDE DEF r
  <2>5. QED  BY <2>1, <2>2, <2>3, <2>4, StepsAlone
<1>5. ASSUME NEW p \in Callers, ConvertStart(p)
      PROVE  IInv'
  <2> DEFINE r == [Idle EXCEPT !.stage = "last", !.known = CredsOf(slot)]
  <2>1. call' = [call EXCEPT ![p] = r]
    BY <1>5 DEF ConvertStart
  <2>2. r \in Call /\ r.present = NoCred /\ r.known = CredsOf(slot) /\ r.stage = "last"
    BY <1>a, <1>c DEF Call, Idle, Stages
  <2>3. UNCHANGED <<slot, owner, enrolled, revoked>> /\ holder' \in Callers \cup {None}
    BY <1>5, <1>a DEF ConvertStart
  <2>4. r.present \in enrolled \cup {NoCred} /\ r.known \subseteq enrolled
        /\ r.stage \notin {"write", "reopen"}
    BY <1>a, <2>2
  <2> HIDE DEF r
  <2>5. QED  BY <2>1, <2>2, <2>3, <2>4, StepsAlone
<1>6. ASSUME NEW p \in Callers, AddReopen(p) \/ ConvertReopen(p) \/ Fail(p) \/ Kill(p)
      PROVE  IInv'
  <2>1. call' = [call EXCEPT ![p] = Idle] /\ UNCHANGED <<slot, owner, enrolled, revoked>>
        /\ holder' \in Callers \cup {None}
    BY <1>6, <1>a DEF AddReopen, ConvertReopen, Fail, Kill, Return
  <2>2. QED  BY <2>1, <1>c, StepsAlone
<1>7. ASSUME NEW p \in Callers, Close(p)
      PROVE  IInv'
  BY <1>7 DEF Close, IInv, Vars, Holds, CallsOK, K, CredsOf, Creds, Replay
<1>8. ASSUME NEW p \in Callers, NEW i \in 1..MAX_HW_KEYS_PER_LEVEL, Revoke(p, i)
      PROVE  IInv'
  <2>1. /\ CanRemove(slot, i)
        /\ slot' = [slot EXCEPT !.entries = Shifted(@, i)]
        /\ revoked' = revoked \cup {slot.entries[i].cred}
        /\ UNCHANGED <<owner, holder, call, enrolled>>
    BY <1>8 DEF Revoke
  <2>2. /\ Holds(slot', (enrolled \ revoked) \ {slot.entries[i].cred})
        /\ slot.entries[i].cred \in enrolled \ revoked
    BY <1>a, <2>1, RemoveHolds
  <2>3. enrolled' \ revoked' = (enrolled \ revoked) \ {slot.entries[i].cred}
    BY <2>1
  <2>4. Holds(slot, enrolled \ revoked)'
    BY <2>2, <2>3 DEF Holds, K, CredsOf
  <2>5. Vars'
    BY <2>1, <2>2 DEF IInv, Vars, Creds
  <2>6. CallsOK'
    BY <2>1 DEF IInv, CallsOK, Creds, Replay
  <2>7. QED  BY <2>4, <2>5, <2>6 DEF IInv
<1>9. ASSUME NEW p \in Callers, NEW d \in Devices, AddEnroll(p, d)
      PROVE  IInv'
  <2> DEFINE n == Len(owner) + 1
             r == [call[p] EXCEPT !.stage = "write", !.new = n]
  <2>1. /\ owner' = Append(owner, d) /\ UNCHANGED <<slot, holder, enrolled, revoked>>
        /\ call' = [call EXCEPT ![p] = r]
    BY <1>9 DEF AddEnroll
  <2>2. owner' \in Seq(Devices) /\ Len(owner') = n /\ n \in Nat
    BY <1>a, <2>1, AppendProperties
  <2>3. n \notin Creds /\ Creds' = Creds \cup {n}
    BY <1>a, <2>2 DEF Creds
  <2>4. /\ r \in Call /\ r.present = call[p].present /\ r.known = call[p].known
        /\ r.stage = "write" /\ r.new = n
    BY <1>b, <2>2 DEF Call, Stages
  <2>5. call'[p] = r /\ \A q \in Callers : q # p => call'[q] = call[q]
    BY <1>a, <2>1
  <2>6. Vars'
    BY <1>a, <2>1, <2>2, <2>3, <2>4 DEF Vars
  <2>7. CallsOK'
    BY <1>a, <2>1, <2>3, <2>4, <2>5 DEF IInv, CallsOK, Replay
  <2>8. Holds(slot, enrolled \ revoked)'
    BY <1>a, <2>1 DEF Holds, K, CredsOf
  <2>9. QED  BY <2>6, <2>7, <2>8 DEF IInv
<1>10. ASSUME NEW p \in Callers, AddWrite(p)
       PROVE  IInv'
  <2> DEFINE c == call[p].new
  <2>1. /\ call[p].stage = "write" /\ slot' \in WritesFor(call[p])
        /\ enrolled' = enrolled \cup {c} /\ UNCHANGED <<owner, holder, revoked>>
        /\ \/ call' = [call EXCEPT ![p].stage = "reopen"]
           \/ call' = [call EXCEPT ![p] = Idle]
    BY <1>10 DEF AddWrite
  <2>2. c \in Creds \ enrolled /\ c \in Nat /\ c # 0 /\ Creds' = Creds
    BY <1>a, <2>1 DEF IInv, CallsOK, Creds
  <2>3. Holds(slot', (enrolled \ revoked) \cup {c})
    <3>1. CASE call[p].known = {}
      <4>1. K(slot) = 0 /\ slot' = Wrap(<<c>>)
        BY <3>1, <2>1 DEF WritesFor
      <4>2. <<c>> \in [1..1 -> Nat] /\ 1 \in 1..MAX_HW_KEYS_PER_LEVEL
            /\ \A i, j \in 1..1 : <<c>>[i] = <<c>>[j] => i = j
        BY <2>2 DEF MAX_HW_KEYS_PER_LEVEL
      <4>3. Holds(Wrap(<<c>>), {<<c>>[i] : i \in 1..1})
        BY <4>2, WrapSome
      <4>4. {<<c>>[i] : i \in 1..1} = {c}
        OBVIOUS
      <4>5. enrolled \ revoked = {}
        BY <1>a, <4>1 DEF CredsOf
      <4>6. QED  BY <4>1, <4>3, <4>4, <4>5
    <3>2. CASE call[p].known # {}
      <4>1. slot' \in CredentialsAdded(slot, call[p].present, c)
        BY <3>2, <2>1 DEF WritesFor
      <4>2. c \in Nat \ (enrolled \ revoked)
        BY <2>2
      <4>3. QED  BY <4>1, <4>2, <1>a, AddHolds
    <3>3. QED  BY <3>1, <3>2
  <2>4. enrolled' \ revoked' = (enrolled \ revoked) \cup {c}
    BY <2>1, <2>2, <1>a
  <2>5. Holds(slot, enrolled \ revoked)'
    BY <2>3, <2>4 DEF Holds, K, CredsOf
  <2>6. /\ call' \in [Callers -> Call]
        /\ \A q \in Callers : q # p => call'[q] = call[q]
        /\ \/ call'[p] = Idle
           \/ call'[p] = [call[p] EXCEPT !.stage = "reopen"]
    <3> DEFINE r == [call[p] EXCEPT !.stage = "reopen"]
    <3>1. r \in Call
      BY <1>b DEF Call, Stages
    <3>2. call' = [call EXCEPT ![p] = r] \/ call' = [call EXCEPT ![p] = Idle]
      BY <2>1
    <3> HIDE DEF r
    <3>3. /\ call' \in [Callers -> Call]
          /\ \A q \in Callers : q # p => call'[q] = call[q]
          /\ call'[p] = Idle \/ call'[p] = r
      BY <3>1, <3>2, <1>a, <1>c
    <3>4. QED  BY <3>3 DEF r
  <2>7. Vars'
    BY <2>1, <2>2, <2>6, <1>a DEF Vars
  <2>8. CallsOK'
    <3>1. /\ call'[p].present \in enrolled \cup {NoCred} /\ call'[p].known \subseteq enrolled
          /\ call'[p].stage \in {"idle", "reopen"}
          /\ call'[p].stage = "reopen" => Replay(call'[p]) \in enrolled'
      BY <2>1, <2>6, <1>b, <1>c DEF Call, Replay
    <3>2. \A q \in Callers : call[q].stage = "write" /\ q # p => call[q].new # c
      BY <2>1 DEF IInv, CallsOK
    <3>3. QED  BY <3>1, <3>2, <2>1, <2>2, <2>6 DEF IInv, CallsOK, Replay
  <2>9. QED  BY <2>5, <2>7, <2>8 DEF IInv
<1>11. ASSUME NEW p \in Callers, ConvertWrite(p)
       PROVE  IInv'
  <2>1. /\ slot' = Wrap(<<>>) /\ revoked' = revoked \cup CredsOf(slot)
        /\ UNCHANGED <<owner, holder, enrolled>>
        /\ \/ call' = [call EXCEPT ![p].stage = "reopenPlain"]
           \/ call' = [call EXCEPT ![p] = Idle]
    BY <1>11 DEF ConvertWrite
  <2>2. enrolled' \ revoked' = {} /\ revoked' \subseteq enrolled' /\ Creds' = Creds
    BY <1>a, <2>1 DEF Creds
  <2>3. Holds(slot, enrolled \ revoked)'
    <3>1. Holds(slot', enrolled' \ revoked')
      BY <2>1, <2>2, WrapNone
    <3>2. QED  BY <3>1 DEF Holds, K, CredsOf
  <2>4. /\ call' \in [Callers -> Call]
        /\ \A q \in Callers : q # p => call'[q] = call[q]
        /\ \/ call'[p] = Idle
           \/ call'[p] = [call[p] EXCEPT !.stage = "reopenPlain"]
    <3> DEFINE r == [call[p] EXCEPT !.stage = "reopenPlain"]
    <3>1. r \in Call
      BY <1>b DEF Call, Stages
    <3>2. call' = [call EXCEPT ![p] = r] \/ call' = [call EXCEPT ![p] = Idle]
      BY <2>1
    <3> HIDE DEF r
    <3>3. /\ call' \in [Callers -> Call]
          /\ \A q \in Callers : q # p => call'[q] = call[q]
          /\ call'[p] = Idle \/ call'[p] = r
      BY <3>1, <3>2, <1>a, <1>c
    <3>4. QED  BY <3>3 DEF r
  <2>5. /\ call'[p].present \in enrolled \cup {NoCred} /\ call'[p].known \subseteq enrolled
        /\ call'[p].stage \in {"idle", "reopenPlain"}
    BY <2>4, <1>b, <1>c DEF Call
  <2>6. Vars'
    BY <2>1, <2>2, <2>4, <1>a DEF Vars
  <2>7. CallsOK'
    BY <2>1, <2>2, <2>4, <2>5 DEF IInv, CallsOK, Replay
  <2>8. QED  BY <2>3, <2>6, <2>7 DEF IInv
<1>12. CASE UNCHANGED vars
  BY <1>12 DEF vars, IInv, Vars, Holds, CallsOK, K, CredsOf, Creds, Replay
<1>13. QED
  BY <1>1, <1>2, <1>3, <1>4, <1>5, <1>6, <1>7, <1>8, <1>9, <1>10, <1>11, <1>12 DEF Next

LEMMA Invariance == Spec => []IInv
BY InitIInv, NextIInv, PTL DEF Spec

-----------------------------------------------------------------------------
\* Types hold whatever the processes do, and the slot never has a fourth entry.
THEOREM SlotTypes == Spec => []TypeOK
<1>1. IInv => TypeOK
  BY DEF IInv, Vars, Holds, TypeOK
<1>2. QED  BY <1>1, Invariance, PTL

\* Exactly the keys enrolled and not revoked open the vault.
THEOREM KeysOpen == Spec => []EnrolledKeysOpen
<1>1. IInv => EnrolledKeysOpen
  BY HoldsOpens DEF IInv, EnrolledKeysOpen
<1>2. QED  BY <1>1, Invariance, PTL

\* Something always opens the vault: the passphrase, or a key not revoked.
THEOREM AlwaysOpens == Spec => []NeverLockedOut
<1>1. ASSUME IInv PROVE NeverLockedOut
  <2>1. CASE K(slot) = 0
    BY <1>1, <2>1 DEF IInv, Holds, NeverLockedOut, Unwraps
  <2>2. CASE K(slot) # 0
    <3>1. K(slot) \in Nat
      BY <1>1 DEF IInv, Holds, Slot, K
    <3>2. slot.entries[1].cred \in enrolled \ revoked
      BY <1>1, <2>2, <3>1 DEF IInv, Holds, CredsOf
    <3>3. QED  BY <1>1, <3>2, HoldsOpens DEF IInv, NeverLockedOut
  <2>3. QED  BY <2>1, <2>2
<1>2. QED  BY <1>1, Invariance, PTL

\* A replayed key opens the vault again unless it was revoked meanwhile.
THEOREM ReplayedKeyOpens == Spec => []ReplayOpens
<1>1. IInv => ReplayOpens
  BY HoldsOpens DEF IInv, CallsOK, ReplayOpens
<1>2. QED  BY <1>1, Invariance, PTL
=============================================================================
