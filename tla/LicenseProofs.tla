---------------------------- MODULE LicenseProofs -------------------------------
(***************************************************************************)
(* What license.flw may hold, proved for every set of licenses and any     *)
(* number of saves, whatever the two programs, kills and power losses do;  *)
(* and, as long as the two have not saved at the same time, that it is     *)
(* never torn and keeps what was reported.                                 *)
(***************************************************************************)
EXTENDS License, TLAPS

\* A text that this Mac accepts: what verify_for_this_mac lets through.
Authentic(text) == text.token.signed /\ text.token.major = Current /\ Here \in text.token.bound

\* A save that has begun carries a text that verified.
SavesVerified == \A p \in Procs : save[p].pc \in Saving => Verdict(save[p].text) = "valid"

\* A file under any name, or under none, is torn or was written by such a save.
FilesAuthentic == \A i \in Inodes : content[i] # Torn => Authentic(content[i])

\* Names and descriptors refer to files.
Refers ==
  /\ {store, tmp} \cup earlier \subseteq {NoFile} \cup Inodes
  /\ \A p \in Procs : save[p].pc \in {"opened", "written", "synced"} => save[p].fd \in Inodes

\* The shape of the functions that the steps update.
TextType == [token : Licenses \cup {NoLicense}, frames : Nat]
SaveType == [pc : {"idle"} \cup Saving, text : TextType, fd : Inodes \cup {NoFile}]
Shape == content \in [Inodes -> TextType] /\ save \in [Procs -> SaveType]

LInv == Shape /\ Refers /\ SavesVerified /\ FilesAuthentic

\* The order of the checks in verify_for_this_mac: what passes all of them is
\* signed, of this version and bound to this Mac.
LEMMA ValidIsAuthentic ==
  ASSUME NEW text, Verdict(text) = "valid"
  PROVE  Authentic(text)
BY DEF Verdict, Authentic

LEMMA InitLInv == Init => LInv
BY LicenseAssumption DEF Init, LInv, Shape, SaveType, TextType, Refers, SavesVerified,
   FilesAuthentic, Torn, Idle, Saving, NoText, NoLicense

LEMMA NextLInv == LInv /\ [Next]_vars => LInv'
<1> SUFFICES ASSUME LInv, [Next]_vars PROVE LInv'
  OBVIOUS
<1> USE LicenseAssumption
<1>1. CASE UNCHANGED vars
  BY <1>1 DEF LInv, Shape, SaveType, TextType, Refers, SavesVerified, FilesAuthentic, vars
<1>2. ASSUME NEW p \in Procs, Opens(p) PROVE LInv'
  <2>1. PICK i \in Inodes :
          /\ tmp' = i
          /\ content' = [content EXCEPT ![i] = Torn]
          /\ save' = [save EXCEPT ![p].pc = "opened", ![p].fd = i]
    BY <1>2 DEF Opens, LInv, Refers, Unused
  <2>2. store' = store /\ earlier' = earlier /\ save[p].pc = "verified"
    BY <1>2 DEF Opens
  <2>3. Torn \in TextType /\ [save[p] EXCEPT !.pc = "opened", !.fd = i] \in SaveType
    BY DEF Torn, TextType, LInv, Shape, SaveType, Saving
  <2>4. Shape'
    BY <2>1, <2>3 DEF LInv, Shape
  <2>5. Refers'
    BY <2>1, <2>2 DEF LInv, Refers, Shape, SaveType, TextType
  <2>6. SavesVerified'
    BY <2>1, <2>2 DEF LInv, SavesVerified, Shape, SaveType, TextType, Saving
  <2>7. FilesAuthentic'
    BY <2>1 DEF LInv, FilesAuthentic, Shape, SaveType, TextType
  <2> QED
    BY <2>4, <2>5, <2>6, <2>7 DEF LInv
<1>3. ASSUME NEW p \in Procs, Writes(p) PROVE LInv'
  <2> DEFINE framed == [save[p].text EXCEPT !.frames = @ + 1]
  <2>1. /\ save[p].pc = "opened" /\ save[p].fd \in Inodes
        /\ content' = [content EXCEPT ![save[p].fd] = framed]
        /\ save' = [save EXCEPT ![p].pc = "written"]
        /\ store' = store /\ earlier' = earlier /\ tmp' = tmp
    BY <1>3 DEF Writes, LInv, Refers
  <2>2. /\ framed \in TextType
        /\ Authentic(framed)
    <3>1. Authentic(save[p].text)
      BY <2>1, ValidIsAuthentic DEF LInv, SavesVerified, Saving
    <3> QED
      BY <2>1, <3>1 DEF LInv, Shape, SaveType, TextType, Authentic
  <2> HIDE DEF framed
  <2>3. Shape'
    BY <2>1, <2>2 DEF LInv, Shape, SaveType, TextType, Saving
  <2>4. Refers'
    BY <2>1 DEF LInv, Refers, Shape, SaveType, TextType
  <2>5. SavesVerified'
    BY <2>1 DEF LInv, SavesVerified, Shape, SaveType, TextType, Saving
  <2>6. FilesAuthentic'
    BY <2>1, <2>2 DEF LInv, FilesAuthentic, Shape, SaveType, TextType
  <2> QED
    BY <2>3, <2>4, <2>5, <2>6 DEF LInv
<1>4. ASSUME NEW p \in Procs, Syncs(p) PROVE LInv'
  BY <1>4 DEF Syncs, LInv, Shape, SaveType, TextType, Refers, SavesVerified, FilesAuthentic, Saving
<1>5. ASSUME NEW p \in Procs, UNCHANGED content, save' = [save EXCEPT ![p] = Idle], Refers'
      PROVE  LInv'
  BY <1>5 DEF LInv, Shape, SaveType, TextType, SavesVerified, FilesAuthentic, Idle, NoText, Saving
<1>6. ASSUME NEW p \in Procs, Renames(p) \/ SaveFails(p) PROVE LInv'
  <2>1. UNCHANGED content /\ save' = [save EXCEPT ![p] = Idle]
    BY <1>6 DEF Renames, SaveFails, Ends
  <2>2. Refers'
    BY <1>6, <2>1 DEF Renames, SaveFails, LInv, Refers, Shape, SaveType, TextType, Idle
  <2> QED
    BY <1>5, <2>1, <2>2
<1>7. ASSUME NEW p \in Procs, Restarts(p) PROVE LInv'
  <2>1. Refers'
    BY <1>7 DEF Restarts, LInv, Refers, Shape, SaveType, TextType, Idle
  <2> QED
    BY <1>5, <1>7, <2>1 DEF Restarts
<1>8. ASSUME NEW p \in Procs, NEW text \in [token : Licenses, frames : Nat],
             Verdict(text) = "valid", Begins(p, text),
             UNCHANGED <<content, store, tmp, earlier>>
      PROVE  LInv'
  <2>1. Verdict(text) = "valid"
    BY <1>8
  <2>2. save' = [save EXCEPT ![p].pc = "verified", ![p].text = text]
    BY <1>8 DEF Begins
  <2>3. Shape'
    <3>1. [save[p] EXCEPT !.pc = "verified", !.text = text] \in SaveType
      BY DEF LInv, Shape, SaveType, TextType, Saving
    <3> QED
      BY <1>8, <2>2, <3>1 DEF LInv, Shape
  <2>4. Refers'
    BY <1>8, <2>2 DEF LInv, Refers, Shape, SaveType, TextType
  <2>5. SavesVerified'
    BY <2>1, <2>2 DEF LInv, SavesVerified, Shape, SaveType, TextType
  <2> QED
    BY <1>8, <2>3, <2>4, <2>5 DEF LInv, FilesAuthentic
<1>9. ASSUME NEW t \in Licenses, NEW n \in Forms,
             LET text == [token |-> t, frames |-> n] IN CliActivates(text) \/ AppActivates(text)
      PROVE  LInv'
  <2> DEFINE text == [token |-> t, frames |-> n]
  <2>1. text \in [token : Licenses, frames : Nat]
    BY DEF Forms
  <2>2. UNCHANGED <<content, store, tmp, earlier>>
    BY <1>9 DEF CliActivates, AppActivates
  <2>3. CASE UNCHANGED save
    BY <2>2, <2>3 DEF LInv, Shape, SaveType, TextType, Refers, SavesVerified, FilesAuthentic
  <2>4. CASE ~UNCHANGED save
    <3>1. \E p \in Procs : Verdict(text) = "valid" /\ Begins(p, text)
      BY <1>9, <2>4 DEF CliActivates, AppActivates, Verdicts, Procs, Verdict
    <3> QED
      BY <1>8, <2>1, <2>2, <3>1
  <2> QED
    BY <2>3, <2>4
<1>10. ASSUME AppReads \/ \E r \in pending : AppApplies(r) PROVE LInv'
  BY <1>10 DEF AppReads, AppApplies, LInv, Shape, SaveType, TextType, Refers, SavesVerified, FilesAuthentic
<1>11. ASSUME PowerLoss PROVE LInv'
  <2>1. PICK T \in SUBSET (Inodes \ synced) :
          content' = [i \in Inodes |-> IF i \in T THEN Torn ELSE content[i]]
    BY <1>11 DEF PowerLoss
  <2>2. save' = [p \in Procs |-> Idle]
    BY <1>11 DEF PowerLoss
  <2>3. Shape'
    BY <2>1, <2>2 DEF LInv, Shape, SaveType, TextType, Idle, NoText, Torn
  <2>4. Refers'
    BY <1>11, <2>2 DEF PowerLoss, LInv, Refers, Idle
  <2>5. SavesVerified'
    BY <2>2 DEF SavesVerified, Idle, Saving
  <2>6. FilesAuthentic'
    BY <2>1 DEF LInv, FilesAuthentic
  <2> QED
    BY <2>3, <2>4, <2>5, <2>6 DEF LInv
<1> QED
  BY <1>1, <1>2, <1>3, <1>4, <1>6, <1>7, <1>9, <1>10, <1>11 DEF Next, Saves

\* Nothing that did not verify on this Mac for this version is ever installed
\* as license.flw, not even by two programs that save into one temporary file
\* at once, with kills and power losses anywhere (FileLicenseStore::save and
\* its callers).
THEOREM OnlyAuthentic == Spec => []InstalledIsAuthentic
<1>1. LInv => InstalledIsAuthentic
  BY DEF LInv, Refers, FilesAuthentic, Authentic, InstalledIsAuthentic
<1> QED
  BY InitLInv, NextLInv, <1>1, PTL DEF Spec

(***************************************************************************)
(* One save at a time                                                      *)
(***************************************************************************)
Working == {"opened", "written", "synced"}

\* One save at most has the temporary file, and nobody else does.
SoleSaver ==
  /\ \A p, q \in Procs : save[p].pc \in Working /\ save[q].pc \in Working => p = q
  /\ \A p \in Procs : save[p].pc \in Working => tmp = save[p].fd
  /\ tmp # NoFile => tmp \notin {store} \cup earlier

\* What wrap_pem makes of a text.
Framed(text) == [text EXCEPT !.frames = @ + 1]

\* The temporary file is as far as its save.
TmpWritten ==
  \A p \in Procs :
    /\ save[p].pc \in {"written", "synced"} => content[tmp] = Framed(save[p].text)
    /\ save[p].pc = "synced" => tmp \in synced

\* What has the name, or may get it back, is complete and on the medium.
StoreComplete == \A i \in ({store} \cup earlier) \ {NoFile} : i \in synced /\ content[i] # Torn

\* What was reported is what the name refers to.
ReportKept ==
  reported # NoText =>
    /\ store # NoFile /\ content[store] = Framed(reported)
    /\ reported \in TextType /\ Verdict(reported) = "valid"

Alone == SoleSaver /\ TmpWritten /\ StoreComplete /\ ReportKept

LEMMA InitAlone == Init => Alone
BY DEF Init, Alone, SoleSaver, TmpWritten, StoreComplete, ReportKept, Idle, Working

\* A text that verified is not an empty file once it is framed.
LEMMA FramedNotTorn ==
  ASSUME NEW text \in TextType, Verdict(text) = "valid"
  PROVE  Framed(text) # Torn
<1>1. text.token.signed
  BY ValidIsAuthentic DEF Authentic
<1> QED
  BY <1>1 DEF Framed, Torn, NoLicense, TextType

LEMMA NextAlone ==
  LInv /\ (~overlapped => Alone) /\ [Next]_vars => (~overlapped' => Alone')
<1> SUFFICES ASSUME LInv, ~overlapped => Alone, [Next]_vars, ~overlapped' PROVE Alone'
  OBVIOUS
<1> USE LicenseAssumption
<1>1. CASE UNCHANGED vars
  BY <1>1 DEF Alone, SoleSaver, TmpWritten, StoreComplete, ReportKept, vars
<1>2. ASSUME NEW p \in Procs, Opens(p) PROVE Alone'
  <2>1. PICK i \in Inodes :
          /\ tmp' = i /\ i \notin {store} \cup earlier
          /\ content' = [content EXCEPT ![i] = Torn]
          /\ synced' = synced \ {i}
          /\ save' = [save EXCEPT ![p].pc = "opened", ![p].fd = i]
    BY <1>2 DEF Opens, LInv, Refers, Unused, Alone, SoleSaver
  <2>2. /\ store' = store /\ earlier' = earlier /\ reported' = reported
        /\ Alone /\ \A q \in Procs \ {p} : save[q].pc \notin Working
    BY <1>2 DEF Opens, Overlaps, Working, Saving
  <2>3. save'[p].pc = "opened" /\ save'[p].fd = i
    BY <2>1 DEF LInv, Shape, SaveType
  <2>4. \A q \in Procs \ {p} : save'[q] = save[q]
    BY <2>1 DEF LInv, Shape
  <2>5. SoleSaver'
    BY <2>1, <2>2, <2>3, <2>4 DEF SoleSaver
  <2>6. TmpWritten'
    BY <2>2, <2>3, <2>4 DEF TmpWritten, Working
  <2>7. \A j \in {store} \cup earlier : content'[j] = content[j]
    BY <2>1 DEF LInv, Shape
  <2>8. StoreComplete' /\ ReportKept'
    BY <2>1, <2>2, <2>7 DEF Alone, StoreComplete, ReportKept
  <2> QED
    BY <2>5, <2>6, <2>8 DEF Alone
<1>3. ASSUME NEW p \in Procs, Writes(p) PROVE Alone'
  <2>1. /\ save[p].pc = "opened" /\ save[p].fd = tmp /\ tmp \in Inodes
        /\ content' = [content EXCEPT ![tmp] = Framed(save[p].text)]
        /\ synced' = synced \ {tmp}
        /\ save' = [save EXCEPT ![p].pc = "written"]
        /\ UNCHANGED <<store, tmp, earlier, reported>> /\ Alone
    BY <1>3 DEF Writes, LInv, Refers, Alone, SoleSaver, Working, Framed
  <2>2. save'[p] = [save[p] EXCEPT !.pc = "written"] /\ \A q \in Procs \ {p} : save'[q] = save[q]
    BY <2>1 DEF LInv, Shape
  <2>3. /\ save'[p].pc = "written" /\ save'[p].fd = save[p].fd /\ save'[p].text = save[p].text
        /\ content'[tmp] = Framed(save[p].text)
    BY <2>1, <2>2 DEF LInv, Shape, SaveType
  <2>4. tmp \notin {store} \cup earlier
    BY <2>1 DEF Alone, SoleSaver
  <2>5. \A j \in {store} \cup earlier : content'[j] = content[j]
    BY <2>1, <2>4 DEF LInv, Shape
  <2>6. SoleSaver'
    BY <2>1, <2>2, <2>3 DEF Alone, SoleSaver, Working
  <2>7. TmpWritten'
    BY <2>1, <2>2, <2>3 DEF Alone, SoleSaver, TmpWritten, Working
  <2>8. StoreComplete' /\ ReportKept'
    BY <2>1, <2>4, <2>5 DEF Alone, StoreComplete, ReportKept
  <2> QED
    BY <2>6, <2>7, <2>8 DEF Alone
<1>4. ASSUME NEW p \in Procs, Syncs(p) PROVE Alone'
  <2>1. /\ save[p].pc = "written" /\ save[p].fd = tmp
        /\ synced' = synced \cup {tmp}
        /\ save' = [save EXCEPT ![p].pc = "synced"]
        /\ UNCHANGED <<content, store, tmp, earlier, reported>> /\ Alone
    BY <1>4 DEF Syncs, Alone, SoleSaver, Working
  <2>2. /\ save'[p].pc = "synced" /\ save'[p].fd = save[p].fd /\ save'[p].text = save[p].text
        /\ \A q \in Procs \ {p} : save'[q] = save[q]
    BY <2>1 DEF LInv, Shape, SaveType
  <2>3. SoleSaver' /\ TmpWritten'
    BY <2>1, <2>2 DEF Alone, SoleSaver, TmpWritten, Working
  <2>4. StoreComplete' /\ ReportKept'
    BY <2>1 DEF Alone, StoreComplete, ReportKept
  <2> QED
    BY <2>3, <2>4 DEF Alone
<1>5. ASSUME NEW p \in Procs, save' = [save EXCEPT ![p] = Idle],
             UNCHANGED <<content, synced, store, tmp, earlier, overlapped>>
      PROVE  SoleSaver' /\ TmpWritten' /\ StoreComplete'
  <2>1. Alone /\ save'[p].pc = "idle" /\ \A q \in Procs \ {p} : save'[q] = save[q]
    BY <1>5 DEF LInv, Shape, Idle
  <2> QED
    BY <1>5, <2>1 DEF Alone, SoleSaver, TmpWritten, StoreComplete, Working
<1>6. ASSUME NEW p \in Procs, Renames(p) PROVE Alone'
  <2>1. /\ save[p].pc = "synced" /\ tmp # NoFile
        /\ store' = tmp /\ tmp' = NoFile /\ earlier' = earlier \cup {store}
        /\ save' = [save EXCEPT ![p] = Idle]
        /\ reported' = IF p = "cli" THEN save[p].text ELSE NoText
        /\ UNCHANGED <<content, synced>> /\ Alone
    BY <1>6 DEF Renames, Ends
  <2>2. tmp \in synced /\ content[tmp] = Framed(save[p].text)
    BY <2>1 DEF Alone, TmpWritten
  <2>3. save[p].text \in TextType /\ Verdict(save[p].text) = "valid"
    BY <2>1 DEF LInv, Shape, SaveType, SavesVerified, Saving
  <2>4. content[tmp] # Torn
    BY <2>2, <2>3, FramedNotTorn
  <2>5. save'[p].pc = "idle" /\ \A q \in Procs \ {p} : save'[q] = save[q]
    BY <2>1 DEF LInv, Shape, Idle
  <2>6. \A q \in Procs : save'[q].pc \notin Working
    BY <2>1, <2>5 DEF Alone, SoleSaver, Working
  <2>7. SoleSaver' /\ TmpWritten'
    BY <2>1, <2>6 DEF SoleSaver, TmpWritten, Working
  <2>8. StoreComplete'
    BY <2>1, <2>2, <2>4 DEF Alone, StoreComplete
  <2>9. ReportKept'
    BY <2>1, <2>2, <2>3 DEF ReportKept
  <2> QED
    BY <2>7, <2>8, <2>9 DEF Alone
<1>7. ASSUME NEW p \in Procs, SaveFails(p) \/ Restarts(p) PROVE Alone'
  <2>1. /\ save' = [save EXCEPT ![p] = Idle] /\ reported' = reported
        /\ UNCHANGED <<content, synced, store, tmp, earlier, overlapped>>
    BY <1>7 DEF SaveFails, Restarts, Ends
  <2>2. ReportKept'
    BY <2>1 DEF Alone, ReportKept
  <2> QED
    BY <1>5, <2>1, <2>2 DEF Alone
<1>8. ASSUME NEW p \in Procs, NEW text, Begins(p, text), save[p].pc = "idle",
             UNCHANGED <<content, synced, store, tmp, earlier, overlapped, reported>>
      PROVE  Alone'
  <2>1. save' = [save EXCEPT ![p].pc = "verified", ![p].text = text] /\ Alone
    BY <1>8 DEF Begins
  <2>2. save'[p].pc = "verified" /\ \A q \in Procs \ {p} : save'[q] = save[q]
    BY <2>1 DEF LInv, Shape, SaveType
  <2>3. SoleSaver' /\ TmpWritten'
    BY <1>8, <2>1, <2>2 DEF Alone, SoleSaver, TmpWritten, Working
  <2>4. StoreComplete' /\ ReportKept'
    BY <1>8, <2>1 DEF Alone, StoreComplete, ReportKept
  <2> QED
    BY <2>3, <2>4 DEF Alone
<1>9. ASSUME UNCHANGED <<content, synced, store, tmp, earlier, overlapped, reported, save>>
      PROVE  Alone'
  BY <1>9 DEF Alone, SoleSaver, TmpWritten, StoreComplete, ReportKept
<1>10. ASSUME NEW text, CliActivates(text) \/ AppActivates(text) PROVE Alone'
  <2>1. UNCHANGED <<content, synced, store, tmp, earlier, overlapped, reported>>
    BY <1>10 DEF CliActivates, AppActivates
  <2>2. UNCHANGED save \/ \E p \in Procs : save[p].pc = "idle" /\ Begins(p, text)
    BY <1>10 DEF CliActivates, AppActivates, Procs
  <2> QED
    BY <1>8, <1>9, <2>1, <2>2
<1>11. ASSUME AppReads \/ \E r \in pending : AppApplies(r) PROVE Alone'
  BY <1>9, <1>11 DEF AppReads, AppApplies
<1>12. ASSUME PowerLoss PROVE Alone'
  <2>1. PICK T \in SUBSET (Inodes \ synced) :
          content' = [i \in Inodes |-> IF i \in T THEN Torn ELSE content[i]]
    BY <1>12 DEF PowerLoss
  <2>2. /\ save' = [p \in Procs |-> Idle] /\ synced' = Inodes
        /\ store' \in earlier \cup {store} /\ earlier' = {} /\ tmp' # store'
        /\ reported' = IF store' = store THEN reported ELSE NoText
        /\ Alone
    BY <1>12 DEF PowerLoss
  <2>3. SoleSaver' /\ TmpWritten'
    BY <2>2 DEF SoleSaver, TmpWritten, Idle, Working
  <2>4. store' # NoFile => store' \in Inodes /\ content'[store'] = content[store'] /\ content[store'] # Torn
    BY <2>1, <2>2 DEF Alone, StoreComplete, LInv, Refers
  <2>5. StoreComplete'
    BY <2>2, <2>4 DEF StoreComplete
  <2>6. ReportKept'
    BY <2>2, <2>4 DEF Alone, ReportKept
  <2> QED
    BY <2>3, <2>5, <2>6 DEF Alone
<1> QED
  BY <1>1, <1>2, <1>3, <1>4, <1>6, <1>7, <1>10, <1>11, <1>12 DEF Next, Saves

LEMMA AloneAlways == Spec => [](~overlapped => Alone)
<1>1. Init => (~overlapped => Alone)
  BY InitAlone
<1> QED
  BY InitLInv, NextLInv, NextAlone, <1>1, PTL DEF Spec

\* FileLicenseStore::save is atomic as long as no two programs save at once: a
\* reader of license.flw never meets an empty or incomplete file, after any
\* I/O error, kill or power loss, nor does anyone after a later power loss.
THEOREM NeverTorn == Spec => []StoreNeverTorn
<1>1. (~overlapped => Alone) => StoreNeverTorn
  BY DEF Alone, StoreComplete, StoreNeverTorn
<1> QED
  BY AloneAlways, <1>1, PTL

\* A raw key that cmd_activate reported as installed is in the store, framed
\* once, and verifies when farewell_license_status reads it again.
THEOREM RawSticks == Spec => []RawActivationSticks
<1>1. ASSUME ~overlapped => Alone, ~overlapped, reported # NoText, reported.frames = 0
      PROVE  Verdict(Loaded) = "valid" /\ Loaded.token = reported.token
  <2>1. /\ Loaded = Framed(reported) /\ reported \in TextType
        /\ Verdict(reported) = "valid"
    BY <1>1 DEF Alone, ReportKept, Loaded
  <2>2. Loaded.token = reported.token /\ Loaded.frames = 1
    BY <1>1, <2>1 DEF Framed, TextType
  <2>3. Parses(Loaded)
    BY <2>1, <2>2, FramedNotTorn DEF Parses
  <2> QED
    BY <2>1, <2>2, <2>3 DEF Verdict
<1>2. (~overlapped => Alone) => RawActivationSticks
  BY <1>1 DEF RawActivationSticks
<1> QED
  BY AloneAlways, <1>2, PTL
=============================================================================
