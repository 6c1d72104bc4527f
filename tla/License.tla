------------------------------- MODULE License ---------------------------------
(***************************************************************************)
(* The license of this Mac: what verify_for_this_mac accepts, how the      *)
(* store replaces license.flw (temporary file, sync, rename), and the two  *)
(* programs that activate, the application and the command-line tool,      *)
(* which share the name of the temporary file.                             *)
(*                                                                         *)
(* A token is what its signature check and its payload say; a file is the  *)
(* token in it and the number of PEM frames around that.                   *)
(***************************************************************************)
EXTENDS Naturals, FiniteSets

CONSTANTS
  Licenses,    \* tokens: records [signed, major, bound]
  Here,        \* the serial number of this Mac
  Current,     \* MAJOR_VERSION_CURRENT
  Inodes,      \* bound: files on disk, with those only a descriptor still holds
  NoFile,      \* no file has the name
  MaxSaves,    \* bound: saves begun
  MaxPending   \* bound: refreshes on their way to the main queue

ASSUME LicenseAssumption ==
  /\ Licenses \subseteq [signed : BOOLEAN, major : Nat, bound : SUBSET STRING]
  /\ Here \in STRING /\ Current \in Nat
  /\ NoFile \notin Inodes /\ MaxSaves \in Nat /\ MaxPending \in Nat

Procs == {"app", "cli"}

NoLicense == [signed |-> FALSE, major |-> 0, bound |-> {}]
Torn == [token |-> NoLicense, frames |-> 3]    \* an empty or incomplete file
NoText == [token |-> NoLicense, frames |-> 4]  \* no text at all

\* A raw key (or dotted token) has no frame; the text of a .flw file has one.
Forms == {0, 1}
Texts == [token : Licenses, frames : 0..2]

VARIABLES
  content,    \* content[i]: what file i holds
  synced,     \* the files whose content has reached the medium
  store,      \* the file named license.flw
  tmp,        \* the file named license.flw.tmp
  earlier,    \* what a power loss may turn the name license.flw back to
  save,       \* save[p]: the activation p is in
  pending,    \* verdicts on their way to the main queue, in any order
  shown,      \* LicenseModel.verdict
  begun,      \* number of saves begun
  \* history
  overlapped, \* two saves have been under way together
  reported    \* the last text reported as installed, while nothing has happened to it

vars == <<content, synced, store, tmp, earlier, save, pending, shown, begun, overlapped,
          reported>>

Idle == [pc |-> "idle", text |-> NoText, fd |-> NoFile]

Saving == {"verified", "opened", "written", "synced"}

Init ==
  /\ content = [i \in Inodes |-> Torn]
  /\ synced = {}
  /\ store = NoFile /\ tmp = NoFile /\ earlier = {}
  /\ save = [p \in Procs |-> Idle]
  /\ pending = {}
  /\ shown = "none"
  /\ begun = 0
  /\ overlapped = FALSE
  /\ reported = NoText

(***************************************************************************)
(* Verification                                                            *)
(***************************************************************************)
\* A mutant: the framing is not stripped.
ParsesRaw(text) == text # Torn /\ text.frames = 0

\* parse_token: strip_pem_framing takes what is between the first BEGIN and the
\* first END.  Inside two frames that is not a token: the inner BEGIN is in it.
Parses(text) == text # Torn /\ text.frames <= 1

\* A mutant: any Mac will do, if the license is bound at all.
VerdictAnyMac(text) ==
  CASE ~Parses(text)                    -> "malformed"
    [] ~text.token.signed               -> "bad_signature"
    [] text.token.major # Current       -> "wrong_version"
    [] text.token.bound = {}            -> "malformed"
    [] OTHER                            -> "valid"

\* verify_for_this_mac and license_verdict: the checks in their order.
Verdict(text) ==
  CASE ~Parses(text)                    -> "malformed"
    [] ~text.token.signed               -> "bad_signature"
    [] text.token.major # Current       -> "wrong_version"
    [] text.token.bound = {}            -> "malformed"
    [] Here \notin text.token.bound     -> "serial_mismatch"
    [] OTHER                            -> "valid"

\* read_serial may fail, and is only asked once the rest has passed.
Verdicts(text) ==
  {Verdict(text)} \cup (IF Verdict(text) \in {"valid", "serial_mismatch"} THEN {"error"} ELSE {})

(***************************************************************************)
(* The store: FileLicenseStore                                             *)
(***************************************************************************)
Unused == Inodes \ ({store, tmp} \cup earlier \cup {save[p].fd : p \in Procs})

\* What reading license.flw at this moment gives.
Loaded == IF store = NoFile THEN Torn ELSE content[store]

Overlaps(p) == \E q \in Procs \ {p} : save[q].pc \in Saving \ {"verified"}

\* open_owner_rw: the temporary file is created, or emptied if it is there.
Opens(p) ==
  /\ save[p].pc = "verified"
  /\ \E i \in IF tmp # NoFile THEN {tmp} ELSE Unused :
       /\ tmp' = i
       /\ content' = [content EXCEPT ![i] = Torn]
       /\ synced' = synced \ {i}
       /\ save' = [save EXCEPT ![p].pc = "opened", ![p].fd = i]
  /\ overlapped' = (overlapped \/ Overlaps(p))
  /\ UNCHANGED <<begun, store, earlier, pending, shown, reported>>

\* write_all of wrap_pem(token): one more frame around whatever it is given.
Writes(p) ==
  /\ save[p].pc = "opened"
  /\ content' = [content EXCEPT ![save[p].fd] = [save[p].text EXCEPT !.frames = @ + 1]]
  /\ synced' = synced \ {save[p].fd}
  /\ save' = [save EXCEPT ![p].pc = "written"]
  /\ UNCHANGED <<begun, store, tmp, earlier, pending, shown, overlapped, reported>>

\* A mutant: the file is not synced before it is renamed.
SkipsSync(p) ==
  /\ save[p].pc = "written"
  /\ save' = [save EXCEPT ![p].pc = "synced"]
  /\ UNCHANGED <<begun, content, synced, store, tmp, earlier, pending, shown, overlapped, reported>>

Syncs(p) ==
  /\ save[p].pc = "written"
  /\ synced' = synced \cup {save[p].fd}
  /\ save' = [save EXCEPT ![p].pc = "synced"]
  /\ UNCHANGED <<begun, content, store, tmp, earlier, pending, shown, overlapped, reported>>

\* The application posts its verdict, the tool prints "accepted and installed".
Ends(p, installed) ==
  /\ save' = [save EXCEPT ![p] = Idle]
  /\ IF p = "app" THEN pending' = pending \cup {[by |-> "activate", verdict |-> "valid"]}
                  ELSE UNCHANGED pending
  /\ reported' = IF ~installed THEN reported ELSE IF p = "cli" THEN save[p].text ELSE NoText

\* The file under the temporary name, which need not be p's own any more, takes
\* the place of the license.  The directory is not synced.
Renames(p) ==
  /\ save[p].pc = "synced"
  /\ tmp # NoFile
  /\ store' = tmp /\ tmp' = NoFile
  /\ earlier' = earlier \cup {store}
  /\ Ends(p, TRUE)
  /\ UNCHANGED <<begun, content, synced, shown, overlapped>>

\* Any step fails: the rename also because the other program has done it.  The
\* tool says so; the application has verified the key, and ignores it.
SaveFails(p) ==
  /\ save[p].pc \in Saving
  /\ Ends(p, FALSE)
  /\ UNCHANGED <<begun, content, synced, store, tmp, earlier, shown, overlapped>>

Saves(p) == Opens(p) \/ Writes(p) \/ Syncs(p) \/ Renames(p) \/ SaveFails(p)

(***************************************************************************)
(* The two programs                                                        *)
(***************************************************************************)
Begins(p, text) ==
  /\ begun < MaxSaves
  /\ begun' = begun + 1
  /\ save' = [save EXCEPT ![p].pc = "verified", ![p].text = text]

\* cmd_activate: nothing happens to the store unless the text verifies.
CliActivates(text) ==
  /\ save["cli"].pc = "idle"
  /\ Verdict(text) = "valid"
  /\ Begins("cli", text)
  /\ UNCHANGED <<content, synced, store, tmp, earlier, pending, shown, overlapped, reported>>

\* LicenseModel.activate and farewell_license_activate.  The button is off while
\* a license is shown, and from the press until its result has been applied.
AppActivates(text) ==
  /\ save["app"].pc = "idle"
  /\ shown # "valid"
  /\ \A r \in pending : r.by # "activate"
  /\ \E v \in Verdicts(text) :
       IF v = "valid"
         THEN Begins("app", text) /\ UNCHANGED pending
         ELSE pending' = pending \cup {[by |-> "activate", verdict |-> v]} /\ UNCHANGED <<save, begun>>
  /\ UNCHANGED <<content, synced, store, tmp, earlier, shown, overlapped, reported>>

\* LicenseModel.refresh and farewell_license_status.
AppReads ==
  /\ Cardinality({r \in pending : r.by = "refresh"}) < MaxPending
  /\ \E v \in IF store = NoFile THEN {"none"} ELSE Verdicts(Loaded) :
       pending' = pending \cup {[by |-> "refresh", verdict |-> v]}
  /\ UNCHANGED <<begun, content, synced, store, tmp, earlier, save, shown, overlapped, reported>>

\* LicenseModel.apply, on the main queue.
AppApplies(r) ==
  /\ r \in pending
  /\ pending' = pending \ {r}
  /\ shown' = r.verdict
  /\ UNCHANGED <<begun, content, synced, store, tmp, earlier, save, overlapped, reported>>

(***************************************************************************)
(* Crashes                                                                 *)
(***************************************************************************)
Restarts(p) ==
  /\ save' = [save EXCEPT ![p] = Idle]
  /\ IF p = "app" THEN pending' = {} /\ shown' = "none" ELSE UNCHANGED <<pending, shown>>
  /\ UNCHANGED <<begun, content, synced, store, tmp, earlier, overlapped, reported>>

\* Unsynced content is lost, and so may be the renames since an earlier moment.
PowerLoss ==
  /\ store' \in earlier \cup {store}
  /\ earlier' = {}
  /\ tmp' \in {tmp, NoFile} \ {store'}
  /\ \E T \in SUBSET (Inodes \ synced) :
       content' = [i \in Inodes |-> IF i \in T THEN Torn ELSE content[i]]
  /\ synced' = Inodes
  /\ save' = [p \in Procs |-> Idle]
  /\ pending' = {} /\ shown' = "none"
  /\ reported' = IF store' = store THEN reported ELSE NoText
  /\ UNCHANGED <<begun, overlapped>>

Next ==
  \/ \E p \in Procs : Saves(p) \/ Restarts(p)
  \/ \E t \in Licenses, n \in Forms :
       LET text == [token |-> t, frames |-> n] IN CliActivates(text) \/ AppActivates(text)
  \/ AppReads
  \/ \E r \in pending : AppApplies(r)
  \/ PowerLoss

Spec == Init /\ [][Next]_vars

(***************************************************************************)
(* Properties                                                              *)
(***************************************************************************)
VerdictType == {"valid", "none", "bad_signature", "wrong_version", "serial_mismatch",
                "malformed", "error"}

\* Types of the variables; the two names are never the same file.
TypeOK ==
  /\ \A i \in Inodes : content[i] \in Texts \/ content[i] = Torn
  /\ synced \subseteq Inodes
  /\ {store, tmp} \cup earlier \subseteq {NoFile} \cup Inodes
  /\ tmp # NoFile => tmp # store
  /\ \A p \in Procs :
       /\ save[p].pc \in {"idle"} \cup Saving
       /\ save[p].text = NoText \/ save[p].text \in Texts
       /\ save[p].fd \in {NoFile} \cup Inodes
  /\ pending \subseteq [by : {"activate", "refresh"}, verdict : VerdictType]
  /\ shown \in VerdictType
  /\ begun \in 0..MaxSaves
  /\ overlapped \in BOOLEAN
  /\ reported = NoText \/ reported \in Texts

\* FileLicenseStore::save is atomic: unless two programs have saved at the same
\* time, license.flw is never an empty or incomplete file, whenever the saver
\* is killed, an I/O call fails or the power goes, nor is any state of the
\* directory a later power loss can bring back.
StoreNeverTorn ==
  ~overlapped => \A i \in ({store} \cup earlier) \ {NoFile} : content[i] # Torn

\* Whatever license.flw holds, even with two programs saving into the same
\* temporary file, was signed for this version and this Mac: no interleaving
\* installs a token that did not verify here.
InstalledIsAuthentic ==
  store # NoFile /\ content[store] # Torn =>
    LET t == content[store].token IN t.signed /\ t.major = Current /\ Here \in t.bound

\* A raw key that cmd_activate reported as installed is in the store and
\* verifies when it is read again, until another save or a power loss replaces it.
RawActivationSticks ==
  ~overlapped /\ reported # NoText /\ reported.frames = 0 =>
    Verdict(Loaded) = "valid" /\ Loaded.token = reported.token

\* The same of everything cmd_activate accepts, the text of a .flw file too.
ActivationSticks ==
  ~overlapped /\ reported # NoText => Verdict(Loaded) = "valid" /\ Loaded.token = reported.token
=============================================================================
