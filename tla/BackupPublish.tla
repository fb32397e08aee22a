--------------------------- MODULE BackupPublish ---------------------------
(***************************************************************************)
(* Crash-recoverable, compare-and-swap publication of a backup image:      *)
(* lr-core/src/backup_atomic_publish.rs, driven by capture_and_publish of  *)
(* the WinPE backup workflow (PE/src/workflows/backup.rs).                 *)
(*                                                                         *)
(* Durable state: three names (the public target, and previous.image and   *)
(* staged.<ext> in the private session directory), the PREPARED journal    *)
(* and the session directory, whose NAME is the committed receipt.  A file *)
(* is its identity as the code compares it: file id and bytes.  Every      *)
(* durable change is a step of its own, so a crash can fall between any    *)
(* two of them; `faults' is the budget of crashes and I/O errors.          *)
(***************************************************************************)
EXTENDS Naturals, FiniteSets

CONSTANTS
    FileIds,     \* ids of file objects on the target volume
    BaseId,      \* the image the existing-file policies start from
    NoId,        \* id of "no file"
    MaxFaults,   \* bound: crashes and I/O errors in one behaviour
    MaxForeign   \* bound: files another program creates under the public name

ASSUME IdsAssumption == BaseId \in FileIds /\ NoId \notin FileIds
ASSUME BoundsAssumption == MaxFaults \in Nat /\ MaxForeign \in Nat

Modes == {"Create", "Replace", "Append"}
Names == {"target", "previous", "staged"}

\* Bytes of a file: the base image, a complete image holding exactly one new
\* capture, an image that had the capture added twice, an unfinished image,
\* or what another program wrote.
Bytes == {"base", "image", "stacked", "partial", "foreign"}
Files == [id : FileIds, bytes : Bytes]
NoFile == [id |-> NoId, bytes |-> "none"]
BaseFile == [id |-> BaseId, bytes |-> "base"]
\* The user may delete or replace the image between handoff and WinPE.
ReplacedFile == [id |-> BaseId, bytes |-> "foreign"]

VARIABLES
    mode,      \* output policy of the authenticated handoff
    slot,      \* what each of the three names refers to
    journal,   \* publish.journal: absent, torn, or PREPARED with old and new
    dir,       \* session directory: absent, BackupPublish-*, BackupCommitted-*
    handoff,   \* the authenticated control files still exist
    pc, after, outcome, answer,                     \* the running workflow
    old, new, oldMoved, newPublished, held, linked, \* locals of publish_impl
    faults, foreigns

durable == <<slot, journal, dir>>
handles == <<old, new, oldMoved, newPublished, held, linked>>
bounds == <<faults, foreigns>>
vars == <<mode, durable, handoff, pc, after, outcome, answer, handles, bounds>>

Existing == mode \in {"Replace", "Append"}

RenamePoints == {"moveOld", "publishNew", "undoNew", "undoOld", "rbRestore"}
PublishPoints == {"moveOld", "publishNew", "verifyNew"}
StagingPoints == {"prepare", "copying", "copied", "capture", "capturing", "captured"}
Points == {"idle", "inspect", "recover", "rcPrevious", "rcJournal", "rbPublic",
           "rbStaged", "rbJournal", "remove", "begin", "publish", "journal",
           "undoJournal", "commit", "dropPrevious", "dropJournal", "succeeded"}
          \cup RenamePoints \cup PublishPoints \cup StagingPoints

NoJournal == [state |-> "none", old |-> NoFile, new |-> NoFile]
Journals == [state : {"none", "torn", "prepared"},
             old : Files \cup {NoFile}, new : Files \cup {NoFile}]
NoDir == [state |-> "absent", receipt |-> NoFile]
Dirs == [state : {"absent", "publish", "committed"}, receipt : Files \cup {NoFile}]

TypeOK ==
    /\ mode \in Modes
    /\ slot \in [Names -> Files \cup {NoFile}]
    /\ journal \in Journals
    /\ dir \in Dirs
    /\ handoff \in BOOLEAN
    /\ pc \in Points
    /\ after \in {"none", "retry", "fail"}
    /\ outcome \in {"none", "Committed", "RolledBack"}
    /\ answer \in {"none", "ok", "error"}
    /\ old \in Files \cup {NoFile} /\ new \in Files \cup {NoFile}
    /\ oldMoved \in BOOLEAN /\ newPublished \in BOOLEAN
    /\ held \in BOOLEAN /\ linked \in BOOLEAN
    /\ faults \in 0..MaxFaults /\ foreigns \in 0..MaxForeign

Init ==
    /\ mode \in Modes
    /\ \E t \in IF mode = "Create" THEN {NoFile} ELSE {BaseFile, NoFile, ReplacedFile} :
          slot = [n \in Names |-> IF n = "target" THEN t ELSE NoFile]
    /\ journal = NoJournal /\ dir = NoDir /\ handoff = TRUE
    /\ pc = "idle" /\ after = "none" /\ outcome = "none" /\ answer = "none"
    /\ old = NoFile /\ new = NoFile /\ oldMoved = FALSE /\ newPublished = FALSE
    /\ held = TRUE /\ linked = FALSE
    /\ faults = 0 /\ foreigns = 0

UsedIds == {slot[n].id : n \in Names} \cup {journal.old.id, journal.new.id,
           dir.receipt.id, old.id, new.id, BaseId}
FreshId == CHOOSE i \in FileIds : i \notin UsedIds
\* Bound: a new file object needs an id that no name and no record mentions.
CanCreateFile == \E i \in FileIds : i \notin UsedIds

\* The process gives up its handles: it returned or was killed.
DropHandles ==
    /\ old' = NoFile /\ new' = NoFile /\ oldMoved' = FALSE /\ newPublished' = FALSE
    /\ held' = TRUE /\ linked' = FALSE

Goto(p) == pc' = p
Return(result) ==
    /\ pc' = "idle" /\ answer' = result /\ after' = "none" /\ outcome' = "none"
    /\ DropHandles
\* Fall into `recover' to clean a session that never reached PREPARED.
CleanUp == /\ pc' = "recover" /\ after' = "fail" /\ DropHandles
           /\ UNCHANGED <<outcome, answer>>
\* Mutant: the rollback forgets the previous image.
StartRollback_NewOnly(moved, published) ==
    pc' = IF published THEN "undoNew" ELSE "undoJournal"

StartRollback(moved, published) ==
    pc' = IF published THEN "undoNew" ELSE IF moved THEN "undoOld" ELSE "undoJournal"

Remove(n) == slot' = [slot EXCEPT ![n] = NoFile]
Put(n, f) == slot' = [slot EXCEPT ![n] = f]
Fault == faults < MaxFaults /\ faults' = faults + 1
Drained == journal.state = "none" /\ slot["previous"] = NoFile /\ slot["staged"] = NoFile
-----------------------------------------------------------------------------
(* Start and recovery of an earlier attempt *)

Start ==
    /\ pc = "idle" /\ handoff
    /\ Goto("inspect") /\ answer' = "none"
    /\ UNCHANGED <<mode, durable, handoff, after, outcome, handles, bounds>>

open_if_present ==
    /\ pc = "inspect"
    /\ IF dir.state = "absent" THEN Goto("begin") /\ UNCHANGED after
                               ELSE Goto("recover") /\ after' = "retry"
    /\ UNCHANGED <<mode, durable, handoff, outcome, answer, handles, bounds>>

\* No journal under a receipt: the target must be the received image and the
\* directory empty.
ReceiptAccepted == slot["target"] = dir.receipt /\ Drained

\* No journal and no receipt: previous must be absent; the target must still
\* exist (existing policies) or still be absent (create).
UnpreparedAccepted ==
    /\ slot["previous"] = NoFile
    /\ (slot["target"] # NoFile) = Existing

classify_slot(f) ==
    IF f = NoFile THEN "Missing"
    ELSE IF f = journal.old THEN "Old"
    ELSE IF f = journal.new THEN "New" ELSE "Other"

Seen == <<classify_slot(slot["target"]), classify_slot(slot["previous"]),
          classify_slot(slot["staged"])>>
DuplicateNewLinks == slot["target"] = journal.new /\ slot["staged"] = journal.new

\* Mutant: any verified staged image counts as published.
RecoverDecision_StagedCommits ==
    IF DuplicateNewLinks THEN "RolledBack"
    ELSE IF Seen[1] = "New" \/ Seen = <<"Missing", "Old", "New">> THEN "Committed"
    ELSE "Refused"

\* The file sets recover_impl accepts, and what it makes of them.
RecoverDecision ==
    IF DuplicateNewLinks THEN "RolledBack"
    ELSE IF Seen \in {<<"New", "Old", "Missing">>, <<"New", "Missing", "Missing">>}
         THEN "Committed"
    ELSE IF \/ Existing /\ Seen \in {<<"Old", "Missing", "New">>, <<"Missing", "Old", "New">>}
            \/ ~Existing /\ Seen = <<"Missing", "Missing", "New">>
         THEN "RolledBack"
    ELSE "Refused"

\* recover_create / recover_existing return an error and change nothing.
RecoveryRefused ==
    CASE journal.state = "none" /\ dir.state = "committed" -> ~ReceiptAccepted
      [] journal.state = "none" /\ dir.state # "committed" -> ~UnpreparedAccepted
      [] journal.state = "torn" -> TRUE
      [] OTHER -> RecoverDecision = "Refused"

recover_receipt ==
    /\ pc = "recover" /\ ~RecoveryRefused
    /\ journal.state = "none" /\ dir.state = "committed"
    /\ Goto("remove") /\ outcome' = "Committed"
    /\ UNCHANGED <<mode, durable, handoff, after, answer, handles, bounds>>

rollback_unprepared ==
    /\ pc = "recover" /\ ~RecoveryRefused
    /\ journal.state = "none" /\ dir.state = "publish"
    /\ Remove("staged")
    /\ Goto("remove") /\ outcome' = "RolledBack"
    /\ UNCHANGED <<mode, journal, dir, handoff, after, answer, handles, bounds>>

recover_impl ==
    /\ pc = "recover" /\ ~RecoveryRefused /\ journal.state = "prepared"
    /\ outcome' = RecoverDecision
    /\ Goto(IF RecoverDecision = "Committed" THEN "rcPrevious"
            ELSE IF DuplicateNewLinks THEN "rbPublic"
            ELSE IF slot["target"] = NoFile /\ Seen[2] = "Old" THEN "rbRestore"
            ELSE "rbStaged")
    /\ UNCHANGED <<mode, durable, handoff, after, answer, handles, bounds>>

recover_refuses ==
    /\ pc = "recover" /\ RecoveryRefused
    /\ Return("error")
    /\ UNCHANGED <<mode, durable, handoff, bounds>>

RecoverDeletesPrevious ==
    /\ pc = "rcPrevious"
    /\ Remove("previous") /\ Goto("rcJournal")
    /\ UNCHANGED <<mode, journal, dir, handoff, after, outcome, answer, handles, bounds>>

RecoverUnlinksPublic ==
    /\ pc = "rbPublic"
    /\ Remove("target")
    /\ Goto(IF Seen[2] = "Old" THEN "rbRestore" ELSE "rbStaged")
    /\ UNCHANGED <<mode, journal, dir, handoff, after, outcome, answer, handles, bounds>>

RecoverDeletesStaged ==
    /\ pc = "rbStaged"
    /\ Remove("staged") /\ Goto("rbJournal")
    /\ UNCHANGED <<mode, journal, dir, handoff, after, outcome, answer, handles, bounds>>

RecoverDeletesJournal ==
    /\ pc \in {"rcJournal", "rbJournal"}
    /\ journal' = NoJournal /\ Goto("remove")
    /\ UNCHANGED <<mode, slot, dir, handoff, after, outcome, answer, handles, bounds>>

\* Mutant: every recovery outcome is taken for a finished backup.
remove_empty_AnyOutcome ==
    /\ pc = "remove"
    /\ dir' = IF Drained THEN NoDir ELSE dir
    /\ Goto("succeeded") /\ UNCHANGED <<after, outcome, answer, handles>>
    /\ UNCHANGED <<mode, slot, journal, handoff, bounds>>

\* remove_empty and its caller: after a commit a failure is only logged; after
\* a rollback the workflow retries (startup) or reports its error (clean-up).
remove_empty ==
    /\ pc = "remove"
    /\ dir' = IF Drained THEN NoDir ELSE dir
    /\ CASE outcome = "Committed" ->
              Goto("succeeded") /\ UNCHANGED <<after, outcome, answer, handles>>
         [] outcome # "Committed" /\ Drained /\ after = "retry" ->
              Goto("begin") /\ after' = "none" /\ outcome' = "none"
              /\ UNCHANGED <<answer, handles>>
         [] OTHER -> Return("error")
    /\ UNCHANGED <<mode, slot, journal, handoff, bounds>>
-----------------------------------------------------------------------------
(* Staging a complete image in the private session *)

BeginRefused == mode = "Create" /\ slot["target"] # NoFile

create_refused ==
    /\ pc = "begin" /\ BeginRefused
    /\ Return("error")
    /\ UNCHANGED <<mode, durable, handoff, bounds>>

create ==
    /\ pc = "begin" /\ ~BeginRefused
    /\ dir' = [state |-> "publish", receipt |-> NoFile]
    /\ Goto(IF Existing THEN "prepare" ELSE "capture")
    /\ UNCHANGED <<mode, slot, journal, handoff, after, outcome, answer, handles, bounds>>

\* prepare_existing_copy locks the public image, then creates the copy.
prepare_existing_copy ==
    /\ pc = "prepare" /\ slot["target"] # NoFile /\ CanCreateFile
    /\ old' = slot["target"]
    /\ Put("staged", [id |-> FreshId, bytes |-> "partial"])
    /\ Goto("copying")
    /\ UNCHANGED <<mode, journal, dir, handoff, after, outcome, answer,
                   new, oldMoved, newPublished, held, linked, bounds>>

prepare_refused ==
    /\ pc = "prepare" /\ slot["target"] = NoFile
    /\ CleanUp
    /\ UNCHANGED <<mode, durable, handoff, bounds>>

\* Mutant: the copy reads the private slot instead of the locked image.
CopyCompleted_WrongSource ==
    /\ pc = "copying"
    /\ Put("staged", [slot["staged"] EXCEPT !.bytes = slot["previous"].bytes])
    /\ Goto("copied")
    /\ UNCHANGED <<mode, journal, dir, handoff, after, outcome, answer, handles, bounds>>

CopyCompleted ==
    /\ pc = "copying"
    /\ Put("staged", [slot["staged"] EXCEPT !.bytes = old.bytes])
    /\ Goto("copied")
    /\ UNCHANGED <<mode, journal, dir, handoff, after, outcome, answer, handles, bounds>>

\* Mutant: the authenticated base identity is not compared.
BaseMatches_Unchecked == old # NoFile

\* The locked image must be the base the handoff authenticated.
BaseMatches == old.bytes = "base"

CheckBase ==
    /\ pc = "copied"
    /\ IF BaseMatches
       THEN /\ IF mode = "Replace" THEN Remove("staged") ELSE UNCHANGED slot
            /\ Goto("capture")
            /\ UNCHANGED <<after, outcome, answer, handles>>
       ELSE CleanUp /\ UNCHANGED slot
    /\ UNCHANGED <<mode, journal, dir, handoff, bounds>>

CaptureStarts ==
    /\ pc = "capture" /\ CanCreateFile
    /\ Put("staged", [id |-> IF mode = "Append" THEN slot["staged"].id ELSE FreshId,
                      bytes |-> "partial"])
    /\ Goto("capturing")
    /\ UNCHANGED <<mode, journal, dir, handoff, after, outcome, answer, handles, bounds>>

CapturedBytes == IF mode = "Append" /\ old.bytes # "base" THEN "stacked" ELSE "image"

CaptureCompletes ==
    /\ pc = "capturing"
    /\ Put("staged", [slot["staged"] EXCEPT !.bytes = CapturedBytes])
    /\ Goto("captured")
    /\ UNCHANGED <<mode, journal, dir, handoff, after, outcome, answer, handles, bounds>>

\* Catalog verification and inspect_staged_file fix the bytes to publish.
inspect_staged_file ==
    /\ pc = "captured"
    /\ new' = slot["staged"] /\ Goto("publish")
    /\ UNCHANGED <<mode, durable, handoff, after, outcome, answer,
                   old, oldMoved, newPublished, held, linked, bounds>>
-----------------------------------------------------------------------------
(* publish_impl *)

PublishAccepted ==
    /\ slot["previous"] = NoFile /\ journal.state = "none" /\ slot["staged"] = new
    /\ IF Existing THEN old # NoFile ELSE slot["target"] = NoFile

\* The session stays on disk; no clean-up follows a refused publication.
publish_refused ==
    /\ pc = "publish" /\ ~PublishAccepted
    /\ Return("error")
    /\ UNCHANGED <<mode, durable, handoff, bounds>>

CreateJournal ==
    /\ pc = "publish" /\ PublishAccepted
    /\ journal' = [state |-> "torn", old |-> NoFile, new |-> NoFile]
    /\ Goto("journal")
    /\ UNCHANGED <<mode, slot, dir, handoff, after, outcome, answer, handles, bounds>>

FlushJournal ==
    /\ pc = "journal"
    /\ journal' = [state |-> "prepared", old |-> old, new |-> new]
    /\ Goto(IF Existing THEN "moveOld" ELSE "publishNew")
    /\ UNCHANGED <<mode, slot, dir, handoff, after, outcome, answer, handles, bounds>>

VerifyPublished ==
    /\ pc = "verifyNew"
    /\ Goto("commit")
    /\ UNCHANGED <<mode, durable, handoff, after, outcome, answer, handles, bounds>>

mark_committed ==
    /\ pc = "commit"
    /\ dir' = [state |-> "committed", receipt |-> new]
    /\ Goto(IF Existing THEN "dropPrevious" ELSE "dropJournal")
    /\ UNCHANGED <<mode, slot, journal, handoff, after, outcome, answer, handles, bounds>>

DeletePrevious ==
    /\ pc = "dropPrevious"
    /\ Remove("previous") /\ Goto("dropJournal")
    /\ UNCHANGED <<mode, journal, dir, handoff, after, outcome, answer, handles, bounds>>

DeleteJournal ==
    /\ pc = "dropJournal"
    /\ journal' = NoJournal
    /\ Goto("remove") /\ outcome' = "Committed"
    /\ UNCHANGED <<mode, slot, dir, handoff, after, answer, handles, bounds>>

\* run_backup_workflow: control files are deleted only after Ok.
Finish ==
    /\ pc = "succeeded"
    /\ handoff' = FALSE
    /\ Return("ok")
    /\ UNCHANGED <<mode, durable, bounds>>
-----------------------------------------------------------------------------
(* rename_handle_no_replace, with its MoveFileExW and hard-link fallbacks *)

Source == CASE pc \in {"moveOld", "undoNew"} -> "target"
            [] pc \in {"publishNew"} -> "staged"
            [] OTHER -> "previous"
Destination == CASE pc = "moveOld" -> "previous"
                 [] pc = "undoNew" -> "staged"
                 [] OTHER -> "target"
RenameNext == CASE pc = "moveOld" -> "publishNew"
                [] pc = "publishNew" -> "verifyNew"
                [] pc = "undoNew" -> (IF oldMoved THEN "undoOld" ELSE "undoJournal")
                [] pc = "undoOld" -> "undoJournal"
                [] OTHER -> "rbStaged"

\* rollback_new_publication: a private name still present means the public
\* name is a second hard link, which is removed instead of renamed back.
UndoByUnlink == pc = "undoNew" /\ ~linked /\ slot["staged"] # NoFile
Renaming == pc \in RenamePoints /\ ~UndoByUnlink

DestinationFree == slot[Destination] = NoFile

\* The code's *moved out-parameter: set by the two renames of publish_impl.
MovedFlags(m) ==
    /\ oldMoved' = (oldMoved \/ (pc = "moveOld" /\ m))
    /\ newPublished' = (newPublished \/ (pc = "publishNew" /\ m))

MoveSlot == slot' = [slot EXCEPT ![Destination] = slot[Source], ![Source] = NoFile]

\* FileRenameInfo or MoveFileExW: one atomic namespace change.
RenameMoves ==
    /\ Renaming /\ held /\ ~linked /\ DestinationFree
    /\ MoveSlot /\ MovedFlags(TRUE) /\ Goto(RenameNext)
    /\ UNCHANGED <<mode, journal, dir, handoff, after, outcome, answer,
                   old, new, held, linked, bounds>>

\* CreateHardLinkW: both names exist until the source name is deleted.
HardLinkCreated ==
    /\ Renaming /\ held /\ ~linked /\ DestinationFree
    /\ Put(Destination, slot[Source]) /\ MovedFlags(TRUE)
    /\ linked' = TRUE
    /\ UNCHANGED <<mode, journal, dir, handoff, pc, after, outcome, answer,
                   old, new, held, bounds>>

HardLinkSourceDeleted ==
    /\ Renaming /\ linked
    /\ Remove(Source) /\ Goto(RenameNext) /\ linked' = FALSE
    /\ UNCHANGED <<mode, journal, dir, handoff, after, outcome, answer,
                   old, new, oldMoved, newPublished, held, bounds>>

RenameError(moved, kept) ==
    IF pc \in PublishPoints
    THEN /\ MovedFlags(moved) /\ held' = kept /\ linked' = FALSE
         /\ StartRollback(oldMoved', newPublished')
         /\ UNCHANGED <<after, outcome, answer, old, new>>
    ELSE Return("error")

\* The destination name is taken, or the retained handle was lost earlier:
\* nothing is renamed.
RenameRefused ==
    /\ Renaming /\ ~linked /\ ~(held /\ DestinationFree)
    /\ RenameError(FALSE, held)
    /\ UNCHANGED <<mode, durable, handoff, bounds>>

\* An error before, or after, the namespace change; custody of the handle may
\* be lost either way, and then the change is reported as possible.
RenameFails ==
    /\ Renaming /\ Fault
    /\ \E moved, kept \in BOOLEAN :
          /\ IF ~moved THEN UNCHANGED slot
             ELSE IF linked THEN Remove(Source)
             ELSE held /\ DestinationFree /\ MoveSlot
          /\ RenameError(moved \/ linked \/ ~kept, kept)
    /\ UNCHANGED <<mode, journal, dir, handoff, foreigns>>

UnlinkPublished ==
    /\ UndoByUnlink /\ held
    /\ Remove("target") /\ Goto(RenameNext)
    /\ UNCHANGED <<mode, journal, dir, handoff, after, outcome, answer, handles, bounds>>

UnlinkRefused ==
    /\ UndoByUnlink /\ ~held
    /\ Return("error")
    /\ UNCHANGED <<mode, durable, handoff, bounds>>

\* rollback_live succeeded: the exact PREPARED journal is deleted.
RollbackCompleted ==
    /\ pc = "undoJournal"
    /\ journal' = NoJournal
    /\ Return("error")
    /\ UNCHANGED <<mode, slot, dir, handoff, bounds>>
-----------------------------------------------------------------------------
(* Faults and the environment *)

\* An I/O error that changes nothing on disk.
IoError ==
    /\ pc \notin {"idle", "succeeded"} /\ ~Renaming /\ Fault
    /\ CASE pc \in StagingPoints -> CleanUp
         [] pc = "verifyNew" -> /\ StartRollback(oldMoved, newPublished)
                                /\ UNCHANGED <<after, outcome, answer, handles>>
         [] pc = "remove" /\ outcome = "Committed" ->
              Goto("succeeded") /\ UNCHANGED <<after, outcome, answer, handles>>
         [] OTHER -> Return("error")
    /\ UNCHANGED <<mode, durable, handoff, foreigns>>

\* Power loss or a killed process: only the disk survives.
Crash ==
    /\ pc # "idle" /\ Fault
    /\ Return("none")
    /\ UNCHANGED <<mode, durable, handoff, foreigns>>

ForeignCreates ==
    /\ slot["target"] = NoFile /\ foreigns < MaxForeign /\ CanCreateFile
    /\ foreigns' = foreigns + 1
    /\ Put("target", [id |-> FreshId, bytes |-> "foreign"])
    /\ UNCHANGED <<mode, journal, dir, handoff, pc, after, outcome, answer, handles, faults>>

ForeignRemoves ==
    /\ slot["target"].bytes = "foreign"
    /\ Remove("target")
    /\ UNCHANGED <<mode, journal, dir, handoff, pc, after, outcome, answer, handles, bounds>>

Recovery == recover_receipt \/ rollback_unprepared \/ recover_impl \/ recover_refuses
            \/ RecoverDeletesPrevious \/ RecoverUnlinksPublic \/ RecoverDeletesStaged
            \/ RecoverDeletesJournal \/ remove_empty
Staging == create_refused \/ create \/ prepare_existing_copy \/ prepare_refused
           \/ CopyCompleted \/ CheckBase \/ CaptureStarts \/ CaptureCompletes
           \/ inspect_staged_file
Publication == publish_refused \/ CreateJournal \/ FlushJournal \/ VerifyPublished
               \/ mark_committed \/ DeletePrevious \/ DeleteJournal \/ Finish
Renames == RenameMoves \/ HardLinkCreated \/ HardLinkSourceDeleted \/ RenameRefused
           \/ UnlinkPublished \/ UnlinkRefused \/ RollbackCompleted
Program == Start \/ open_if_present \/ Recovery \/ Staging \/ Publication \/ Renames
Environment == RenameFails \/ IoError \/ Crash \/ ForeignCreates \/ ForeignRemoves

Next == Program \/ Environment
Spec == Init /\ [][Next]_vars
\* The workflow keeps running (and is run again) as long as it can take a
\* step; faults and the other program are never required to act.
FairSpec == Spec /\ WF_vars(Program)
-----------------------------------------------------------------------------
(* Properties *)

Target == slot["target"]
HasBase == BaseFile \in {slot["target"], slot["previous"]}
Survives == HasBase \/ Target.bytes = "image"

\* Whatever crashes, I/O errors, hard-link fallbacks and competing files do,
\* no step loses the user's only good image: the old image stays reachable
\* under the public or the previous name until a complete new image is public,
\* and a withdrawn new image leaves the old one behind (publish_impl,
\* rollback_live, recover_impl).
ImageSurvives == [][Existing /\ Survives => Survives']_vars

\* No-replace rename: a file another program put under the public name is
\* never overwritten, moved or deleted by publication, rollback or recovery.
ForeignUntouched == [][Target.bytes = "foreign" => Target' = Target \/ ForeignRemoves]_vars

\* The public name never shows an unfinished image, nor one to which a retry
\* added the capture a second time.
PublicImageSound == Target.bytes \notin {"partial", "stacked"}

\* The previous image is never orphaned: while it is in the private slot a
\* durable PREPARED journal names it, so recovery can restore it.
PreviousJournalled ==
    slot["previous"] # NoFile => journal.state = "prepared" /\ journal.old = slot["previous"]

\* A recovery that reports Committed, and a workflow that answers Ok, leave the
\* complete new image public and no old image behind.
CommittedIsPublic ==
    outcome = "Committed" \/ answer = "ok" =>
        /\ Target.bytes = "image"
        /\ pc \in {"remove", "succeeded", "idle"} => slot["previous"] = NoFile

\* publish_impl keeps its promise "failed and was rolled back": the PREPARED
\* journal is deleted only when the old image is back (or, for a create, the
\* name is free of it) and the staged image is private again.
RolledBackExactly ==
    pc = "undoJournal" => /\ slot["staged"] = new
                          /\ Existing => Target = old /\ slot["previous"] = NoFile
                          /\ Target # new

\* The four states of the disk from which the workflow never completes, plus
\* the one where only the control files were left behind.
TornJournal == journal.state = "torn"
OldLinkedTwice == journal.state = "prepared" /\ Target = journal.old
                  /\ slot["previous"] = Target /\ Target # NoFile
RollbackHalfDone == journal.state = "prepared" /\ Target = journal.old
                    /\ slot["previous"] = NoFile /\ slot["staged"] = NoFile
CommitUnreceipted == journal.state = "none" /\ dir.state = "publish" /\ Target.bytes = "image"
DoneUnacknowledged == dir.state = "absent" /\ Target.bytes = "image"
Stranded == TornJournal \/ OldLinkedTwice \/ RollbackHalfDone \/ CommitUnreceipted
            \/ DoneUnacknowledged
\* Another program's file, or the absence of the file to replace, is in the way.
Blocked == Target.bytes = "foreign" \/ (Existing /\ ~Survives)


\* A crash while two hard links to one image exist is handled by recovery.
LinkCrashRecoverable ==
    pc = "idle" /\ journal.state = "prepared" /\ Target # NoFile
    /\ Target \in {slot["previous"], slot["staged"]} => ~RecoveryRefused

\* The public image, and whether the publication can no longer be withdrawn:
\* the new image has lost its private link and no live rollback is possible.
PublicImage == IF Target.bytes = "image" THEN "new" ELSE "old"
Decided == /\ Target.bytes = "image" /\ slot["staged"] # Target
           /\ pc \notin {"publishNew", "verifyNew", "undoNew"}
Atomic == INSTANCE AtomicImage WITH image <- PublicImage, decided <- Decided
\* The publication implements an atomic, irrevocable switch of the public
\* image: recovery, live rollback and retries never undo a decided publication,
\* and the workflow answers Ok only after the decision.
RefinesAtomic == Atomic!Spec
-----------------------------------------------------------------------------
(* The inductive invariant behind the safety properties *)

Previous == slot["previous"]
Staged == slot["staged"]
Prepared == journal.state = "prepared"
ForeignOrFree == Target = NoFile \/ Target.bytes = "foreign"

\* What the disk satisfies at every moment, whoever runs.
DiskInv ==
    /\ dir.state = "absent" => journal.state = "none" /\ Staged = NoFile
    /\ ~Prepared => journal.old = NoFile /\ journal.new = NoFile /\ Previous = NoFile
                    /\ (Staged # NoFile => Staged.id \notin {Target.id, BaseId})
    /\ Prepared => /\ journal.new \in Files /\ journal.new.bytes = "image"
                   /\ journal.new.id # BaseId
                   /\ Staged # NoFile => Staged = Target \/ Staged.id # Target.id
                   /\ journal.old = IF Existing THEN BaseFile ELSE NoFile
                   /\ Previous \in {NoFile, journal.old} /\ Staged \in {NoFile, journal.new}
                   /\ Target.bytes = "image" => Target = journal.new
                   /\ Existing => HasBase \/ (Target = journal.new /\ Staged = NoFile)
    /\ Target.bytes \in {"none", "base", "image", "foreign"}
    /\ Target.bytes = "base" => Target = BaseFile /\ Existing
    /\ Target.bytes = "none" => Target = NoFile
    /\ dir.state = "committed" => /\ dir.receipt = Target /\ Target.bytes = "image"
                                  /\ Staged = NoFile
    /\ dir.state # "committed" => dir.receipt = NoFile

\* What the running workflow knows at each point.
NoHandles == old = NoFile /\ new = NoFile /\ ~oldMoved /\ ~newPublished
PlainDir == dir.state = "publish"
StagingInv ==
    /\ pc \in StagingPoints \cup {"publish", "journal"} =>
          /\ PlainDir /\ ~oldMoved /\ ~newPublished /\ held
          /\ journal.state = (IF pc = "journal" THEN "torn" ELSE "none")
          /\ old \in Files <=> Existing /\ pc # "prepare"
          /\ pc \in {"capture", "capturing", "captured", "publish", "journal"} /\ Existing
                => old = BaseFile /\ Target = BaseFile
          /\ old.bytes = "base" => Target = old
          /\ ~Existing => ForeignOrFree
    /\ pc = "prepare" => Existing
    /\ pc \in {"copying", "copied"} => Existing /\ Staged # NoFile
    /\ pc = "capture" => (Staged # NoFile <=> mode = "Append")
    /\ pc \in {"capturing", "captured"} => Staged # NoFile
    /\ pc = "captured" => Staged.bytes = "image"
    /\ pc \in {"publish", "journal"} => Staged = new /\ new.bytes = "image"

PublicationPoints == PublishPoints \cup {"undoNew", "undoOld", "undoJournal",
                                         "commit", "dropPrevious", "dropJournal"}
PublicationInv ==
    /\ pc \in PublicationPoints => Prepared /\ journal.old = old /\ journal.new = new
    /\ pc \in PublicationPoints \ {"dropPrevious", "dropJournal"} => PlainDir
    /\ pc \in {"dropPrevious", "dropJournal"} => dir.state = "committed"
    /\ pc \in PublishPoints => held
    /\ pc = "moveOld" => /\ Existing /\ Staged = new /\ Target = old /\ ~newPublished
                         /\ Previous = (IF linked THEN old ELSE NoFile) /\ (oldMoved <=> linked)
    /\ pc \in {"publishNew", "verifyNew"} => Previous = old /\ (oldMoved <=> Existing)
    /\ pc = "publishNew" => /\ Staged = new /\ (newPublished <=> linked)
                            /\ IF linked THEN Target = new ELSE ForeignOrFree
    /\ pc \in {"verifyNew", "commit", "dropPrevious", "dropJournal"} =>
          Target = new /\ Staged = NoFile /\ newPublished
    /\ pc \in {"commit", "dropPrevious"} => Previous = old
    /\ pc = "dropPrevious" => Existing
    /\ pc = "dropJournal" => Previous = NoFile
    /\ pc = "undoNew" => /\ newPublished /\ (oldMoved <=> Existing) /\ Previous = old
                         /\ held => Target = new
                         /\ linked => held /\ Staged = new
    /\ pc = "undoOld" => /\ oldMoved /\ Existing /\ Staged = new
                         /\ held => Previous = old
                         /\ Target # new
                         /\ linked => held /\ Target = old
    /\ pc = "undoJournal" => /\ Staged = new /\ Previous = NoFile
                             /\ IF Existing THEN Target = old ELSE ForeignOrFree
    /\ linked => pc \in RenamePoints

RecoveryInv ==
    /\ pc \in {"idle", "inspect", "begin", "recover", "rcPrevious", "rcJournal",
               "rbPublic", "rbRestore", "rbStaged", "rbJournal"} => NoHandles /\ held
    /\ pc \in {"recover", "remove"} => dir.state # "absent"
    /\ pc = "begin" => dir.state = "absent"
    /\ pc \in {"rcPrevious", "rcJournal", "rbPublic", "rbRestore", "rbStaged", "rbJournal"}
          => Prepared /\ outcome = (IF pc \in {"rcPrevious", "rcJournal"}
                                    THEN "Committed" ELSE "RolledBack")
    /\ pc \in {"rcPrevious", "rcJournal"} => Target = journal.new /\ Staged = NoFile
    /\ pc = "rcJournal" => Previous = NoFile
    /\ pc \in {"rbPublic", "rbRestore", "rbStaged", "rbJournal"} => PlainDir
    /\ pc = "rbPublic" => Target = journal.new /\ Staged = journal.new
    /\ pc = "rbRestore" => /\ Existing /\ Previous = journal.old /\ Staged = journal.new
                           /\ IF linked THEN Target = journal.old ELSE ForeignOrFree
    /\ pc \in {"rbStaged", "rbJournal"} =>
          /\ Previous = NoFile
          /\ IF Existing THEN Target = journal.old ELSE ForeignOrFree
    /\ pc = "rbStaged" => Staged = journal.new
    /\ pc = "rbJournal" => Staged = NoFile
    /\ pc \in {"remove", "succeeded"} => journal.state = "none" /\ Staged = NoFile
    /\ pc = "succeeded" => outcome = "Committed"
    /\ pc = "remove" => outcome # "none" /\ (outcome = "RolledBack" => NoHandles /\ held)
    /\ outcome = "Committed" => /\ pc \in {"rcPrevious", "rcJournal", "remove", "succeeded"}
                                /\ Target.bytes = "image"
    /\ answer = "ok" => pc = "idle" /\ ~handoff /\ journal.state = "none"
                        /\ Target.bytes = "image"

IInv == TypeOK /\ DiskInv /\ StagingInv /\ PublicationInv /\ RecoveryInv
=============================================================================
