----------------------------- MODULE PeInstall ------------------------------
(***************************************************************************)
(* The installation worker of WinPE (execute_install_workflow in           *)
(* PE端/src/app.rs) and what it does to the disk.                          *)
(*                                                                         *)
(* Until the first write to the target every failure goes through          *)
(* fail_install_before_destructive_write, which takes the session back and *)
(* tells the user that the old system is untouched.  After it the worker   *)
(* may only report the failure and keep what a retry needs.  Where that    *)
(* line lies depends on the task: a format, a repartitioning, a deletion   *)
(* in place, the preservation of personal files, or the first byte of the  *)
(* image.  The image itself may lie on a staging partition, on another     *)
(* volume, in chunks on several volumes or on the target.                  *)
(*                                                                         *)
(* Every engine call may fail, having had its effect, part of it or none.  *)
(* The message traffic of the same worker is modelled in PeSession.        *)
(***************************************************************************)
EXTENDS Naturals, Sequences

CONSTANT Tasks      \* the authenticated tasks to consider

Mode == {"reinstall", "dualBoot", "fullDisk"}
Kind == {"wim", "gho", "xp"}                          \* xp: text-mode set-up from i386
Home == {"partition", "volume", "scatter", "target"}  \* where the payload was staged
ApplyPlan == {"Unknown", "Normal", "CompactXpress4k", "CompactLzx", "TooSmall"}

(* What deserialize_install_config and the Windows side let through.       *)
Task ==
    {t \in [mode : Mode, kind : Kind, home : Home, format : BOOLEAN, preserve : BOOLEAN,
            inPlace : BOOLEAN, chunked : BOOLEAN, repair : BOOLEAN,
            plan : ApplyPlan, compact : BOOLEAN] :
        /\ t.preserve => ~t.format /\ t.kind = "wim" /\ t.mode = "reinstall"
        /\ t.inPlace => t.home = "target" /\ t.mode = "reinstall" /\ t.kind = "wim"
        /\ t.chunked => t.home = "scatter" /\ t.kind = "wim"
        /\ t.plan \in {"CompactXpress4k", "CompactLzx"} => t.compact}

ASSUME TasksAssumption == Tasks \subseteq Task

VARIABLES
    task,
    pc,
    target,      \* what lies on the target: "old" system, a "half" or a whole "new" one
    personal,    \* the personal files: "home", "moved" into the preserved root, "split", "lost"
    boot,        \* boot files: "old", "none", "new", or "broken" by half a repair
    entry,       \* this task's PE boot entry and private payload exist
    marker,      \* the target's marker (all disks' markers in full-disk mode) exists
    held,        \* and the task still holds it
    payload,     \* the staged image and drivers exist
    locator,     \* the marker of the data volume exists
    staging,     \* the automatic staging partition exists
    dual,        \* the volume created for a dual-boot target exists
    rebuilt,     \* the chunked image on the target: "none", "partial", "whole"
    ladder,      \* apply_ladder
    attempt,
    critical,    \* critical_storage_failure: no boot-storage driver was confirmed
    warned,      \* completion_warnings is not empty
    undone,      \* no rollback_errors so far
    verdict

disk    == <<target, personal, boot>>
session == <<entry, marker, held, payload, locator, staging, dual, rebuilt>>
retry   == <<ladder, attempt>>
flow    == <<critical, warned, undone>>
vars    == <<task, pc, disk, session, retry, flow, verdict>>

Uncompressed == "None"
Rung     == {Uncompressed, "Xpress4k", "Lzx"}
Verdict  == {"none", "Failed", "RolledBack", "RollbackIncomplete",
             "Completed", "CompletedWithWarning"}

Untouched(t) == IF t.mode = "dualBoot" THEN {} ELSE {"old"}

Init ==
    /\ task \in Tasks
    /\ pc = "authenticate"
    /\ target = Untouched(task) /\ personal = "home" /\ boot = "old"
    /\ entry = TRUE /\ marker = TRUE /\ held = TRUE
    /\ payload = TRUE /\ locator = TRUE
    /\ staging = (task.home = "partition")
    /\ dual = (task.mode = "dualBoot")
    /\ rebuilt = "none"
    /\ ladder = <<Uncompressed>> /\ attempt = 1
    /\ critical = FALSE /\ warned = FALSE /\ undone = TRUE
    /\ verdict = "none"

Goto(l)  == pc' = l /\ UNCHANGED verdict
Fail     == pc' = "done" /\ verdict' = "Failed"
Prewrite == Goto("undoEntry")

----------------------------------------------------------------------------
(* Before the first write.                                                 *)

Authenticate ==
    /\ pc = "authenticate"
    /\ Goto("preflight") \/ Fail
    /\ UNCHANGED <<task, disk, session, retry, flow>>

(* Text-mode set-up brings its own boot files and must be allowed to.      *)
XpWithoutBoot(t) == t.kind = "xp" /\ ~t.repair

(* Chunks are put together on the target, once it has been formatted.      *)
ChunksUnformatted(t) == t.chunked /\ ~(t.format /\ t.mode = "reinstall")

(* validate_install_target_dependencies, which in-place staging skips.     *)
SourceOnTarget(t) == t.home = "target" /\ ~t.inPlace

Refused(t) == XpWithoutBoot(t) \/ ChunksUnformatted(t) \/ SourceOnTarget(t)

(* Configuration, artefacts, image, layout, dependencies and the plan for  *)
(* the personal files: any of them may fail, three must.                   *)
Preflight ==
    /\ pc = "preflight"
    /\ Prewrite \/ (~Refused(task) /\ Goto("removeEntry"))
    /\ UNCHANGED <<task, disk, session, retry, flow>>

RemoveEntry ==
    /\ pc = "removeEntry"
    /\ \/ entry' = FALSE /\ Goto(IF task.mode = "fullDisk" THEN "repartition" ELSE "releaseMarker")
       \/ entry' \in BOOLEAN /\ Prewrite
    /\ UNCHANGED <<task, disk, marker, held, payload, locator, staging, dual, rebuilt,
                   retry, flow>>

FormatTarget(t) == t.format /\ ~t.inPlace /\ t.mode = "reinstall"

(* The branch taken once preservation is done or was not asked for.        *)
EraseStep(t) ==
    CASE t.inPlace /\ t.format /\ ~t.preserve -> "deleteOld"
      [] FormatTarget(t)                      -> "planCapacity"
      [] OTHER                                -> "firstWrite"

(* The task gives the marker up before it tries to delete the file.        *)
ReleaseMarker ==
    /\ pc = "releaseMarker"
    /\ held' = FALSE
    /\ \/ marker' = FALSE /\ Goto(IF task.preserve THEN "preserve" ELSE EraseStep(task))
       \/ UNCHANGED marker /\ Prewrite
    /\ UNCHANGED <<task, disk, entry, payload, locator, staging, dual, rebuilt, retry, flow>>

(* Mutant: a chunked image may be applied again after a format, too.       *)
Ladder_Chunked(t) ==
    IF t.kind = "wim" /\ t.compact THEN <<Uncompressed, "Xpress4k", "Lzx">> ELSE <<Uncompressed>>

(* TooSmall is the last failure that still finds the old system whole.     *)
Ladder(t) ==
    IF t.kind # "wim" \/ t.chunked THEN <<Uncompressed>>
    ELSE CASE t.plan = "CompactXpress4k" -> <<"Xpress4k", "Lzx">>
           [] t.plan = "CompactLzx"      -> <<"Lzx">>
           [] OTHER -> IF t.compact THEN <<Uncompressed, "Xpress4k", "Lzx">> ELSE <<Uncompressed>>

PlanCapacity ==
    /\ pc = "planCapacity"
    /\ IF task.plan = "TooSmall" /\ task.kind = "wim" /\ ~task.chunked
         THEN Prewrite /\ UNCHANGED ladder
         ELSE ladder' = Ladder(task) /\ Goto("format")
    /\ UNCHANGED <<task, disk, session, attempt, flow>>

----------------------------------------------------------------------------
(* fail_install_before_destructive_write                                   *)

(* The clean-up of the boot entry wants exactly one record: where the      *)
(* entry is gone already it fails.                                         *)
UndoEntry ==
    /\ pc = "undoEntry"
    /\ \/ entry /\ entry' = FALSE /\ UNCHANGED undone
       \/ entry' \in {entry, FALSE} /\ undone' = FALSE
    /\ Goto("undoMarkers")
    /\ UNCHANGED <<task, disk, marker, held, payload, locator, staging, dual, rebuilt,
                   retry, critical, warned>>

(* into_prewrite_cleanup_authorization; an error skips the volumes.        *)
UndoMarkers ==
    /\ pc = "undoMarkers"
    /\ \/ /\ marker' = (marker /\ ~held)
          /\ locator' = (locator /\ task.home = "partition")
          /\ Goto("undoDual") /\ UNCHANGED undone
       \/ /\ marker' \in {marker, marker /\ ~held} /\ UNCHANGED locator
          /\ undone' = FALSE /\ Goto("undoReport")
    /\ UNCHANGED <<task, disk, entry, held, payload, staging, dual, rebuilt,
                   retry, critical, warned>>

(* rollback_dual_boot_before_write needs the target, so the held marker.   *)
UndoDual ==
    /\ pc = "undoDual"
    /\ \/ task.mode # "dualBoot" /\ UNCHANGED <<dual, undone>>
       \/ task.mode = "dualBoot" /\ held /\ dual' = FALSE /\ UNCHANGED undone
       \/ task.mode = "dualBoot" /\ dual' \in {TRUE, ~held} /\ undone' = FALSE
    /\ Goto("undoStaging")
    /\ UNCHANGED <<task, disk, entry, marker, held, payload, locator, staging, rebuilt,
                   retry, critical, warned>>

(* cleanup_authenticated_auto_staging deletes the partition with all that  *)
(* lies on it and gives its space back; the latter may fail alone.         *)
StagingDeleted == staging' = FALSE /\ payload' = FALSE /\ locator' = FALSE

UndoStaging ==
    /\ pc = "undoStaging"
    /\ IF task.home = "partition"
         THEN \/ StagingDeleted /\ UNCHANGED undone
              \/ undone' = FALSE /\ (StagingDeleted \/ UNCHANGED <<staging, payload, locator>>)
         ELSE UNCHANGED <<staging, payload, locator, undone>>
    /\ Goto("undoReport")
    /\ UNCHANGED <<task, disk, entry, marker, held, dual, rebuilt, retry, critical, warned>>

UndoReport ==
    /\ pc = "undoReport"
    /\ pc' = "done"
    /\ verdict' = IF undone THEN "RolledBack" ELSE "RollbackIncomplete"
    /\ UNCHANGED <<task, disk, session, retry, flow>>

----------------------------------------------------------------------------
(* The first write.                                                        *)

(* A formatted or repartitioned target keeps nothing that lay on it.       *)
Erased ==
    /\ target' = {} /\ personal' = "lost" /\ rebuilt' = "none"
    /\ payload' = (payload /\ task.home # "target")

NotErased == UNCHANGED <<target, personal, rebuilt, payload>>

(* execute_full_disk_install keeps the staging partition; the markers go   *)
(* with the old partitions.                                                *)
Repartition ==
    /\ pc = "repartition"
    /\ held' = FALSE
    /\ \/ /\ Erased /\ boot' = "none" /\ marker' = FALSE
          /\ warned' \in BOOLEAN                      \* layout_warnings
          /\ Goto(EraseStep(task))
       \/ /\ Erased \/ NotErased
          /\ boot' \in {boot, "none"} /\ marker' \in BOOLEAN
          /\ UNCHANGED warned /\ Fail
    /\ UNCHANGED <<task, entry, locator, staging, dual, retry, critical, undone>>

(* Mutant: everything but a started deletion counts as reversible.         *)
PreservePersonalFiles_Reversible ==
    /\ pc = "preserve"
    /\ \/ personal' = "moved" /\ target' = target \ {"old"} /\ Goto(EraseStep(task))
       \/ UNCHANGED target /\ personal' \in {personal, "split"} /\ Prewrite
    /\ UNCHANGED <<task, boot, session, retry, flow>>

(* execute_personal_file_preservation (see PersonalFiles): done, taken     *)
(* back, or stopped with the files in two places or the system half gone.  *)
PreservePersonalFiles ==
    /\ pc = "preserve"
    /\ \/ personal' = "moved" /\ target' = target \ {"old"} /\ Goto(EraseStep(task))
       \/ UNCHANGED <<personal, target>> /\ Prewrite
       \/ personal' = "split" /\ UNCHANGED target /\ Fail
       \/ personal' = "moved" /\ target' \in {{"old"}, {}} /\ Fail
    /\ UNCHANGED <<task, boot, session, retry, flow>>

(* delete_old_system_in_place: users' files are part of the old system,    *)
(* the LetRecovery_ directories and with them the payload are not.  What   *)
(* cannot be deleted is overwritten by the image.                          *)
DeleteOldSystem ==
    /\ pc = "deleteOld"
    /\ \/ /\ target' \in {target \ {"old"}, target} /\ personal' \in {"lost", personal}
          /\ Goto("firstWrite")
       \/ UNCHANGED <<target, personal>> /\ Fail
    /\ UNCHANGED <<task, boot, session, retry, flow>>

Format ==
    /\ pc = "format"
    /\ \/ Erased /\ Goto(IF task.chunked THEN "reassemble" ELSE "apply")
       \/ (Erased \/ NotErased) /\ Fail
    /\ UNCHANGED <<task, boot, entry, marker, held, locator, staging, dual, retry, flow>>

(* The chunks become one file on the target, checked and preflighted.      *)
Reassemble ==
    /\ pc = "reassemble"
    /\ \/ rebuilt' = "whole" /\ Goto("apply")
       \/ rebuilt' \in {"none", "partial", "whole"} /\ Fail
    /\ UNCHANGED <<task, disk, entry, marker, held, payload, locator, staging, dual, retry, flow>>

(* Without a format: identity check and removal of older private PE files. *)
FirstWrite ==
    /\ pc = "firstWrite"
    /\ Goto("apply") \/ Fail
    /\ UNCHANGED <<task, disk, session, retry, flow>>

----------------------------------------------------------------------------
(* The image.                                                              *)

SourceThere == IF task.chunked THEN rebuilt = "whole" ELSE payload

(* install_from_i386_locked adds the text-mode set-up to the target; boot   *)
(* files are its own.                                                      *)
ApplyXp ==
    /\ pc = "apply" /\ task.kind = "xp"
    /\ \/ SourceThere /\ target' = target \cup {"new"} /\ Goto("cleanup")
       \/ target' = target \cup {"half"} /\ Fail
    /\ UNCHANGED <<task, personal, boot, session, retry, flow>>

(* Ghost writes the sectors of the whole partition.                        *)
ApplyGhost ==
    /\ pc = "apply" /\ task.kind = "gho"
    /\ personal' = "lost"
    /\ \/ SourceThere /\ target' = {"new"} /\ Goto("setup")
       \/ target' = {"half"} /\ Fail
    /\ UNCHANGED <<task, boot, session, retry, flow>>

(* An error that reads like a full disk (is_disk_full_error) leads to the  *)
(* next rung, but only on a target that may be formatted again.            *)
ApplyImage ==
    /\ pc = "apply" /\ task.kind = "wim"
    /\ \/ SourceThere /\ target' = target \cup {"new"} /\ Goto("setup")
       \/ target' = target \cup {"half"} /\ Fail
       \/ /\ FormatTarget(task) /\ attempt < Len(ladder)
          /\ target' = target \cup {"half"} /\ Goto("reformat")
    /\ UNCHANGED <<task, personal, boot, session, retry, flow>>

(* Mutant: the next rung is tried on what the last attempt left.           *)
Reformat_Skip ==
    /\ pc = "reformat"
    /\ NotErased /\ attempt' = attempt + 1 /\ Goto("apply")
    /\ UNCHANGED <<task, boot, entry, marker, held, locator, staging, dual, ladder, flow>>

Reformat ==
    /\ pc = "reformat"
    /\ \/ Erased /\ attempt' = attempt + 1 /\ Goto("apply")
       \/ (Erased \/ NotErased) /\ UNCHANGED attempt /\ Fail
    /\ UNCHANGED <<task, boot, entry, marker, held, locator, staging, dual, ladder, flow>>

(* Drivers and updates only warn, a boot-storage driver that could not be  *)
(* confirmed is remembered; boot files for the firmware's signature must   *)
(* go in.                                                                  *)
SetUp ==
    /\ pc = "setup"
    /\ \/ warned' \in {warned, TRUE} /\ critical' \in BOOLEAN /\ Goto("repairBoot")
       \/ UNCHANGED <<critical, warned>> /\ Fail
    /\ UNCHANGED <<task, disk, session, retry, undone>>

RepairBoot ==
    /\ pc = "repairBoot"
    /\ \/ ~task.repair /\ UNCHANGED <<boot, warned>> /\ Goto("unattend")
       \/ task.repair /\ boot' = "new" /\ warned' \in {warned, TRUE} /\ Goto("unattend")
       \/ task.repair /\ boot' \in {boot, "broken", "new"} /\ UNCHANGED warned /\ Fail
    /\ UNCHANGED <<task, target, personal, session, retry, critical, undone>>

(* Options and software only warn; the answer file must be written.        *)
Unattend ==
    /\ pc = "unattend"
    /\ \/ warned' \in {warned, TRUE} /\ Goto("storage")
       \/ UNCHANGED warned /\ Fail
    /\ UNCHANGED <<task, disk, session, retry, critical, undone>>

(* What was injected since may have closed the gap; otherwise it is a      *)
(* warning.                                                                *)
VerifyStorage ==
    /\ pc = "storage"
    /\ \/ critical' = FALSE /\ UNCHANGED warned
       \/ critical /\ warned' = TRUE /\ UNCHANGED critical
    /\ Goto("cleanup")
    /\ UNCHANGED <<task, disk, session, retry, undone>>

----------------------------------------------------------------------------
(* The new system is complete: from here on a failure is a warning, or     *)
(* for scattered, rebuilt and in-place files only a line in the log.       *)

(* Mutant: the data locator is deleted before the staging partition is.    *)
ReleasePayload_LocatorFirst ==
    /\ pc = "cleanup"
    /\ locator' = FALSE /\ Goto("unstage")
    /\ UNCHANGED <<task, disk, entry, marker, held, payload, staging, dual, rebuilt, retry, flow>>

ReleasePayload ==
    /\ pc = "cleanup"
    /\ payload' \in (IF task.home = "scatter" THEN {FALSE, payload} ELSE {payload})
    /\ rebuilt' \in {"none", rebuilt}
    /\ \/ locator' = (task.home = "partition") /\ UNCHANGED warned /\ Goto("unstage")
       \/ UNCHANGED locator /\ warned' = TRUE
          /\ Goto(IF task.home = "partition" /\ task.mode # "fullDisk"
                    THEN "report" ELSE "unstage")
    /\ UNCHANGED <<task, disk, entry, marker, held, staging, dual, retry, critical, undone>>

Unstage ==
    /\ pc = "unstage"
    /\ CASE task.inPlace ->
              payload' \in {FALSE, payload} /\ UNCHANGED <<staging, locator, warned>>
         [] task.home = "partition" ->
              \/ StagingDeleted /\ UNCHANGED warned
              \/ warned' = TRUE /\ (StagingDeleted \/ UNCHANGED <<staging, payload, locator>>)
         [] OTHER -> UNCHANGED <<payload, staging, locator, warned>>
    /\ Goto("report")
    /\ UNCHANGED <<task, disk, entry, marker, held, dual, rebuilt, retry, critical, undone>>

Report ==
    /\ pc = "report"
    /\ pc' = "done"
    /\ verdict' = IF warned THEN "CompletedWithWarning" ELSE "Completed"
    /\ UNCHANGED <<task, disk, session, retry, flow>>

----------------------------------------------------------------------------

Next ==
    \/ Authenticate \/ Preflight \/ RemoveEntry \/ ReleaseMarker \/ PlanCapacity
    \/ UndoEntry \/ UndoMarkers \/ UndoDual \/ UndoStaging \/ UndoReport
    \/ Repartition \/ PreservePersonalFiles \/ DeleteOldSystem \/ Format \/ Reassemble
    \/ FirstWrite \/ ApplyXp \/ ApplyGhost \/ ApplyImage \/ Reformat
    \/ SetUp \/ RepairBoot \/ Unattend \/ VerifyStorage \/ ReleasePayload \/ Unstage \/ Report

Spec == Init /\ [][Next]_vars

----------------------------------------------------------------------------
(* Properties                                                              *)

(* fail_install_before_destructive_write tells the user that the old       *)
(* system has not been deleted, formatted or overwritten, and, when it     *)
(* says so, that the session has been taken back: no boot entry, target    *)
(* marker, staging partition or dual-boot volume of this task is left.     *)
PrewriteTruthful ==
    /\ verdict \in {"RolledBack", "RollbackIncomplete"} =>
          target = Untouched(task) /\ personal = "home" /\ boot = "old"
    /\ verdict = "RolledBack" => ~entry /\ ~marker /\ ~staging /\ ~dual

(* When an engine is given the image, the image is there: no format, no    *)
(* reformat of the ladder and no deletion on the way to it erased the file *)
(* it is about to read.                                                    *)
SourceReadable == pc = "apply" => SourceThere

(* An installation reported as completed, with or without warnings, put a  *)
(* whole system on the target, never over the remains of an attempt that   *)
(* ran out of space nor over the old system where the target is formatted, *)
(* wrote the boot files when asked to, and has the personal files in the   *)
(* preserved root when they were to be kept.  Without a warning, the       *)
(* drivers of the boot storage were confirmed.                             *)
CompletedMeansInstalled ==
    verdict \in {"Completed", "CompletedWithWarning"} =>
        /\ "new" \in target /\ "half" \notin target
        /\ (FormatTarget(task) => target = {"new"})
        /\ (task.repair /\ task.kind # "xp" => boot = "new")
        /\ (task.preserve => personal = "moved")
        /\ (critical => verdict = "CompletedWithWarning")

(* A failure after the first write keeps the staged files, their locator   *)
(* and the staging partition: with the old system gone they are what a     *)
(* retry has.  A partition is only given up together with them, and a      *)
(* completion that says nothing left none behind.                          *)
RetryMaterialKept ==
    /\ verdict = "Failed" => payload /\ locator /\ (task.home = "partition" => staging)
    /\ task.home = "partition" => (staging <=> payload) /\ (staging <=> locator)
    /\ verdict = "Completed" => ~staging /\ ~locator

=============================================================================
