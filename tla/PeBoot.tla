------------------------------- MODULE PeBoot -------------------------------
(***************************************************************************)
(* How a task gets from Windows into WinPE and leaves no trace of the way. *)
(*                                                                         *)
(* core/pe.rs writes a record of the task to a pending journal, copies     *)
(* boot image and RAM-disk description, creates two objects in the boot    *)
(* configuration (BCD) and puts the loader first in the one-shot boot      *)
(* sequence.  The caller then commits (the record moves to the active      *)
(* journal) or rolls everything back.  The next task first undoes what an  *)
(* interrupted or finished one left.  WinPE, once started, looks for the   *)
(* one record of its own task and removes objects, files and record before *)
(* it does its work.                                                       *)
(*                                                                         *)
(* bcdedit may fail, or be ended without a word after or before it wrote;  *)
(* power may be lost between any two steps.  One instance of the program   *)
(* runs at a time (正常系统端/src/main.rs takes a mutex).                  *)
(***************************************************************************)
EXTENDS Naturals, Sequences, SequencesExt

CONSTANTS
    MaxTasks,     \* tasks started in a behaviour
    MaxFaults,    \* failing calls
    MaxCrashes    \* power losses

ASSUME BoundAssumption == MaxTasks \in Nat \ {0} /\ MaxFaults \in Nat /\ MaxCrashes \in Nat

None   == 0
Record == 1..MaxTasks     \* fresh GUIDs: a task's objects and files are named after it alone

VARIABLES
    seq,        \* the one-shot boot sequence, first entry first
    loader,     \* each record's loader object: "absent", "bare" or "set"
    ramdisk,    \* its RAM-disk object
    wim,        \* its boot image: "absent", "plain", or with the "handoff" injected
    sdi,        \* the records whose RAM-disk description exists
    pending,    \* pe_pending.txt: a record or None
    active,     \* pe_guid.txt: the records
    side,       \* what runs: "windows", "pe" or "off"
    pc,
    started,    \* the number of tasks started; the last one is the current transaction
    iso,        \* the boot image comes from an ISO
    caller,     \* who called rollback_boot_record
    todo,       \* the records it is to undo, first one first
    clean,      \* no failure since it began
    answer,     \* what the caller of each task was told
    faults, crashes

store   == <<seq, loader, ramdisk>>
files   == <<wim, sdi>>
journal == <<pending, active>>
bounds  == <<faults, crashes>>
call    == <<caller, todo, clean>>
vars    == <<store, files, journal, side, pc, started, iso, call, answer, bounds>>

Current == started

Init ==
    /\ seq = <<>>
    /\ loader = [r \in Record |-> "absent"] /\ ramdisk = loader /\ wim = loader
    /\ sdi = {}
    /\ pending = None /\ active = <<>>
    /\ side = "windows" /\ pc = "idle" /\ started = 0 /\ iso = FALSE
    /\ caller = "none" /\ todo = <<>> /\ clean = TRUE
    /\ answer = [r \in Record |-> "none"]
    /\ faults = 0 /\ crashes = 0

Fault == faults < MaxFaults /\ faults' = faults + 1 /\ UNCHANGED crashes

(* A call either succeeds, or fails having had its effect or not.          *)
Attempt(effect, none, ok, failed) ==
    \/ effect /\ pc' = ok /\ UNCHANGED bounds
    \/ (effect \/ none) /\ pc' = failed /\ Fault

Set(f, r, v) == [f EXCEPT ![r] = v]

(* A list after the removal of one of its entries, the others in order.    *)
Without(s, x) ==
    LET F[i \in 0..Len(s)] ==
            IF i = 0 THEN <<>> ELSE IF s[i] = x THEN F[i - 1] ELSE Append(F[i - 1], s[i])
    IN  F[Len(s)]

----------------------------------------------------------------------------
(* boot_to_pe_internal, first part: recover, clean up, write the journal.  *)

StartTask ==
    /\ side = "windows" /\ pc \in {"idle", "ready"} /\ started < MaxTasks
    /\ pc' = "recover"
    /\ UNCHANGED <<store, files, journal, side, started, iso, call, answer, bounds>>

(* recover_pending_boot_transaction.                                       *)
RecoverPending ==
    /\ pc = "recover"
    /\ IF pending = None \/ Contains(active, pending)
         THEN pc' = (IF pending = None THEN "oldEntries" ELSE "dropPending") /\ UNCHANGED call
         ELSE pc' = "rbSequence" /\ caller' = "recover" /\ todo' = <<pending>> /\ clean' = TRUE
    /\ UNCHANGED <<store, files, journal, side, started, iso, answer, bounds>>

DropPending ==
    /\ pc = "dropPending"
    /\ Attempt(pending' = None, UNCHANGED pending, "oldEntries", "idle")
    /\ UNCHANGED <<store, files, active, side, started, iso, call, answer>>

(* cleanup_old_pe_entries: newest first.                                   *)
CleanupOldEntries ==
    /\ pc = "oldEntries"
    /\ IF active = <<>> THEN pc' = "orphans" /\ UNCHANGED call
       ELSE pc' = "rbSequence" /\ caller' = "old" /\ todo' = Reverse(active) /\ clean' = TRUE
    /\ UNCHANGED <<store, files, journal, side, started, iso, answer, bounds>>

DropActive ==
    /\ pc = "dropActive"
    /\ Attempt(active' = <<>>, UNCHANGED active, "orphans", "idle")
    /\ UNCHANGED <<store, files, pending, side, started, iso, call, answer>>

(* Mutant: files no journal names are left alone.                          *)
CleanupOrphans_None ==
    /\ pc = "orphans" /\ pc' = "journal"
    /\ UNCHANGED <<store, files, journal, side, started, iso, call, answer, bounds>>

(* cleanup_orphaned_private_pe_files: by name, whatever refers to them.    *)
CleanupOrphans ==
    /\ pc = "orphans"
    /\ \/ /\ wim' = [r \in Record |-> "absent"] /\ sdi' = {}
          /\ pc' = "journal" /\ UNCHANGED bounds
       \/ /\ \E gone \in SUBSET Record :
                wim' = [r \in Record |-> IF r \in gone THEN "absent" ELSE wim[r]]
          /\ sdi' \in SUBSET sdi
          /\ pc' = "idle" /\ Fault
    /\ UNCHANGED <<store, journal, side, started, iso, call, answer>>

(* The transaction exists once its journal is written.                     *)
WritePending ==
    /\ pc = "journal"
    /\ started' = started + 1 /\ iso' \in BOOLEAN
    /\ Attempt(pending' = started + 1, UNCHANGED pending, "copyWim", "idle")
    /\ UNCHANGED <<store, files, active, side, call, answer>>

----------------------------------------------------------------------------
(* boot_from_iso and boot_from_wim: payload, objects, boot sequence.  An   *)
(* error drops the transaction, which rolls it back.                       *)

CopyWim ==
    /\ pc = "copyWim"
    /\ Attempt(wim' = Set(wim, Current, "plain"), UNCHANGED wim,
               IF iso THEN "copySdi" ELSE "inject", "undo")
    /\ UNCHANGED <<store, sdi, journal, side, started, iso, call, answer>>

InjectHandoff ==
    /\ pc = "inject"
    /\ Attempt(wim' = Set(wim, Current, "handoff"), UNCHANGED wim,
               IF iso THEN "ramdisk" ELSE "copySdi", "undo")
    /\ UNCHANGED <<store, sdi, journal, side, started, iso, call, answer>>

CopySdi ==
    /\ pc = "copySdi"
    /\ Attempt(sdi' = sdi \cup {Current}, UNCHANGED sdi,
               IF iso THEN "inject" ELSE "ramdisk", "undo")
    /\ UNCHANGED <<store, wim, journal, side, started, iso, call, answer>>

(* write_pe_boot_entry: each object is created and then filled.            *)
CreateRamdisk ==
    /\ pc = "ramdisk"
    /\ Attempt(ramdisk' = Set(ramdisk, Current, "bare"), UNCHANGED ramdisk, "setRamdisk", "undo")
    /\ UNCHANGED <<seq, loader, files, journal, side, started, iso, call, answer>>

SetRamdisk ==
    /\ pc = "setRamdisk"
    /\ Attempt(ramdisk' = Set(ramdisk, Current, "set"), UNCHANGED ramdisk, "loader", "undo")
    /\ UNCHANGED <<seq, loader, files, journal, side, started, iso, call, answer>>

CreateLoader ==
    /\ pc = "loader"
    /\ Attempt(loader' = Set(loader, Current, "bare"), UNCHANGED loader, "setLoader", "undo")
    /\ UNCHANGED <<seq, ramdisk, files, journal, side, started, iso, call, answer>>

SetLoader ==
    /\ pc = "setLoader"
    /\ Attempt(loader' = Set(loader, Current, "set"), UNCHANGED loader, "arm", "undo")
    /\ UNCHANGED <<seq, ramdisk, files, journal, side, started, iso, call, answer>>

(* Mutants: the loader goes to the end of the sequence, or not alone.      *)
AddOneShotBoot_Last ==
    /\ pc = "arm"
    /\ Attempt(seq' = Append(seq, Current), UNCHANGED seq, "armed", "undo")
    /\ UNCHANGED <<loader, ramdisk, files, journal, side, started, iso, call, answer>>

(* add_one_shot_boot.                                                      *)
AddOneShotBoot ==
    /\ pc = "arm"
    /\ Attempt(seq' = <<Current>> \o seq, UNCHANGED seq, "armed", "undo")
    /\ UNCHANGED <<loader, ramdisk, files, journal, side, started, iso, call, answer>>

----------------------------------------------------------------------------
(* commit, and rollback or drop, of the transaction.                       *)

CommitRecord ==
    /\ pc = "armed"
    /\ Attempt(active' = IF Contains(active, Current) THEN active ELSE Append(active, Current),
               UNCHANGED active, "committed", "undo")
    /\ UNCHANGED <<store, files, pending, side, started, iso, call, answer>>

(* A pending journal that stays is only logged.                            *)
CommitPending ==
    /\ pc = "committed"
    /\ Attempt(pending' = None, UNCHANGED pending, "ready", "ready")
    /\ answer' = Set(answer, Current, "committed")
    /\ UNCHANGED <<store, files, active, side, started, iso, call>>

(* The installer may be cancelled before it commits.                       *)
Cancel ==
    /\ pc = "armed" /\ pc' = "undo"
    /\ UNCHANGED <<store, files, journal, side, started, iso, call, answer, bounds>>

Undo ==
    /\ pc = "undo" /\ pc' = "rbSequence"
    /\ caller' = "undo" /\ todo' = <<Current>> /\ clean' = TRUE
    /\ UNCHANGED <<store, files, journal, side, started, iso, answer, bounds>>

(* The journal goes whether the rollback succeeded or not.                 *)
UndoJournal ==
    /\ pc = "undoJournal" /\ pc' = "idle"
    /\ \/ pending' = None /\ UNCHANGED bounds
          /\ answer' = Set(answer, Current, IF clean THEN "rolledback" ELSE "failed")
       \/ pending' \in {pending, None} /\ Fault
          /\ answer' = Set(answer, Current, "failed")
    /\ UNCHANGED <<store, files, active, side, started, iso, call>>

----------------------------------------------------------------------------
(* rollback_boot_record: the boot sequence, the loader, the RAM disk, the  *)
(* files; it stops at the first object not known to be gone.               *)

Victim == Head(todo)

(* Where a failure leads: a task that cannot start, or the journal's       *)
(* removal by rollback and drop.                                           *)
RollbackFailed == IF caller = "undo" THEN "undoJournal" ELSE "idle"

RollbackStep(gone, kept, next) ==
    \/ gone /\ pc' = next /\ UNCHANGED <<clean, bounds>>
    \/ (gone \/ kept) /\ pc' = RollbackFailed /\ clean' = FALSE /\ Fault

RollbackSequence ==
    /\ pc = "rbSequence"
    /\ RollbackStep(seq' = Without(seq, Victim), UNCHANGED seq, "rbLoader")
    /\ UNCHANGED <<loader, ramdisk, files, journal, side, started, iso, caller, todo, answer>>

(* Mutant: a loader that cannot be deleted does not stop the rollback.     *)
RollbackLoader_Continue ==
    /\ pc = "rbLoader" /\ pc' = "rbRamdisk"
    /\ \/ loader' = Set(loader, Victim, "absent") /\ UNCHANGED <<clean, bounds>>
       \/ UNCHANGED loader /\ clean' = FALSE /\ Fault
    /\ UNCHANGED <<seq, ramdisk, files, journal, side, started, iso, caller, todo, answer>>

RollbackLoader ==
    /\ pc = "rbLoader"
    /\ RollbackStep(loader' = Set(loader, Victim, "absent"), UNCHANGED loader, "rbRamdisk")
    /\ UNCHANGED <<seq, ramdisk, files, journal, side, started, iso, caller, todo, answer>>

RollbackRamdisk ==
    /\ pc = "rbRamdisk"
    /\ RollbackStep(ramdisk' = Set(ramdisk, Victim, "absent"), UNCHANGED ramdisk, "rbWim")
    /\ UNCHANGED <<seq, loader, files, journal, side, started, iso, caller, todo, answer>>

(* Both files are tried.                                                   *)
RollbackWim ==
    /\ pc = "rbWim" /\ pc' = "rbSdi"
    /\ \/ wim' = Set(wim, Victim, "absent") /\ UNCHANGED <<clean, bounds>>
       \/ UNCHANGED wim /\ clean' = FALSE /\ Fault
    /\ UNCHANGED <<store, sdi, journal, side, started, iso, caller, todo, answer>>

(* The last file; then on to the next record, or back.                     *)
RollbackSdi ==
    /\ pc = "rbSdi"
    /\ \/ sdi' = sdi \ {Victim} /\ UNCHANGED <<clean, bounds>>
       \/ UNCHANGED sdi /\ clean' = FALSE /\ Fault
    /\ todo' = Tail(todo)
    /\ pc' = CASE ~clean' -> RollbackFailed
               [] clean' /\ caller = "undo" -> "undoJournal"
               [] clean' /\ caller = "recover" -> "dropPending"
               [] clean' /\ caller = "old" -> IF todo' = <<>> THEN "dropActive" ELSE "rbSequence"
    /\ UNCHANGED <<store, wim, journal, side, started, iso, caller, answer>>

----------------------------------------------------------------------------
(* The machine restarts: the boot manager starts the first loader of the   *)
(* boot sequence, once, if its entry works, otherwise Windows.             *)

Complete(r) == loader[r] = "set" /\ ramdisk[r] = "set" /\ wim[r] # "absent" /\ r \in sdi
Booted == todo[1]     \* in WinPE: the task it was started for

PowerOff ==
    /\ side' = "off" /\ pc' = "off"
    /\ caller' = "none" /\ todo' = <<>> /\ clean' = TRUE
    /\ UNCHANGED <<store, files, journal, started, iso, answer>>

Restart ==
    /\ \/ side = "windows" /\ pc \in {"idle", "ready"}
       \/ side = "pe" /\ pc \in {"peWork", "peRefused"}
    /\ PowerOff /\ UNCHANGED bounds

PowerLoss ==
    /\ side # "off" /\ crashes < MaxCrashes /\ crashes' = crashes + 1
    /\ PowerOff /\ UNCHANGED faults

Boot ==
    /\ side = "off"
    /\ IF seq # <<>> /\ Complete(Head(seq))
         THEN side' = "pe" /\ pc' = "peMatch" /\ todo' = <<Head(seq)>>
         ELSE side' = "windows" /\ pc' = "idle" /\ UNCHANGED todo
    /\ seq' \in {<<>>} \cup (IF seq = <<>> THEN {} ELSE {Tail(seq)})
    /\ UNCHANGED <<loader, ramdisk, files, journal, started, iso, caller, clean, answer, bounds>>

----------------------------------------------------------------------------
(* cleanup_persistent_pe_boot_payload, in WinPE.                           *)

(* Exactly one journal names the running task.                             *)
PeMatch ==
    /\ pc = "peMatch"
    /\ pc' = IF wim[Booted] = "handoff" /\ (pending = Booted) # Contains(active, Booted)
               THEN "peLoader" ELSE "peRefused"
    /\ UNCHANGED <<store, files, journal, side, started, iso, call, answer, bounds>>

PeDeleteLoader ==
    /\ pc = "peLoader"
    /\ Attempt(loader' = Set(loader, Booted, "absent"), UNCHANGED loader, "peRamdisk", "peRefused")
    /\ UNCHANGED <<seq, ramdisk, files, journal, side, started, iso, call, answer>>

PeDeleteRamdisk ==
    /\ pc = "peRamdisk"
    /\ Attempt(ramdisk' = Set(ramdisk, Booted, "absent"), UNCHANGED ramdisk, "peWim", "peRefused")
    /\ UNCHANGED <<seq, loader, files, journal, side, started, iso, call, answer>>

PeRemoveWim ==
    /\ pc = "peWim"
    /\ Attempt(wim' = Set(wim, Booted, "absent"), UNCHANGED wim, "peSdi", "peRefused")
    /\ UNCHANGED <<store, sdi, journal, side, started, iso, call, answer>>

PeRemoveSdi ==
    /\ pc = "peSdi"
    /\ Attempt(sdi' = sdi \ {Booted}, UNCHANGED sdi, "peJournal", "peRefused")
    /\ UNCHANGED <<store, wim, journal, side, started, iso, call, answer>>

(* The record leaves the journal last.                                     *)
PeRewriteJournal ==
    /\ pc = "peJournal"
    /\ Attempt(IF pending = Booted THEN pending' = None /\ UNCHANGED active
               ELSE active' = Without(active, Booted) /\ UNCHANGED pending,
               UNCHANGED journal, "peWork", "peRefused")
    /\ UNCHANGED <<store, files, side, started, iso, call, answer>>

Next ==
    \/ StartTask \/ RecoverPending \/ DropPending \/ CleanupOldEntries \/ DropActive
    \/ CleanupOrphans \/ WritePending
    \/ CopyWim \/ InjectHandoff \/ CopySdi \/ CreateRamdisk \/ SetRamdisk
    \/ CreateLoader \/ SetLoader \/ AddOneShotBoot
    \/ CommitRecord \/ CommitPending \/ Cancel \/ Undo \/ UndoJournal
    \/ RollbackSequence \/ RollbackLoader \/ RollbackRamdisk \/ RollbackWim \/ RollbackSdi
    \/ Restart \/ PowerLoss \/ Boot
    \/ PeMatch \/ PeDeleteLoader \/ PeDeleteRamdisk \/ PeRemoveWim \/ PeRemoveSdi
    \/ PeRewriteJournal

Spec == Init /\ [][Next]_vars

----------------------------------------------------------------------------

Named(r)   == pending = r \/ Contains(active, r)
Residue(r) == Contains(seq, r) \/ loader[r] # "absent" \/ ramdisk[r] # "absent"

(* Objects and files of a journalled task depend on each other only        *)
(* downwards, whatever failed and wherever power was lost: no boot entry   *)
(* points to an unfinished loader, no loader to an unfinished RAM disk,    *)
(* no RAM disk to a missing file or an image without its handoff.  And     *)
(* losing power alone, however often, leaves no boot object that no        *)
(* journal names.                                                          *)
EntryComplete ==
    \A r \in Record :
        /\ Named(r) =>
              /\ Contains(seq, r) => loader[r] = "set"
              /\ loader[r] # "absent" => ramdisk[r] = "set"
              /\ ramdisk[r] # "absent" => wim[r] = "handoff" /\ r \in sdi
        /\ faults = 0 /\ Residue(r) => Named(r)

(* Only the task started last can start WinPE: what an earlier one left    *)
(* behind, even a boot entry nothing names any more, is harmless by then,  *)
(* and a rollback that was answered with success keeps WinPE from starting.*)
LatestTaskBoots == side = "pe" => Booted = started /\ answer[Booted] # "rolledback"

(* When the caller may restart, the machine will start this task's WinPE   *)
(* from a complete entry, and the active journal authorizes it.            *)
CommittedBoots ==
    pc = "ready" => /\ Head(seq) = Current /\ Complete(Current) /\ wim[Current] = "handoff"
                    /\ Contains(active, Current)

(* A rollback that fails stays retryable: the persistent journal names     *)
(* what is left of the transaction.                                        *)
RollbackRetryable == \A r \in Record : Residue(r) => Named(r)
=============================================================================
