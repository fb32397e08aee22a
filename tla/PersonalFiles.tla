--------------------------- MODULE PersonalFiles ---------------------------
(***************************************************************************)
(* Preservation of the personal directories of an old Windows before it is *)
(* deleted in WinPE, and their restoration into the profile of the new one *)
(* (lr-core/src/personal_files.rs).                                        *)
(*                                                                         *)
(* In WinPE execute_personal_file_preservation renames every planned       *)
(* directory into LetRecovery_Preserved_<session>, undoes the renames when *)
(* one fails, and only then deletes the old system, "Users" included.  At  *)
(* the first logon restore_preserved_personal_files_to merges every        *)
(* preserved profile into the known folders of the current user, one file  *)
(* at a time: create, copy, sync, read back, delete the preserved file.    *)
(* Both may lose power at any step, any call may fail, and the restoration *)
(* is run again at the next logon.                                         *)
(*                                                                         *)
(* An entry is named by its old profile and its path below it; a file's    *)
(* contents are the entry itself, or "torn" while they are being written.  *)
(***************************************************************************)
EXTENDS Naturals, Sequences, SequencesExt, FiniteSets

CONSTANTS
    Profiles,    \* the old profiles, in the order they are enumerated
    Sorted,      \* every entry of their personal directories, in that order
    Kind,        \* [entry -> "folder" | "dir" | "file" | "link" | "ini" | "shortcut"]
    Public,      \* the profile whose directories go to the public known folders
    NewFiles,    \* places the new profile already holds: [place -> "dir" | "new"]
    MaxOrdinal,  \* conflict names tried for one entry (10 000 in the code)
    MaxFaults,   \* failing calls and power losses in a behaviour
    MaxUser      \* files the user creates while the restoration runs

Entry   == Range(Sorted)
Folders == {e \in Entry : Kind[e] = "folder"}
Within(f)   == {e \in Entry : e.owner = f.owner /\ e.path[1] = f.path[1]}
Children(d) == {e \in Entry : e.owner = d.owner /\ Len(e.path) > 1 /\ Front(e.path) = d.path}

(* A set is worked through in the order of a listing, or backwards.        *)
Earliest(S, order) == order[CHOOSE i \in DOMAIN order :
                               order[i] \in S /\ \A j \in DOMAIN order : order[j] \in S => i <= j]
Latest(S, order)   == order[CHOOSE i \in DOMAIN order :
                               order[i] \in S /\ \A j \in DOMAIN order : order[j] \in S => j <= i]

(* What the user must get back: not the metadata of the old known folders, *)
(* nor desktop shortcuts into the system that is deleted.                  *)
Personal == {e \in Entry : Kind[e] \in {"file", "link"}}

(* The directories form a tree.                                            *)
ASSUME TreeAssumption ==
    /\ Profiles \in Seq(STRING) /\ Sorted \in Seq(Entry)
    /\ Entry \subseteq [owner : Range(Profiles), path : Seq(STRING) \ {<<>>}]
    /\ \A e \in Entry : Len(e.path) = 1 <=> Kind[e] = "folder"
    /\ \A e \in Entry : \A n \in 1..Len(e.path) :
          \E d \in Entry : d.owner = e.owner /\ d.path = SubSeq(e.path, 1, n)
    /\ \A d \in Entry : Children(d) # {} => Kind[d] \in {"folder", "dir"}
    /\ Folders # {}

ASSUME BoundAssumption ==
    MaxOrdinal \in Nat \ {0} /\ MaxFaults \in Nat /\ MaxUser \in Nat

VARIABLES
    at,         \* where each entry of the old profiles is: "users", "kept" or "gone"
    oldSystem,  \* the old Windows and its "Users" tree: "intact", "partly" or "gone"
    root,       \* the preservation root exists
    readme,     \* ... with its README.txt
    keptDirs,   \* ... and these profile directories
    dest,       \* the new profile's known folders: [place -> content]
    pc,         \* the next step of whichever of the two procedures runs
    moved,      \* directories renamed so far, or still to be renamed back
    rollback,   \* a rename could not be undone
    stage,      \* the stage a failed preservation reports
    profiles,   \* restoration: profiles still to be visited, the current one among them
    folders,    \* restoration: directories of that profile still to be visited
    stack,      \* restoration: nested merge_preserved_directory calls
    cur,        \* restoration: the entry move_restore_entry works on, and its place
    faults, user

vars == <<at, oldSystem, root, readme, keptDirs, dest, pc, moved, rollback, stage,
          profiles, folders, stack, cur, faults, user>>

disk       == <<at, oldSystem, root, readme, keptDirs, dest>>
preserving == <<moved, rollback, stage>>
restoring  == <<profiles, folders, stack, cur>>

NoEntry == [owner |-> "none", path |-> <<>>]
NoPlace == [scope |-> "none", names |-> <<>>]
NoWork  == [entry |-> NoEntry, place |-> NoPlace]

(* A name in the new profile: the old one, or the old one with             *)
(* "(from <profile> <ordinal>)".                                           *)
Plain(base)                == [base |-> base, from |-> "none", ordinal |-> 0]
Conflict(base, profile, k) == [base |-> base, from |-> profile, ordinal |-> k]
Under(place, name) == [place EXCEPT !.names = Append(@, name)]
Exists(place)      == place \in DOMAIN dest

(* The known folder a preserved directory is merged into.                  *)
KnownFolder(f) == [scope |-> IF f.owner = Public THEN "public" ELSE "personal",
                   names |-> <<Plain(f.path[1])>>]

(* The new profile's own known folders are directories.                    *)
ASSUME NewAssumption ==
    /\ \A p \in DOMAIN NewFiles : NewFiles[p] \in {"dir", "new"}
    /\ \A f \in Folders : KnownFolder(f) \in DOMAIN NewFiles => NewFiles[KnownFolder(f)] = "dir"

(* What a place of the new profile holds: a directory, a file of the new   *)
(* profile, an unfinished copy, or the complete copy of an entry.          *)
Dir     == [is |-> "dir",  of |-> NoEntry]
New     == [is |-> "new",  of |-> NoEntry]
Torn    == [is |-> "torn", of |-> NoEntry]
Copy(e) == [is |-> "copy", of |-> e]

Put(place, content) == [p \in DOMAIN dest \cup {place} |->
                           IF p = place THEN content ELSE dest[p]]
Vacate(place) == [p \in DOMAIN dest \ {place} |-> dest[p]]

Init ==
    /\ at = [e \in Entry |-> "users"]
    /\ oldSystem = "intact"
    /\ root = FALSE /\ readme = FALSE /\ keptDirs = {}
    /\ dest = [p \in DOMAIN NewFiles |-> [is |-> NewFiles[p], of |-> NoEntry]]
    /\ pc = "create"
    /\ moved = {} /\ rollback = FALSE /\ stage = "none"
    /\ profiles = {} /\ folders = {} /\ stack = <<>> /\ cur = NoWork
    /\ faults = 0 /\ user = 0

Fault == faults < MaxFaults /\ faults' = faults + 1

----------------------------------------------------------------------------
(* Preservation, in WinPE.                                                 *)

Refuse(s) == pc' = "failed" /\ stage' = s

(* create_dir of the preservation root: it must not exist.                 *)
CreateRoot ==
    /\ pc = "create"
    /\ \/ ~root /\ root' = TRUE /\ pc' = "readme" /\ UNCHANGED <<stage, faults>>
       \/ Fault /\ Refuse("Reversible") /\ UNCHANGED root
    /\ UNCHANGED <<at, oldSystem, readme, keptDirs, dest, moved, rollback, restoring, user>>

(* The README; when it cannot be written, the root is removed if it can.   *)
WriteReadme ==
    /\ pc = "readme"
    /\ \/ readme' = TRUE /\ pc' = "move" /\ UNCHANGED <<root, stage, faults>>
       \/ /\ Fault /\ Refuse("Reversible")
          /\ readme' \in BOOLEAN
          /\ root' = readme'
    /\ UNCHANGED <<at, oldSystem, keptDirs, dest, moved, rollback, restoring, user>>

Place(f, where) == [e \in Entry |-> IF e \in Within(f) THEN where ELSE at[e]]

(* create_dir_all of the profile directory, then one write-through rename; *)
(* the directory may have been created when the rename fails.              *)
MoveDirectory ==
    /\ pc = "move" /\ moved # Folders
    /\ LET f == Earliest(Folders \ moved, Sorted) IN
       \/ /\ at' = Place(f, "kept")
          /\ keptDirs' = keptDirs \cup {f.owner}
          /\ moved' = moved \cup {f}
          /\ UNCHANGED <<pc, faults>>
       \/ /\ Fault
          /\ keptDirs' \in {keptDirs, keptDirs \cup {f.owner}}
          /\ pc' = "rollback"
          /\ UNCHANGED <<at, moved>>
    /\ UNCHANGED <<oldSystem, root, readme, dest, rollback, stage, restoring, user>>

(* rollback_moves: in reverse order, past the renames that cannot be undone. *)
RollbackMove ==
    /\ pc = "rollback" /\ moved # {}
    /\ LET f == Latest(moved, Sorted) IN
       /\ moved' = moved \ {f}
       /\ \/ at' = Place(f, "users") /\ UNCHANGED <<rollback, faults>>
          \/ Fault /\ rollback' = TRUE /\ UNCHANGED at
    /\ UNCHANGED <<oldSystem, root, readme, keptDirs, dest, pc, stage, restoring, user>>

Occupied == {f.owner : f \in {g \in Folders : at[g] = "kept"}}

CleanupRoot_RemoveTree ==
    /\ pc = "rollback" /\ moved = {}
    /\ at' = [e \in Entry |-> IF at[e] = "kept" THEN "gone" ELSE at[e]]
    /\ readme' = FALSE /\ keptDirs' = {} /\ root' = FALSE
    /\ Refuse(IF rollback THEN "RollbackIncomplete" ELSE "Reversible")
    /\ UNCHANGED <<oldSystem, dest, moved, rollback, restoring, faults, user>>

CleanupRoot_AlwaysReversible ==
    /\ pc = "rollback" /\ moved = {}
    /\ readme' = FALSE
    /\ keptDirs' = keptDirs \cap Occupied
    /\ root' = (keptDirs' # {})
    /\ Refuse("Reversible")
    /\ UNCHANGED <<at, oldSystem, dest, moved, rollback, restoring, faults, user>>

(* cleanup_empty_preservation_root: remove_dir removes empty directories   *)
(* only, and its failures do not change the stage that is reported.        *)
CleanupRoot ==
    /\ pc = "rollback" /\ moved = {}
    /\ \/ /\ readme' = FALSE
          /\ keptDirs' = keptDirs \cap Occupied
          /\ UNCHANGED faults
       \/ /\ Fault
          /\ readme' \in BOOLEAN
          /\ \E S \in SUBSET (keptDirs \ Occupied) : keptDirs' = keptDirs \ S
    /\ root' = (readme' \/ keptDirs' # {})
    /\ Refuse(IF rollback THEN "RollbackIncomplete" ELSE "Reversible")
    /\ UNCHANGED <<at, oldSystem, dest, moved, rollback, restoring, user>>

(* Every directory is kept: on_irreversible, then the shortcuts into the   *)
(* old system are deleted from the preserved desktops, one by one.         *)
DeleteShortcuts ==
    /\ pc = "move" /\ moved = Folders
    /\ \/ /\ at' = [e \in Entry |-> IF Kind[e] = "shortcut" THEN "gone" ELSE at[e]]
          /\ pc' = "delete"
          /\ UNCHANGED <<stage, faults>>
       \/ /\ Fault /\ Refuse("OldSystemDeletionStarted")
          /\ \E S \in SUBSET {e \in Entry : Kind[e] = "shortcut"} :
                at' = [e \in Entry |-> IF e \in S THEN "gone" ELSE at[e]]
    /\ UNCHANGED <<oldSystem, root, readme, keptDirs, dest, moved, rollback, restoring, user>>

(* The old-system roots, "Users" among them, and the old-system files.     *)
(* Whatever is still below "Users" goes with it.                           *)
DeleteOldSystem ==
    /\ pc = "delete"
    /\ LET below == {e \in Entry : at[e] = "users"} IN
       \/ /\ oldSystem' = "gone"
          /\ at' = [e \in Entry |-> IF e \in below THEN "gone" ELSE at[e]]
          /\ pc' = "preserved"
          /\ UNCHANGED <<stage, faults>>
       \/ /\ Fault /\ Refuse("OldSystemDeletionStarted")
          /\ oldSystem' = "partly"
          /\ \E S \in SUBSET below :
                at' = [e \in Entry |-> IF e \in S THEN "gone" ELSE at[e]]
    /\ UNCHANGED <<root, readme, keptDirs, dest, moved, rollback, restoring, user>>

(* External: the image is applied and Windows reaches the first logon.     *)
FirstLogon ==
    /\ pc = "preserved" /\ pc' = "idle"
    /\ UNCHANGED <<disk, preserving, restoring, faults, user>>

----------------------------------------------------------------------------
(* Restoration, at the first logon and again at later ones.                *)

Forget == profiles' = {} /\ folders' = {} /\ stack' = <<>> /\ cur' = NoWork

(* Every error of the restoration ends it; what is on disk stays.          *)
Abort(p) == pc' = p /\ Forget

(* create_dir_all of every known folder, present or not.                   *)
MakeFolders == [p \in DOMAIN dest \cup {KnownFolder(f) : f \in Folders} |->
                   IF Exists(p) THEN dest[p] ELSE Dir]

StartRestore_Once ==
    /\ pc = "idle"
    /\ root /\ keptDirs # {}
    /\ dest' = MakeFolders
    /\ pc' = "restore" /\ profiles' = keptDirs
    /\ folders' = {} /\ stack' = <<>> /\ cur' = NoWork
    /\ UNCHANGED <<at, oldSystem, root, readme, keptDirs, preserving, faults, user>>

(* restore_preserved_personal_files_to: the root and at least one profile  *)
(* must exist, or the attempt is refused; the known folders are made       *)
(* between the two checks.                                                 *)
StartRestore ==
    /\ pc \in {"idle", "aborted"}
    /\ dest' = IF root THEN MakeFolders ELSE dest
    /\ IF root /\ keptDirs # {}
         THEN pc' = "restore" /\ profiles' = keptDirs
         ELSE pc' = "refused" /\ profiles' = {}
    /\ folders' = {} /\ stack' = <<>> /\ cur' = NoWork
    /\ UNCHANGED <<at, oldSystem, root, readme, keptDirs, preserving, faults, user>>

KeptFolders(p) == {f \in Folders : f.owner = p /\ at[f] = "kept"}
Kept(entries)  == {e \in entries : at[e] = "kept"}
Profile        == Earliest(profiles, Profiles)

(* A profile's preserved directories are merged one after another.         *)
VisitProfile ==
    /\ pc = "restore" /\ profiles # {}
    /\ folders' = KeptFolders(Profile)
    /\ pc' = "profile"
    /\ UNCHANGED <<disk, preserving, profiles, stack, cur, faults, user>>

Frame(d, place) == [dir |-> d, place |-> place, todo |-> Kept(Children(d))]

(* merge_preserved_directory of a known folder.                            *)
VisitFolder ==
    /\ pc = "profile" /\ folders # {}
    /\ LET f == Earliest(folders, Sorted) IN
       /\ dest' = Put(KnownFolder(f), Dir)
       /\ stack' = <<Frame(f, KnownFolder(f))>>
       /\ folders' = folders \ {f}
    /\ pc' = "merge"
    /\ UNCHANGED <<at, oldSystem, root, readme, keptDirs, preserving, profiles, cur, faults, user>>

Top      == stack[Len(stack)]
Upcoming == Earliest(Top.todo, Sorted)
Advance  == [stack EXCEPT ![Len(stack)].todo = @ \ {Upcoming}]

(* unique_conflict_destination: the first free ordinal, if there is one.   *)
FreeOrdinals(place, e) ==
    {k \in 1..MaxOrdinal : ~Exists(Under(place, Conflict(Last(e.path), e.owner, k)))}
Target(place, e) ==
    LET plain == Under(place, Plain(Last(e.path)))
        free  == FreeOrdinals(place, e)
    IN  IF ~Exists(plain) THEN plain
        ELSE Under(place, Conflict(Last(e.path), e.owner,
                                   CHOOSE k \in free : \A j \in free : k <= j))
Allocatable(place, e) == Exists(Under(place, Plain(Last(e.path)))) => FreeOrdinals(place, e) # {}

(* The old desktop.ini is discarded.                                       *)
DiscardMetadata(e) ==
    /\ Kind[e] = "ini"
    /\ at' = [at EXCEPT ![e] = "gone"]
    /\ stack' = Advance
    /\ UNCHANGED <<dest, pc, cur>>

(* A directory is merged into the directory of its name, or into a new one. *)
Merges(plain) == Exists(plain) /\ dest[plain] = Dir
EnterDirectory(e) ==
    LET plain == Under(Top.place, Plain(Last(e.path)))
        into  == IF Merges(plain) THEN plain ELSE Target(Top.place, e)
    IN  /\ Kind[e] = "dir"
        /\ Merges(plain) \/ Allocatable(Top.place, e)
        /\ dest' = Put(into, Dir)
        /\ stack' = Append(Advance, Frame(e, into))
        /\ UNCHANGED <<at, pc, cur>>

(* The place of a file or of a link is chosen; it is taken in the next step. *)
ChoosePlace(e) ==
    /\ Kind[e] \in {"file", "link"}
    /\ Allocatable(Top.place, e)
    /\ cur' = [entry |-> e, place |-> Target(Top.place, e)]
    /\ stack' = Advance
    /\ pc' = "open"
    /\ UNCHANGED <<at, dest>>

MergeEntry ==
    /\ pc = "merge" /\ Top.todo # {}
    /\ DiscardMetadata(Upcoming) \/ EnterDirectory(Upcoming) \/ ChoosePlace(Upcoming)
    /\ UNCHANGED <<oldSystem, root, readme, keptDirs, preserving, profiles, folders, faults, user>>

OpenPlace_Truncate ==
    /\ pc = "open"
    /\ dest' = Put(cur.place, Torn)
    /\ pc' = "copy"
    /\ UNCHANGED <<at, cur, oldSystem, root, readme, keptDirs, preserving, profiles, folders, stack, faults, user>>

(* create_new makes an empty file of its own or fails; a link is renamed   *)
(* without replacing anything.                                             *)
OpenPlace ==
    /\ pc = "open" /\ ~Exists(cur.place)
    /\ IF Kind[cur.entry] = "link"
         THEN /\ dest' = Put(cur.place, Copy(cur.entry))
              /\ at' = [at EXCEPT ![cur.entry] = "gone"]
              /\ pc' = "merge" /\ cur' = NoWork
         ELSE /\ dest' = Put(cur.place, Torn)
              /\ pc' = "copy"
              /\ UNCHANGED <<at, cur>>
    /\ UNCHANGED <<oldSystem, root, readme, keptDirs, preserving, profiles, folders, stack, faults, user>>

(* The copy is complete and synced, or its destination is removed again,   *)
(* which may fail too.                                                     *)
CopyFile ==
    /\ pc = "copy"
    /\ \/ dest' = Put(cur.place, Copy(cur.entry)) /\ pc' = "unlink" /\ UNCHANGED <<restoring, faults>>
       \/ Fault /\ dest' \in {dest, Vacate(cur.place)} /\ Abort("aborted")
    /\ UNCHANGED <<at, oldSystem, root, readme, keptDirs, preserving, user>>

(* Only now is the preserved file deleted.                                 *)
UnlinkSource ==
    /\ pc = "unlink"
    /\ at' = [at EXCEPT ![cur.entry] = "gone"]
    /\ cur' = NoWork /\ pc' = "merge"
    /\ UNCHANGED <<oldSystem, root, readme, keptDirs, dest, preserving, profiles, folders, stack, faults, user>>

(* A merged directory is deleted when nothing is left in it.               *)
LeaveDirectory ==
    /\ pc = "merge" /\ Top.todo = {}
    /\ Kept(Children(Top.dir)) = {}
    /\ at' = [at EXCEPT ![Top.dir] = "gone"]
    /\ stack' = Front(stack)
    /\ pc' = IF Len(stack) = 1 THEN "profile" ELSE "merge"
    /\ UNCHANGED <<oldSystem, root, readme, keptDirs, dest, preserving, profiles, folders, cur, faults, user>>

(* ... and so is a profile directory.                                      *)
LeaveProfile ==
    /\ pc = "profile" /\ folders = {}
    /\ KeptFolders(Profile) = {}
    /\ keptDirs' = keptDirs \ {Profile}
    /\ profiles' = profiles \ {Profile}
    /\ pc' = "restore"
    /\ UNCHANGED <<at, oldSystem, root, readme, dest, preserving, folders, stack, cur, faults, user>>

(* The README, then the root; nothing else may be left in it.              *)
RemoveReadme ==
    /\ pc = "restore" /\ profiles = {}
    /\ readme' = FALSE /\ pc' = "finish"
    /\ UNCHANGED <<at, oldSystem, root, keptDirs, dest, preserving, restoring, faults, user>>

RemoveRoot ==
    /\ pc = "finish" /\ keptDirs = {}
    /\ root' = FALSE /\ pc' = "restored"
    /\ UNCHANGED <<at, oldSystem, readme, keptDirs, dest, preserving, restoring, faults, user>>

RestorePc == {"restore", "profile", "merge", "open", "copy", "unlink", "finish"}

(* Any other call of the restoration fails: it ends where it stands.  So   *)
(* it does when no conflict name is free, and when the place chosen has    *)
(* been taken meanwhile.                                                   *)
RestoreFails ==
    /\ pc \in RestorePc
    /\ \/ Fault
       \/ pc = "open" /\ Exists(cur.place) /\ UNCHANGED faults
       \/ /\ pc = "merge" /\ Top.todo # {} /\ Kind[Upcoming] # "ini"
          /\ ~Allocatable(Top.place, Upcoming)
          /\ ~(Kind[Upcoming] = "dir" /\ Merges(Under(Top.place, Plain(Last(Upcoming.path)))))
          /\ UNCHANGED faults
    /\ Abort("aborted")
    /\ UNCHANGED <<disk, preserving, user>>

----------------------------------------------------------------------------
(* Power loss.  WinPE does not resume the task; the restoration is started *)
(* again at the next logon.                                                *)
PowerLoss ==
    /\ Fault
    /\ \/ pc \in {"readme", "move", "rollback", "delete"} /\ Abort("dead")
       \/ pc \in RestorePc /\ Abort("aborted")
    /\ UNCHANGED <<disk, preserving, user>>

(* The user saves a file in one of the new known folders.                  *)
UserCreates ==
    /\ pc \in RestorePc /\ user < MaxUser
    /\ user' = user + 1
    /\ \E f \in Folders, e \in Personal :
          LET p == Under(KnownFolder(f), Plain(Last(e.path)))
          IN  ~Exists(p) /\ dest' = Put(p, New)
    /\ UNCHANGED <<at, oldSystem, root, readme, keptDirs, pc, preserving, restoring, faults>>

Preserve == CreateRoot \/ WriteReadme \/ MoveDirectory \/ RollbackMove \/ CleanupRoot
            \/ DeleteShortcuts \/ DeleteOldSystem \/ FirstLogon
Restore  == StartRestore \/ VisitProfile \/ VisitFolder \/ MergeEntry \/ OpenPlace \/ CopyFile
            \/ UnlinkSource \/ LeaveDirectory \/ LeaveProfile \/ RemoveReadme \/ RemoveRoot
            \/ RestoreFails

Next == Preserve \/ Restore \/ PowerLoss \/ UserCreates

(* A logon starts the restoration, and a running procedure goes on.        *)
Spec == Init /\ [][Next]_vars /\ WF_vars(Restore)

----------------------------------------------------------------------------

(* A file counts as restored in the known folder of its own directory,     *)
(* below the directories it was in, whatever was renamed to avoid a        *)
(* collision, and a collision is named after the profile it comes from.    *)
PlacedRight(p, e) ==
    /\ p.scope = "public" <=> e.owner = Public
    /\ [i \in DOMAIN p.names |-> p.names[i].base] = e.path
    /\ Last(p.names).from \in {"none", e.owner}

Restored(e) == \E p \in DOMAIN dest : dest[p] = Copy(e) /\ PlacedRight(p, e)

(* Every personal file is complete somewhere at every moment: in the old   *)
(* profile, in the preservation root or in the new profile.  A failing     *)
(* rename, a rollback, the deletion of "Users", a failing or interrupted   *)
(* copy and any number of repeated restorations never lose one.            *)
NothingLost == \A e \in Personal : at[e] # "gone" \/ Restored(e)

(* The stage a failed preservation reports is true: "Reversible" means     *)
(* that every directory is back in its profile and the old system was not  *)
(* touched; "RollbackIncomplete" that the old system was not touched.  A   *)
(* restoration that succeeded, or was refused because it found no          *)
(* preservation root or no profile in it, has left no file behind.         *)
TruthfulStage ==
    /\ stage = "Reversible" => oldSystem = "intact" /\ \A e \in Entry : at[e] = "users"
    /\ stage = "RollbackIncomplete" => oldSystem = "intact" /\ root
    /\ pc \in {"refused", "restored"} => \A e \in Personal : at[e] = "gone"

(* No step of the restoration overwrites or removes a file of the new      *)
(* profile, or a copy that is already complete.                            *)
NeverOverwrites ==
    [][\A p \in DOMAIN dest : dest[p].is \in {"new", "copy"} =>
          p \in DOMAIN dest' /\ dest'[p] = dest[p]]_vars

(* Once the new system has been reached every personal file is restored,   *)
(* however often the restoration is interrupted and started again.         *)
EverythingRestored == (pc = "idle") ~> (\A e \in Personal : Restored(e) /\ at[e] = "gone")
=============================================================================
