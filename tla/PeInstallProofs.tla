-------------------------- MODULE PeInstallProofs ---------------------------
(***************************************************************************)
(* Proofs about the installation worker: for every set of tasks, what it   *)
(* reports agrees with the disk, its source is there when it is read, and  *)
(* a failure keeps what a retry needs.                                     *)
(***************************************************************************)
EXTENDS PeInstall, TLAPS

Before == {"authenticate", "preflight", "removeEntry", "releaseMarker", "planCapacity"}
Undo   == {"undoEntry", "undoMarkers", "undoDual", "undoStaging", "undoReport"}
Line   == {"repartition", "preserve", "deleteOld", "format"}
Write  == {"firstWrite", "reassemble", "apply", "reformat"}
Whole  == {"setup", "repairBoot", "unattend", "storage", "cleanup", "unstage", "report"}

TypeInv ==
    /\ task \in Task
    /\ pc \in Before \cup Undo \cup Line \cup Write \cup Whole \cup {"done"}
    /\ verdict \in Verdict /\ (verdict # "none" <=> pc = "done")
    /\ entry \in BOOLEAN /\ marker \in BOOLEAN /\ held \in BOOLEAN
    /\ payload \in BOOLEAN /\ locator \in BOOLEAN /\ staging \in BOOLEAN /\ dual \in BOOLEAN
    /\ critical \in BOOLEAN /\ warned \in BOOLEAN /\ undone \in BOOLEAN
    /\ attempt \in Nat \ {0}

(* Which tasks come to which step.                                         *)
PathInv ==
    /\ pc \in {"removeEntry", "releaseMarker", "planCapacity"} \cup Line \cup Write =>
          ~Refused(task)
    /\ pc \in {"planCapacity", "format", "reassemble", "reformat"} => FormatTarget(task)
    /\ pc = "repartition" => task.mode = "fullDisk"
    /\ pc = "preserve" => task.preserve
    /\ pc = "deleteOld" => task.inPlace /\ ~task.preserve
    /\ pc = "reassemble" => task.chunked
    /\ pc \in {"firstWrite", "reformat"} => ~task.chunked
    /\ pc = "firstWrite" => ~FormatTarget(task)
    /\ task.chunked => ladder = <<Uncompressed>>

(* The old system, up to the first write, and the new one after the last.  *)
DiskInv ==
    /\ pc \in Before \cup Undo \cup Line =>
          target = Untouched(task) /\ personal = "home" /\ boot = "old"
    /\ pc \in {"firstWrite", "reassemble", "apply"} => "half" \notin target
    /\ pc \in {"reassemble", "apply"} /\ FormatTarget(task) => target = {}
    /\ pc = "apply" /\ task.chunked => rebuilt = "whole"
    /\ pc \in Whole => /\ "new" \in target /\ "half" \notin target
                       /\ FormatTarget(task) => target = {"new"}
    /\ pc \in Whole \ {"setup", "repairBoot"} /\ task.repair /\ task.kind # "xp" => boot = "new"
    /\ pc \in Write \cup Whole /\ task.preserve => personal = "moved"
    /\ pc \in {"cleanup", "unstage", "report"} /\ critical => warned
    /\ pc \in Before \cup Undo \cup Line \cup Write => ~critical

Staged == payload /\ locator /\ (staging <=> task.home = "partition")

(* The staged files and the partition they may lie on.                     *)
StagingInv ==
    /\ pc \notin Undo \cup {"unstage", "report", "done"} => Staged
    /\ staging => task.home = "partition"
    /\ task.home = "partition" => (staging <=> payload) /\ (staging <=> locator)
    /\ pc = "unstage" /\ ~warned => (locator <=> task.home = "partition")
    /\ pc = "report" /\ ~warned => ~staging /\ ~locator

(* What the rollback before the first write has taken back, unless it has  *)
(* met an error.  A marker given up too early is only left behind when the *)
(* boot entry is gone, which the rollback counts as an error.              *)
UndoInv ==
    /\ dual => task.mode = "dualBoot"
    /\ pc \in {"authenticate", "preflight", "removeEntry"} => held
    /\ pc \in {"releaseMarker", "planCapacity", "preserve"} => ~entry
    /\ pc = "undoEntry" => held \/ ~entry
    /\ pc \in Undo \ {"undoEntry"} /\ undone => ~entry /\ held
    /\ pc \in {"undoDual", "undoStaging", "undoReport"} /\ undone => ~marker
    /\ pc \in {"undoStaging", "undoReport"} /\ undone => ~dual
    /\ pc = "undoReport" /\ undone => ~staging

IInv ==
    /\ TypeInv /\ PathInv /\ DiskInv /\ StagingInv /\ UndoInv
    /\ PrewriteTruthful /\ CompletedMeansInstalled /\ RetryMaterialKept

----------------------------------------------------------------------------

(* What deserialize_install_config and the Windows side guarantee of a     *)
(* task.                                                                   *)
LEMMA TaskFacts ==
    ASSUME NEW t \in Task
    PROVE  /\ t.mode \in Mode /\ t.kind \in Kind /\ t.home \in Home
           /\ t.format \in BOOLEAN /\ t.preserve \in BOOLEAN /\ t.inPlace \in BOOLEAN
           /\ t.chunked \in BOOLEAN /\ t.repair \in BOOLEAN
           /\ t.preserve => ~t.format /\ t.kind = "wim" /\ t.mode = "reinstall"
           /\ t.inPlace => t.home = "target" /\ t.mode = "reinstall" /\ t.kind = "wim"
           /\ t.chunked => t.home = "scatter" /\ t.kind = "wim"
  BY DEF Task

(* Before the worker has begun, everything the Windows side staged is      *)
(* there and the old system is whole.                                      *)
LEMMA InitIInv == Init => IInv
<1> SUFFICES ASSUME Init PROVE IInv
  OBVIOUS
<1> USE DEF Init, Before, Undo, Line, Write, Whole
<1>1. task \in Task
  BY TasksAssumption
<1>a. staging \in BOOLEAN /\ dual \in BOOLEAN
  BY Zenon
<1>2. TypeInv
  <2>1. /\ pc \in Before /\ verdict \in Verdict /\ (verdict # "none" <=> pc = "done")
        /\ attempt \in Nat \ {0}
    BY DEF Verdict
  <2> QED
    BY <1>1, <1>a, <2>1, Zenon DEF TypeInv
<1>3. PathInv /\ DiskInv
  BY DEF PathInv, DiskInv
<1>4. StagingInv
  BY <1>1, TaskFacts DEF StagingInv, Staged
<1>5. UndoInv
  BY DEF UndoInv
<1>6. PrewriteTruthful /\ CompletedMeansInstalled /\ RetryMaterialKept
  BY DEF PrewriteTruthful, CompletedMeansInstalled, RetryMaterialKept
<1> QED
  BY <1>2, <1>3, <1>4, <1>5, <1>6 DEF IInv

(* Every step of the worker preserves the invariant.                       *)
LEMMA NextIInv == IInv /\ [Next]_vars => IInv'
<1> SUFFICES ASSUME IInv, [Next]_vars PROVE IInv'
  OBVIOUS
<1> USE DEF IInv, Before, Undo, Line, Write, Whole, Goto, Fail, Prewrite,
            disk, session, retry, flow
<1>t. /\ task.mode \in Mode /\ task.kind \in Kind /\ task.home \in Home
      /\ task.format \in BOOLEAN /\ task.preserve \in BOOLEAN /\ task.inPlace \in BOOLEAN
      /\ task.chunked \in BOOLEAN /\ task.repair \in BOOLEAN
      /\ task.preserve => ~task.format /\ task.kind = "wim" /\ task.mode = "reinstall"
      /\ task.inPlace => task.home = "target" /\ task.mode = "reinstall" /\ task.kind = "wim"
      /\ task.chunked => task.home = "scatter" /\ task.kind = "wim"
      /\ ~Refused(task) => /\ task.chunked => task.format /\ task.mode = "reinstall"
                           /\ task.home = "target" => task.inPlace
  BY TaskFacts DEF TypeInv, Refused, ChunksUnformatted, SourceOnTarget
<1>1. CASE Authenticate
  <2>1. TypeInv'
    BY <1>1, <1>t DEF Authenticate, TypeInv, Verdict
  <2>2. PathInv'
    BY <1>1, <1>t DEF Authenticate, TypeInv, PathInv, FormatTarget
  <2>3. DiskInv'
    BY <1>1, <1>t DEF Authenticate, TypeInv, PathInv, DiskInv, Untouched, FormatTarget
  <2>4. StagingInv'
    BY <1>1, <1>t DEF Authenticate, TypeInv, PathInv, StagingInv, Staged, FormatTarget
  <2>5. UndoInv'
    BY <1>1, <1>t DEF Authenticate, TypeInv, UndoInv, StagingInv
  <2>6. PrewriteTruthful'
    BY <1>1, <1>t DEF Authenticate, TypeInv, DiskInv, UndoInv, PrewriteTruthful, Untouched
  <2>7. CompletedMeansInstalled'
    BY <1>1, <1>t DEF Authenticate, TypeInv, DiskInv, CompletedMeansInstalled, FormatTarget
  <2>8. RetryMaterialKept'
    BY <1>1, <1>t DEF Authenticate, TypeInv, PathInv, StagingInv, Staged, RetryMaterialKept,
        FormatTarget
  <2> QED
    BY <2>1, <2>2, <2>3, <2>4, <2>5, <2>6, <2>7, <2>8
<1>2. CASE Preflight
  <2>1. TypeInv'
    BY <1>2, <1>t DEF Preflight, TypeInv, Verdict
  <2>2. PathInv'
    BY <1>2, <1>t DEF Preflight, TypeInv, PathInv, FormatTarget
  <2>3. DiskInv'
    BY <1>2, <1>t DEF Preflight, TypeInv, PathInv, DiskInv, Untouched, FormatTarget
  <2>4. StagingInv'
    BY <1>2, <1>t DEF Preflight, TypeInv, PathInv, StagingInv, Staged, FormatTarget
  <2>5. UndoInv'
    BY <1>2, <1>t DEF Preflight, TypeInv, UndoInv, StagingInv
  <2>6. PrewriteTruthful'
    BY <1>2, <1>t DEF Preflight, TypeInv, DiskInv, UndoInv, PrewriteTruthful, Untouched
  <2>7. CompletedMeansInstalled'
    BY <1>2, <1>t DEF Preflight, TypeInv, DiskInv, CompletedMeansInstalled, FormatTarget
  <2>8. RetryMaterialKept'
    BY <1>2, <1>t DEF Preflight, TypeInv, PathInv, StagingInv, Staged, RetryMaterialKept,
        FormatTarget
  <2> QED
    BY <2>1, <2>2, <2>3, <2>4, <2>5, <2>6, <2>7, <2>8
<1>3. CASE RemoveEntry
  <2>1. TypeInv'
    BY <1>3, <1>t DEF RemoveEntry, TypeInv, Verdict
  <2>2. PathInv'
    BY <1>3, <1>t DEF RemoveEntry, TypeInv, PathInv, FormatTarget
  <2>3. DiskInv'
    BY <1>3, <1>t DEF RemoveEntry, TypeInv, PathInv, DiskInv, Untouched, FormatTarget
  <2>4. StagingInv'
    BY <1>3, <1>t DEF RemoveEntry, TypeInv, PathInv, StagingInv, Staged, FormatTarget
  <2>5. UndoInv'
    BY <1>3, <1>t DEF RemoveEntry, TypeInv, UndoInv, StagingInv
  <2>6. PrewriteTruthful'
    BY <1>3, <1>t DEF RemoveEntry, TypeInv, DiskInv, UndoInv, PrewriteTruthful, Untouched
  <2>7. CompletedMeansInstalled'
    BY <1>3, <1>t DEF RemoveEntry, TypeInv, DiskInv, CompletedMeansInstalled, FormatTarget
  <2>8. RetryMaterialKept'
    BY <1>3, <1>t DEF RemoveEntry, TypeInv, PathInv, StagingInv, Staged, RetryMaterialKept,
        FormatTarget
  <2> QED
    BY <2>1, <2>2, <2>3, <2>4, <2>5, <2>6, <2>7, <2>8
<1>4. CASE ReleaseMarker
  <2>1. TypeInv'
    <3>1. /\ entry' \in BOOLEAN /\ marker' \in BOOLEAN /\ held' \in BOOLEAN
          /\ payload' \in BOOLEAN /\ locator' \in BOOLEAN /\ staging' \in BOOLEAN
          /\ dual' \in BOOLEAN /\ critical' \in BOOLEAN /\ warned' \in BOOLEAN
          /\ undone' \in BOOLEAN
      BY <1>4 DEF ReleaseMarker, TypeInv
    <3>2. /\ task' = task /\ attempt' = attempt
          /\ pc' \in Before \cup Undo \cup Line \cup Write \cup Whole \cup {"done"}
          /\ verdict' \in Verdict /\ (verdict' # "none" <=> pc' = "done")
      BY <1>4, <1>t DEF ReleaseMarker, EraseStep, TypeInv, Verdict
    <3> QED
      BY <3>1, <3>2 DEF TypeInv
  <2>2. PathInv'
    BY <1>4, <1>t DEF ReleaseMarker, EraseStep, TypeInv, PathInv, FormatTarget
  <2>3. DiskInv'
    BY <1>4, <1>t DEF ReleaseMarker, EraseStep, TypeInv, PathInv, DiskInv, Untouched, FormatTarget
  <2>4. StagingInv'
    BY <1>4, <1>t DEF ReleaseMarker, EraseStep, TypeInv, PathInv, StagingInv, Staged, FormatTarget
  <2>5. UndoInv'
    BY <1>4, <1>t DEF ReleaseMarker, EraseStep, TypeInv, UndoInv, StagingInv
  <2>6. PrewriteTruthful'
    BY <1>4, <1>t DEF ReleaseMarker, EraseStep, TypeInv, DiskInv, UndoInv, PrewriteTruthful,
        Untouched
  <2>7. CompletedMeansInstalled'
    BY <1>4, <1>t DEF ReleaseMarker, EraseStep, TypeInv, DiskInv, CompletedMeansInstalled,
        FormatTarget
  <2>8. RetryMaterialKept'
    BY <1>4, <1>t DEF ReleaseMarker, EraseStep, TypeInv, PathInv, StagingInv, Staged,
        RetryMaterialKept, FormatTarget
  <2> QED
    BY <2>1, <2>2, <2>3, <2>4, <2>5, <2>6, <2>7, <2>8
<1>5. CASE PlanCapacity
  <2>a. task.chunked => Ladder(task) = <<Uncompressed>>
    BY <1>t DEF Ladder
  <2>1. TypeInv'
    BY <1>5, <1>t, <2>a DEF PlanCapacity, TypeInv, Verdict
  <2>2. PathInv'
    BY <1>5, <1>t, <2>a DEF PlanCapacity, TypeInv, PathInv, FormatTarget
  <2>3. DiskInv'
    BY <1>5, <1>t, <2>a DEF PlanCapacity, TypeInv, PathInv, DiskInv, Untouched, FormatTarget
  <2>4. StagingInv'
    BY <1>5, <1>t, <2>a DEF PlanCapacity, TypeInv, PathInv, StagingInv, Staged, FormatTarget
  <2>5. UndoInv'
    BY <1>5, <1>t, <2>a DEF PlanCapacity, TypeInv, UndoInv, StagingInv
  <2>6. PrewriteTruthful'
    BY <1>5, <1>t, <2>a DEF PlanCapacity, TypeInv, DiskInv, UndoInv, PrewriteTruthful, Untouched
  <2>7. CompletedMeansInstalled'
    BY <1>5, <1>t, <2>a DEF PlanCapacity, TypeInv, DiskInv, CompletedMeansInstalled, FormatTarget
  <2>8. RetryMaterialKept'
    BY <1>5, <1>t, <2>a DEF PlanCapacity, TypeInv, PathInv, StagingInv, Staged,
        RetryMaterialKept, FormatTarget
  <2> QED
    BY <2>1, <2>2, <2>3, <2>4, <2>5, <2>6, <2>7, <2>8
<1>6. CASE UndoEntry
  <2>1. TypeInv'
    BY <1>6, <1>t DEF UndoEntry, TypeInv, Verdict
  <2>2. PathInv'
    BY <1>6, <1>t DEF UndoEntry, TypeInv, PathInv, FormatTarget
  <2>3. DiskInv'
    BY <1>6, <1>t DEF UndoEntry, TypeInv, PathInv, DiskInv, Untouched, FormatTarget
  <2>4. StagingInv'
    BY <1>6, <1>t DEF UndoEntry, TypeInv, PathInv, StagingInv, Staged, FormatTarget
  <2>5. UndoInv'
    BY <1>6, <1>t DEF UndoEntry, TypeInv, UndoInv, StagingInv
  <2>6. PrewriteTruthful'
    BY <1>6, <1>t DEF UndoEntry, TypeInv, DiskInv, UndoInv, PrewriteTruthful, Untouched
  <2>7. CompletedMeansInstalled'
    BY <1>6, <1>t DEF UndoEntry, TypeInv, DiskInv, CompletedMeansInstalled, FormatTarget
  <2>8. RetryMaterialKept'
    BY <1>6, <1>t DEF UndoEntry, TypeInv, PathInv, StagingInv, Staged, RetryMaterialKept,
        FormatTarget
  <2> QED
    BY <2>1, <2>2, <2>3, <2>4, <2>5, <2>6, <2>7, <2>8
<1>7. CASE UndoMarkers
  <2>1. TypeInv'
    <3>1. /\ entry' \in BOOLEAN /\ marker' \in BOOLEAN /\ held' \in BOOLEAN
          /\ payload' \in BOOLEAN /\ locator' \in BOOLEAN /\ staging' \in BOOLEAN
          /\ dual' \in BOOLEAN /\ critical' \in BOOLEAN /\ warned' \in BOOLEAN
          /\ undone' \in BOOLEAN
      BY <1>7 DEF UndoMarkers, TypeInv
    <3>2. /\ task' = task /\ attempt' = attempt
          /\ pc' \in Before \cup Undo \cup Line \cup Write \cup Whole \cup {"done"}
          /\ verdict' \in Verdict /\ (verdict' # "none" <=> pc' = "done")
      BY <1>7, <1>t DEF UndoMarkers, TypeInv, Verdict
    <3> QED
      BY <3>1, <3>2 DEF TypeInv
  <2>2. PathInv'
    BY <1>7, <1>t DEF UndoMarkers, TypeInv, PathInv, FormatTarget
  <2>3. DiskInv'
    BY <1>7, <1>t DEF UndoMarkers, TypeInv, PathInv, DiskInv, Untouched, FormatTarget
  <2>4. StagingInv'
    BY <1>7, <1>t DEF UndoMarkers, TypeInv, PathInv, StagingInv, Staged, FormatTarget
  <2>5. UndoInv'
    BY <1>7, <1>t DEF UndoMarkers, TypeInv, UndoInv, StagingInv
  <2>6. PrewriteTruthful'
    BY <1>7, <1>t DEF UndoMarkers, TypeInv, DiskInv, UndoInv, PrewriteTruthful, Untouched
  <2>7. CompletedMeansInstalled'
    BY <1>7, <1>t DEF UndoMarkers, TypeInv, DiskInv, CompletedMeansInstalled, FormatTarget
  <2>8. RetryMaterialKept'
    BY <1>7, <1>t DEF UndoMarkers, TypeInv, PathInv, StagingInv, Staged, RetryMaterialKept,
        FormatTarget
  <2> QED
    BY <2>1, <2>2, <2>3, <2>4, <2>5, <2>6, <2>7, <2>8
<1>8. CASE UndoDual
  <2>a. /\ undone' => undone /\ (task.mode = "dualBoot" => ~dual')
        /\ task.mode # "dualBoot" => dual' = dual
    <3>1. CASE task.mode # "dualBoot" /\ UNCHANGED <<dual, undone>>
      BY <3>1
    <3>2. CASE task.mode = "dualBoot" /\ held /\ dual' = FALSE /\ UNCHANGED undone
      BY <3>2
    <3>3. CASE task.mode = "dualBoot" /\ dual' \in {TRUE, ~held} /\ undone' = FALSE
      BY <3>3
    <3> QED
      BY <1>8, <3>1, <3>2, <3>3 DEF UndoDual
  <2>1. TypeInv'
    BY <1>8, <1>t, <2>a DEF UndoDual, TypeInv, Verdict
  <2>2. PathInv'
    BY <1>8, <1>t, <2>a DEF UndoDual, TypeInv, PathInv, FormatTarget
  <2>3. DiskInv'
    BY <1>8, <1>t, <2>a DEF UndoDual, TypeInv, PathInv, DiskInv, Untouched, FormatTarget
  <2>4. StagingInv'
    BY <1>8, <1>t, <2>a DEF UndoDual, TypeInv, PathInv, StagingInv, Staged, FormatTarget
  <2>5. UndoInv'
    BY <1>8, <1>t, <2>a DEF UndoDual, TypeInv, UndoInv, StagingInv
  <2>6. PrewriteTruthful'
    BY <1>8, <1>t, <2>a DEF UndoDual, TypeInv, DiskInv, UndoInv, PrewriteTruthful, Untouched
  <2>7. CompletedMeansInstalled'
    BY <1>8, <1>t, <2>a DEF UndoDual, TypeInv, DiskInv, CompletedMeansInstalled, FormatTarget
  <2>8. RetryMaterialKept'
    BY <1>8, <1>t, <2>a DEF UndoDual, TypeInv, PathInv, StagingInv, Staged, RetryMaterialKept,
        FormatTarget
  <2> QED
    BY <2>1, <2>2, <2>3, <2>4, <2>5, <2>6, <2>7, <2>8
<1>9. CASE UndoStaging
  <2>1. TypeInv'
    BY <1>9, <1>t DEF UndoStaging, StagingDeleted, TypeInv, Verdict
  <2>2. PathInv'
    BY <1>9, <1>t DEF UndoStaging, StagingDeleted, TypeInv, PathInv, FormatTarget
  <2>3. DiskInv'
    BY <1>9, <1>t DEF UndoStaging, StagingDeleted, TypeInv, PathInv, DiskInv, Untouched,
        FormatTarget
  <2>4. StagingInv'
    BY <1>9, <1>t DEF UndoStaging, StagingDeleted, TypeInv, PathInv, StagingInv, Staged,
        FormatTarget
  <2>5. UndoInv'
    BY <1>9, <1>t DEF UndoStaging, StagingDeleted, TypeInv, UndoInv, StagingInv
  <2>6. PrewriteTruthful'
    BY <1>9, <1>t DEF UndoStaging, StagingDeleted, TypeInv, DiskInv, UndoInv, PrewriteTruthful,
        Untouched
  <2>7. CompletedMeansInstalled'
    BY <1>9, <1>t DEF UndoStaging, StagingDeleted, TypeInv, DiskInv, CompletedMeansInstalled,
        FormatTarget
  <2>8. RetryMaterialKept'
    BY <1>9, <1>t DEF UndoStaging, StagingDeleted, TypeInv, PathInv, StagingInv, Staged,
        RetryMaterialKept, FormatTarget
  <2> QED
    BY <2>1, <2>2, <2>3, <2>4, <2>5, <2>6, <2>7, <2>8
<1>10. CASE UndoReport
  <2>1. TypeInv'
    BY <1>10, <1>t DEF UndoReport, TypeInv, Verdict
  <2>2. PathInv'
    BY <1>10, <1>t DEF UndoReport, TypeInv, PathInv, FormatTarget
  <2>3. DiskInv'
    BY <1>10, <1>t DEF UndoReport, TypeInv, PathInv, DiskInv, Untouched, FormatTarget
  <2>4. StagingInv'
    BY <1>10, <1>t DEF UndoReport, TypeInv, PathInv, StagingInv, Staged, FormatTarget
  <2>5. UndoInv'
    BY <1>10, <1>t DEF UndoReport, TypeInv, UndoInv, StagingInv
  <2>6. PrewriteTruthful'
    BY <1>10, <1>t DEF UndoReport, TypeInv, DiskInv, UndoInv, PrewriteTruthful, Untouched
  <2>7. CompletedMeansInstalled'
    BY <1>10, <1>t DEF UndoReport, TypeInv, DiskInv, CompletedMeansInstalled, FormatTarget
  <2>8. RetryMaterialKept'
    BY <1>10, <1>t DEF UndoReport, TypeInv, PathInv, StagingInv, Staged, RetryMaterialKept,
        FormatTarget
  <2> QED
    BY <2>1, <2>2, <2>3, <2>4, <2>5, <2>6, <2>7, <2>8
<1>11. CASE Repartition
  <2>a. EraseStep(task) = "firstWrite"
    BY <1>11, <1>t DEF Repartition, PathInv, EraseStep, FormatTarget
  <2>1. TypeInv'
    BY <1>11, <1>t, <2>a DEF Repartition, Erased, NotErased, TypeInv, Verdict
  <2>2. PathInv'
    BY <1>11, <1>t, <2>a DEF Repartition, Erased, NotErased, TypeInv, PathInv, FormatTarget
  <2>3. DiskInv'
    BY <1>11, <1>t, <2>a DEF Repartition, Erased, NotErased, TypeInv, PathInv, DiskInv,
        Untouched, FormatTarget
  <2>4. StagingInv'
    BY <1>11, <1>t, <2>a DEF Repartition, Erased, NotErased, TypeInv, PathInv, StagingInv,
        Staged, FormatTarget
  <2>5. UndoInv'
    BY <1>11, <1>t, <2>a DEF Repartition, Erased, NotErased, TypeInv, UndoInv, StagingInv
  <2>6. PrewriteTruthful'
    BY <1>11, <1>t, <2>a DEF Repartition, Erased, NotErased, TypeInv, DiskInv, UndoInv,
        PrewriteTruthful, Untouched
  <2>7. CompletedMeansInstalled'
    BY <1>11, <1>t, <2>a DEF Repartition, Erased, NotErased, TypeInv, DiskInv,
        CompletedMeansInstalled, FormatTarget
  <2>8. RetryMaterialKept'
    BY <1>11, <1>t, <2>a DEF Repartition, Erased, NotErased, TypeInv, PathInv, StagingInv,
        Staged, RetryMaterialKept, FormatTarget
  <2> QED
    BY <2>1, <2>2, <2>3, <2>4, <2>5, <2>6, <2>7, <2>8
<1>12. CASE PreservePersonalFiles
  <2>1. TypeInv'
    BY <1>12, <1>t DEF PreservePersonalFiles, EraseStep, TypeInv, Verdict
  <2>2. PathInv'
    BY <1>12, <1>t DEF PreservePersonalFiles, EraseStep, TypeInv, PathInv, FormatTarget
  <2>3. DiskInv'
    BY <1>12, <1>t DEF PreservePersonalFiles, EraseStep, TypeInv, PathInv, DiskInv, Untouched,
        FormatTarget
  <2>4. StagingInv'
    BY <1>12, <1>t DEF PreservePersonalFiles, EraseStep, TypeInv, PathInv, StagingInv, Staged,
        FormatTarget
  <2>5. UndoInv'
    BY <1>12, <1>t DEF PreservePersonalFiles, EraseStep, TypeInv, UndoInv, StagingInv
  <2>6. PrewriteTruthful'
    BY <1>12, <1>t DEF PreservePersonalFiles, EraseStep, TypeInv, DiskInv, UndoInv,
        PrewriteTruthful, Untouched
  <2>7. CompletedMeansInstalled'
    BY <1>12, <1>t DEF PreservePersonalFiles, EraseStep, TypeInv, DiskInv,
        CompletedMeansInstalled, FormatTarget
  <2>8. RetryMaterialKept'
    BY <1>12, <1>t DEF PreservePersonalFiles, EraseStep, TypeInv, PathInv, StagingInv, Staged,
        RetryMaterialKept, FormatTarget
  <2> QED
    BY <2>1, <2>2, <2>3, <2>4, <2>5, <2>6, <2>7, <2>8
<1>13. CASE DeleteOldSystem
  <2>1. TypeInv'
    BY <1>13, <1>t DEF DeleteOldSystem, TypeInv, Verdict
  <2>2. PathInv'
    BY <1>13, <1>t DEF DeleteOldSystem, TypeInv, PathInv, FormatTarget
  <2>3. DiskInv'
    BY <1>13, <1>t DEF DeleteOldSystem, TypeInv, PathInv, DiskInv, Untouched, FormatTarget
  <2>4. StagingInv'
    BY <1>13, <1>t DEF DeleteOldSystem, TypeInv, PathInv, StagingInv, Staged, FormatTarget
  <2>5. UndoInv'
    BY <1>13, <1>t DEF DeleteOldSystem, TypeInv, UndoInv, StagingInv
  <2>6. PrewriteTruthful'
    BY <1>13, <1>t DEF DeleteOldSystem, TypeInv, DiskInv, UndoInv, PrewriteTruthful, Untouched
  <2>7. CompletedMeansInstalled'
    BY <1>13, <1>t DEF DeleteOldSystem, TypeInv, DiskInv, CompletedMeansInstalled, FormatTarget
  <2>8. RetryMaterialKept'
    BY <1>13, <1>t DEF DeleteOldSystem, TypeInv, PathInv, StagingInv, Staged, RetryMaterialKept,
        FormatTarget
  <2> QED
    BY <2>1, <2>2, <2>3, <2>4, <2>5, <2>6, <2>7, <2>8
<1>14. CASE Format
  <2>1. TypeInv'
    BY <1>14, <1>t DEF Format, Erased, NotErased, TypeInv, Verdict
  <2>2. PathInv'
    BY <1>14, <1>t DEF Format, Erased, NotErased, TypeInv, PathInv, FormatTarget
  <2>3. DiskInv'
    BY <1>14, <1>t DEF Format, Erased, NotErased, TypeInv, PathInv, DiskInv, Untouched,
        FormatTarget
  <2>4. StagingInv'
    BY <1>14, <1>t DEF Format, Erased, NotErased, TypeInv, PathInv, StagingInv, Staged,
        FormatTarget
  <2>5. UndoInv'
    BY <1>14, <1>t DEF Format, Erased, NotErased, TypeInv, UndoInv, StagingInv
  <2>6. PrewriteTruthful'
    BY <1>14, <1>t DEF Format, Erased, NotErased, TypeInv, DiskInv, UndoInv, PrewriteTruthful,
        Untouched
  <2>7. CompletedMeansInstalled'
    BY <1>14, <1>t DEF Format, Erased, NotErased, TypeInv, DiskInv, CompletedMeansInstalled,
        FormatTarget
  <2>8. RetryMaterialKept'
    BY <1>14, <1>t DEF Format, Erased, NotErased, TypeInv, PathInv, StagingInv, Staged,
        RetryMaterialKept, FormatTarget
  <2> QED
    BY <2>1, <2>2, <2>3, <2>4, <2>5, <2>6, <2>7, <2>8
<1>15. CASE Reassemble
  <2>1. TypeInv'
    BY <1>15, <1>t DEF Reassemble, TypeInv, Verdict
  <2>2. PathInv'
    BY <1>15, <1>t DEF Reassemble, TypeInv, PathInv, FormatTarget
  <2>3. DiskInv'
    BY <1>15, <1>t DEF Reassemble, TypeInv, PathInv, DiskInv, Untouched, FormatTarget
  <2>4. StagingInv'
    BY <1>15, <1>t DEF Reassemble, TypeInv, PathInv, StagingInv, Staged, FormatTarget
  <2>5. UndoInv'
    BY <1>15, <1>t DEF Reassemble, TypeInv, UndoInv, StagingInv
  <2>6. PrewriteTruthful'
    BY <1>15, <1>t DEF Reassemble, TypeInv, DiskInv, UndoInv, PrewriteTruthful, Untouched
  <2>7. CompletedMeansInstalled'
    BY <1>15, <1>t DEF Reassemble, TypeInv, DiskInv, CompletedMeansInstalled, FormatTarget
  <2>8. RetryMaterialKept'
    BY <1>15, <1>t DEF Reassemble, TypeInv, PathInv, StagingInv, Staged, RetryMaterialKept,
        FormatTarget
  <2> QED
    BY <2>1, <2>2, <2>3, <2>4, <2>5, <2>6, <2>7, <2>8
<1>16. CASE FirstWrite
  <2>1. TypeInv'
    BY <1>16, <1>t DEF FirstWrite, TypeInv, Verdict
  <2>2. PathInv'
    BY <1>16, <1>t DEF FirstWrite, TypeInv, PathInv, FormatTarget
  <2>3. DiskInv'
    BY <1>16, <1>t DEF FirstWrite, TypeInv, PathInv, DiskInv, Untouched, FormatTarget
  <2>4. StagingInv'
    BY <1>16, <1>t DEF FirstWrite, TypeInv, PathInv, StagingInv, Staged, FormatTarget
  <2>5. UndoInv'
    BY <1>16, <1>t DEF FirstWrite, TypeInv, UndoInv, StagingInv
  <2>6. PrewriteTruthful'
    BY <1>16, <1>t DEF FirstWrite, TypeInv, DiskInv, UndoInv, PrewriteTruthful, Untouched
  <2>7. CompletedMeansInstalled'
    BY <1>16, <1>t DEF FirstWrite, TypeInv, DiskInv, CompletedMeansInstalled, FormatTarget
  <2>8. RetryMaterialKept'
    BY <1>16, <1>t DEF FirstWrite, TypeInv, PathInv, StagingInv, Staged, RetryMaterialKept,
        FormatTarget
  <2> QED
    BY <2>1, <2>2, <2>3, <2>4, <2>5, <2>6, <2>7, <2>8
<1>17. CASE ApplyXp
  <2>1. TypeInv'
    BY <1>17, <1>t DEF ApplyXp, SourceThere, TypeInv, Verdict
  <2>2. PathInv'
    BY <1>17, <1>t DEF ApplyXp, SourceThere, TypeInv, PathInv, FormatTarget
  <2>3. DiskInv'
    BY <1>17, <1>t DEF ApplyXp, SourceThere, TypeInv, PathInv, DiskInv, Untouched, FormatTarget
  <2>4. StagingInv'
    BY <1>17, <1>t DEF ApplyXp, SourceThere, TypeInv, PathInv, StagingInv, Staged, FormatTarget
  <2>5. UndoInv'
    BY <1>17, <1>t DEF ApplyXp, SourceThere, TypeInv, UndoInv, StagingInv
  <2>6. PrewriteTruthful'
    BY <1>17, <1>t DEF ApplyXp, SourceThere, TypeInv, DiskInv, UndoInv, PrewriteTruthful,
        Untouched
  <2>7. CompletedMeansInstalled'
    BY <1>17, <1>t DEF ApplyXp, SourceThere, TypeInv, DiskInv, CompletedMeansInstalled,
        FormatTarget
  <2>8. RetryMaterialKept'
    BY <1>17, <1>t DEF ApplyXp, SourceThere, TypeInv, PathInv, StagingInv, Staged,
        RetryMaterialKept, FormatTarget
  <2> QED
    BY <2>1, <2>2, <2>3, <2>4, <2>5, <2>6, <2>7, <2>8
<1>18. CASE ApplyGhost
  <2>1. TypeInv'
    BY <1>18, <1>t DEF ApplyGhost, SourceThere, TypeInv, Verdict
  <2>2. PathInv'
    BY <1>18, <1>t DEF ApplyGhost, SourceThere, TypeInv, PathInv, FormatTarget
  <2>3. DiskInv'
    BY <1>18, <1>t DEF ApplyGhost, SourceThere, TypeInv, PathInv, DiskInv, Untouched, FormatTarget
  <2>4. StagingInv'
    BY <1>18, <1>t DEF ApplyGhost, SourceThere, TypeInv, PathInv, StagingInv, Staged, FormatTarget
  <2>5. UndoInv'
    BY <1>18, <1>t DEF ApplyGhost, SourceThere, TypeInv, UndoInv, StagingInv
  <2>6. PrewriteTruthful'
    BY <1>18, <1>t DEF ApplyGhost, SourceThere, TypeInv, DiskInv, UndoInv, PrewriteTruthful,
        Untouched
  <2>7. CompletedMeansInstalled'
    BY <1>18, <1>t DEF ApplyGhost, SourceThere, TypeInv, DiskInv, CompletedMeansInstalled,
        FormatTarget
  <2>8. RetryMaterialKept'
    BY <1>18, <1>t DEF ApplyGhost, SourceThere, TypeInv, PathInv, StagingInv, Staged,
        RetryMaterialKept, FormatTarget
  <2> QED
    BY <2>1, <2>2, <2>3, <2>4, <2>5, <2>6, <2>7, <2>8
<1>19. CASE ApplyImage
  <2>a. ASSUME task.chunked PROVE ~(attempt < Len(ladder))
    <3>1. ladder = <<Uncompressed>> /\ attempt \in Nat \ {0}
      BY <2>a DEF TypeInv, PathInv
    <3>2. Len(ladder) = 1
      BY <3>1
    <3> QED
      BY <3>1, <3>2
  <2>1. TypeInv'
    BY <1>19, <1>t, <2>a DEF ApplyImage, SourceThere, TypeInv, Verdict
  <2>2. PathInv'
    BY <1>19, <1>t, <2>a DEF ApplyImage, SourceThere, TypeInv, PathInv, FormatTarget
  <2>3. DiskInv'
    BY <1>19, <1>t, <2>a DEF ApplyImage, SourceThere, TypeInv, PathInv, DiskInv, Untouched,
        FormatTarget
  <2>4. StagingInv'
    BY <1>19, <1>t, <2>a DEF ApplyImage, SourceThere, TypeInv, PathInv, StagingInv, Staged,
        FormatTarget
  <2>5. UndoInv'
    BY <1>19, <1>t, <2>a DEF ApplyImage, SourceThere, TypeInv, UndoInv, StagingInv
  <2>6. PrewriteTruthful'
    BY <1>19, <1>t, <2>a DEF ApplyImage, SourceThere, TypeInv, DiskInv, UndoInv,
        PrewriteTruthful, Untouched
  <2>7. CompletedMeansInstalled'
    BY <1>19, <1>t, <2>a DEF ApplyImage, SourceThere, TypeInv, DiskInv, CompletedMeansInstalled,
        FormatTarget
  <2>8. RetryMaterialKept'
    BY <1>19, <1>t, <2>a DEF ApplyImage, SourceThere, TypeInv, PathInv, StagingInv, Staged,
        RetryMaterialKept, FormatTarget
  <2> QED
    BY <2>1, <2>2, <2>3, <2>4, <2>5, <2>6, <2>7, <2>8
<1>20. CASE Reformat
  <2>1. TypeInv'
    BY <1>20, <1>t DEF Reformat, Erased, NotErased, TypeInv, Verdict
  <2>2. PathInv'
    BY <1>20, <1>t DEF Reformat, Erased, NotErased, TypeInv, PathInv, FormatTarget
  <2>3. DiskInv'
    BY <1>20, <1>t DEF Reformat, Erased, NotErased, TypeInv, PathInv, DiskInv, Untouched,
        FormatTarget
  <2>4. StagingInv'
    BY <1>20, <1>t DEF Reformat, Erased, NotErased, TypeInv, PathInv, StagingInv, Staged,
        FormatTarget
  <2>5. UndoInv'
    BY <1>20, <1>t DEF Reformat, Erased, NotErased, TypeInv, UndoInv, StagingInv
  <2>6. PrewriteTruthful'
    BY <1>20, <1>t DEF Reformat, Erased, NotErased, TypeInv, DiskInv, UndoInv, PrewriteTruthful,
        Untouched
  <2>7. CompletedMeansInstalled'
    BY <1>20, <1>t DEF Reformat, Erased, NotErased, TypeInv, DiskInv, CompletedMeansInstalled,
        FormatTarget
  <2>8. RetryMaterialKept'
    BY <1>20, <1>t DEF Reformat, Erased, NotErased, TypeInv, PathInv, StagingInv, Staged,
        RetryMaterialKept, FormatTarget
  <2> QED
    BY <2>1, <2>2, <2>3, <2>4, <2>5, <2>6, <2>7, <2>8
<1>21. CASE SetUp
  <2>1. TypeInv'
    <3>1. /\ entry' \in BOOLEAN /\ marker' \in BOOLEAN /\ held' \in BOOLEAN
          /\ payload' \in BOOLEAN /\ locator' \in BOOLEAN /\ staging' \in BOOLEAN
          /\ dual' \in BOOLEAN /\ critical' \in BOOLEAN /\ warned' \in BOOLEAN
          /\ undone' \in BOOLEAN
      BY <1>21 DEF SetUp, TypeInv
    <3>2. /\ task' = task /\ attempt' = attempt
          /\ pc' \in Before \cup Undo \cup Line \cup Write \cup Whole \cup {"done"}
          /\ verdict' \in Verdict /\ (verdict' # "none" <=> pc' = "done")
      BY <1>21, <1>t DEF SetUp, TypeInv, Verdict
    <3> QED
      BY <3>1, <3>2 DEF TypeInv
  <2>2. PathInv'
    BY <1>21, <1>t DEF SetUp, TypeInv, PathInv, FormatTarget
  <2>3. DiskInv'
    BY <1>21, <1>t DEF SetUp, TypeInv, PathInv, DiskInv, Untouched, FormatTarget
  <2>4. StagingInv'
    BY <1>21, <1>t DEF SetUp, TypeInv, PathInv, StagingInv, Staged, FormatTarget
  <2>5. UndoInv'
    BY <1>21, <1>t DEF SetUp, TypeInv, UndoInv, StagingInv
  <2>6. PrewriteTruthful'
    BY <1>21, <1>t DEF SetUp, TypeInv, DiskInv, UndoInv, PrewriteTruthful, Untouched
  <2>7. CompletedMeansInstalled'
    BY <1>21, <1>t DEF SetUp, TypeInv, DiskInv, CompletedMeansInstalled, FormatTarget
  <2>8. RetryMaterialKept'
    BY <1>21, <1>t DEF SetUp, TypeInv, PathInv, StagingInv, Staged, RetryMaterialKept,
        FormatTarget
  <2> QED
    BY <2>1, <2>2, <2>3, <2>4, <2>5, <2>6, <2>7, <2>8
<1>22. CASE RepairBoot
  <2>1. TypeInv'
    <3>1. critical' = critical /\ undone' = undone /\ warned' \in {warned, TRUE}
      BY <1>22, Zenon DEF RepairBoot
    <3>2. critical' \in BOOLEAN /\ undone' \in BOOLEAN /\ warned' \in BOOLEAN
      BY <3>1, Zenon DEF TypeInv
    <3> QED
      BY <1>22, <1>t, <3>2 DEF RepairBoot, TypeInv, Verdict
  <2>2. PathInv'
    BY <1>22, <1>t DEF RepairBoot, TypeInv, PathInv, FormatTarget
  <2>3. DiskInv'
    BY <1>22, <1>t DEF RepairBoot, TypeInv, PathInv, DiskInv, Untouched, FormatTarget
  <2>4. StagingInv'
    BY <1>22, <1>t DEF RepairBoot, TypeInv, PathInv, StagingInv, Staged, FormatTarget
  <2>5. UndoInv'
    BY <1>22, <1>t DEF RepairBoot, TypeInv, UndoInv, StagingInv
  <2>6. PrewriteTruthful'
    BY <1>22, <1>t DEF RepairBoot, TypeInv, DiskInv, UndoInv, PrewriteTruthful, Untouched
  <2>7. CompletedMeansInstalled'
    BY <1>22, <1>t DEF RepairBoot, TypeInv, DiskInv, CompletedMeansInstalled, FormatTarget
  <2>8. RetryMaterialKept'
    BY <1>22, <1>t DEF RepairBoot, TypeInv, PathInv, StagingInv, Staged, RetryMaterialKept,
        FormatTarget
  <2> QED
    BY <2>1, <2>2, <2>3, <2>4, <2>5, <2>6, <2>7, <2>8
<1>23. CASE Unattend
  <2>1. TypeInv'
    <3>1. critical' = critical /\ undone' = undone /\ warned' \in {warned, TRUE}
      BY <1>23, Zenon DEF Unattend
    <3>2. critical' \in BOOLEAN /\ undone' \in BOOLEAN /\ warned' \in BOOLEAN
      BY <3>1, Zenon DEF TypeInv
    <3> QED
      BY <1>23, <1>t, <3>2 DEF Unattend, TypeInv, Verdict
  <2>2. PathInv'
    BY <1>23, <1>t DEF Unattend, TypeInv, PathInv, FormatTarget
  <2>3. DiskInv'
    BY <1>23, <1>t DEF Unattend, TypeInv, PathInv, DiskInv, Untouched, FormatTarget
  <2>4. StagingInv'
    BY <1>23, <1>t DEF Unattend, TypeInv, PathInv, StagingInv, Staged, FormatTarget
  <2>5. UndoInv'
    BY <1>23, <1>t DEF Unattend, TypeInv, UndoInv, StagingInv
  <2>6. PrewriteTruthful'
    BY <1>23, <1>t DEF Unattend, TypeInv, DiskInv, UndoInv, PrewriteTruthful, Untouched
  <2>7. CompletedMeansInstalled'
    BY <1>23, <1>t DEF Unattend, TypeInv, DiskInv, CompletedMeansInstalled, FormatTarget
  <2>8. RetryMaterialKept'
    BY <1>23, <1>t DEF Unattend, TypeInv, PathInv, StagingInv, Staged, RetryMaterialKept,
        FormatTarget
  <2> QED
    BY <2>1, <2>2, <2>3, <2>4, <2>5, <2>6, <2>7, <2>8
<1>24. CASE ReleasePayload
  <2>a. /\ task.home = "partition" => payload' = payload
        /\ task.home = "partition" => locator'
        /\ pc' = "unstage" /\ ~warned' => (locator' <=> task.home = "partition")
        /\ pc' = "report" => warned'
        /\ pc' \in {"unstage", "report"}
    <3>1. locator
      BY <1>24 DEF ReleasePayload, StagingInv, Staged
    <3>2. CASE locator' = (task.home = "partition") /\ UNCHANGED warned /\ Goto("unstage")
      <4>1. locator' <=> task.home = "partition"
        BY <3>2
      <4> QED
        BY <1>24, <3>2, <4>1 DEF ReleasePayload
    <3>3. CASE /\ UNCHANGED locator /\ warned' = TRUE
               /\ Goto(IF task.home = "partition" /\ task.mode # "fullDisk"
                         THEN "report" ELSE "unstage")
      BY <1>24, <3>1, <3>3 DEF ReleasePayload
    <3> QED
      BY <1>24, <3>2, <3>3 DEF ReleasePayload
  <2>b. task' = task /\ staging' = staging /\ verdict' = "none"
    BY <1>24 DEF ReleasePayload, TypeInv
  <2>c. payload /\ (staging <=> task.home = "partition")
    BY <1>24 DEF ReleasePayload, StagingInv, Staged
  <2>1. TypeInv'
    <3>1. critical' \in BOOLEAN /\ undone' \in BOOLEAN
      BY <1>24, Zenon DEF ReleasePayload, TypeInv
    <3> QED
      BY <1>24, <1>t, <2>a, <3>1 DEF ReleasePayload, TypeInv, Verdict
  <2>2. PathInv'
    BY <1>24, <1>t, <2>a DEF ReleasePayload, TypeInv, PathInv, FormatTarget
  <2>3. DiskInv'
    BY <1>24, <1>t, <2>a DEF ReleasePayload, TypeInv, PathInv, DiskInv, Untouched, FormatTarget
  <2>4. StagingInv'
    BY <2>a, <2>b, <2>c, Zenon DEF StagingInv
  <2>5. UndoInv'
    BY <1>24, <1>t, <2>a DEF ReleasePayload, TypeInv, UndoInv, StagingInv
  <2>6. PrewriteTruthful'
    BY <1>24, <1>t, <2>a DEF ReleasePayload, TypeInv, DiskInv, UndoInv, PrewriteTruthful,
        Untouched
  <2>7. CompletedMeansInstalled'
    BY <1>24, <1>t, <2>a DEF ReleasePayload, TypeInv, DiskInv, CompletedMeansInstalled,
        FormatTarget
  <2>8. RetryMaterialKept'
    BY <2>a, <2>b, <2>c, Zenon DEF RetryMaterialKept
  <2> QED
    BY <2>1, <2>2, <2>3, <2>4, <2>5, <2>6, <2>7, <2>8
<1>25. CASE Unstage
  <2>1. TypeInv'
    BY <1>25, <1>t DEF Unstage, StagingDeleted, TypeInv, Verdict
  <2>2. PathInv'
    BY <1>25, <1>t DEF Unstage, StagingDeleted, TypeInv, PathInv, FormatTarget
  <2>3. DiskInv'
    BY <1>25, <1>t DEF Unstage, StagingDeleted, TypeInv, PathInv, DiskInv, Untouched, FormatTarget
  <2>4. StagingInv'
    BY <1>25, <1>t DEF Unstage, StagingDeleted, TypeInv, PathInv, StagingInv, Staged, FormatTarget
  <2>5. UndoInv'
    BY <1>25, <1>t DEF Unstage, StagingDeleted, TypeInv, UndoInv, StagingInv
  <2>6. PrewriteTruthful'
    BY <1>25, <1>t DEF Unstage, StagingDeleted, TypeInv, DiskInv, UndoInv, PrewriteTruthful,
        Untouched
  <2>7. CompletedMeansInstalled'
    BY <1>25, <1>t DEF Unstage, StagingDeleted, TypeInv, DiskInv, CompletedMeansInstalled,
        FormatTarget
  <2>8. RetryMaterialKept'
    BY <1>25, <1>t DEF Unstage, StagingDeleted, TypeInv, PathInv, StagingInv, Staged,
        RetryMaterialKept, FormatTarget
  <2> QED
    BY <2>1, <2>2, <2>3, <2>4, <2>5, <2>6, <2>7, <2>8
<1>26. CASE Report
  <2>1. TypeInv'
    BY <1>26, <1>t DEF Report, TypeInv, Verdict
  <2>2. PathInv'
    BY <1>26, <1>t DEF Report, TypeInv, PathInv, FormatTarget
  <2>3. DiskInv'
    BY <1>26, <1>t DEF Report, TypeInv, PathInv, DiskInv, Untouched, FormatTarget
  <2>4. StagingInv'
    BY <1>26, <1>t DEF Report, TypeInv, PathInv, StagingInv, Staged, FormatTarget
  <2>5. UndoInv'
    BY <1>26, <1>t DEF Report, TypeInv, UndoInv, StagingInv
  <2>6. PrewriteTruthful'
    BY <1>26, <1>t DEF Report, TypeInv, DiskInv, UndoInv, PrewriteTruthful, Untouched
  <2>7. CompletedMeansInstalled'
    BY <1>26, <1>t DEF Report, TypeInv, DiskInv, CompletedMeansInstalled, FormatTarget
  <2>8. RetryMaterialKept'
    BY <1>26, <1>t DEF Report, TypeInv, PathInv, StagingInv, Staged, RetryMaterialKept,
        FormatTarget
  <2> QED
    BY <2>1, <2>2, <2>3, <2>4, <2>5, <2>6, <2>7, <2>8
<1>27. CASE VerifyStorage
  <2>1. TypeInv'
    BY <1>27, <1>t DEF VerifyStorage, TypeInv, Verdict
  <2>2. PathInv'
    BY <1>27, <1>t DEF VerifyStorage, TypeInv, PathInv, FormatTarget
  <2>3. DiskInv'
    BY <1>27, <1>t DEF VerifyStorage, TypeInv, PathInv, DiskInv, Untouched, FormatTarget
  <2>4. StagingInv'
    BY <1>27, <1>t DEF VerifyStorage, TypeInv, PathInv, StagingInv, Staged, FormatTarget
  <2>5. UndoInv'
    BY <1>27, <1>t DEF VerifyStorage, TypeInv, UndoInv, StagingInv
  <2>6. PrewriteTruthful'
    BY <1>27, <1>t DEF VerifyStorage, TypeInv, DiskInv, UndoInv, PrewriteTruthful, Untouched
  <2>7. CompletedMeansInstalled'
    BY <1>27, <1>t DEF VerifyStorage, TypeInv, DiskInv, CompletedMeansInstalled, FormatTarget
  <2>8. RetryMaterialKept'
    BY <1>27, <1>t DEF VerifyStorage, TypeInv, PathInv, StagingInv, Staged, RetryMaterialKept,
        FormatTarget
  <2> QED
    BY <2>1, <2>2, <2>3, <2>4, <2>5, <2>6, <2>7, <2>8
<1>28. CASE UNCHANGED vars
  BY <1>28 DEF vars, TypeInv, PathInv, DiskInv, StagingInv, Staged, UndoInv, PrewriteTruthful,
      CompletedMeansInstalled, RetryMaterialKept
<1> QED
  BY <1>1, <1>2, <1>3, <1>4, <1>5, <1>6, <1>7, <1>8, <1>9, <1>10, <1>11,
     <1>12, <1>13, <1>14, <1>15, <1>16, <1>17, <1>18, <1>19, <1>20, <1>21,
     <1>22, <1>23, <1>24, <1>25, <1>26, <1>27, <1>28 DEF Next

----------------------------------------------------------------------------

(* The worker's answer before the first write, whatever the task: the old  *)
(* system, the personal files and the boot files are as they were, and a   *)
(* rollback reported complete has left nothing of the session behind.      *)
THEOREM PrewriteTruthfulHolds == Spec => []PrewriteTruthful
  BY InitIInv, NextIInv, PTL DEF Spec, IInv

(* The source of the image is there whenever an engine is given it: what   *)
(* was formatted held no payload, the chunks were put together after the   *)
(* format, and a rebuilt image is never formatted away by the ladder.      *)
THEOREM SourceReadableHolds == Spec => []SourceReadable
<1>1. IInv => SourceReadable
  BY DEF IInv, TypeInv, DiskInv, StagingInv, Staged, SourceReadable, SourceThere,
         Undo, Before, Line, Write, Whole
<1> QED
  BY <1>1, InitIInv, NextIInv, PTL DEF Spec

(* A completed installation, whatever the task and however many rungs of   *)
(* the ladder it took, has a whole system on the target.                   *)
THEOREM CompletedMeansInstalledHolds == Spec => []CompletedMeansInstalled
  BY InitIInv, NextIInv, PTL DEF Spec, IInv

(* A failure after the first write keeps what a retry needs, and a         *)
(* completion without a warning leaves no staging partition behind.        *)
THEOREM RetryMaterialKeptHolds == Spec => []RetryMaterialKept
  BY InitIInv, NextIInv, PTL DEF Spec, IInv

=============================================================================
