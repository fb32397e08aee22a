------------------------ MODULE BackupPublishProofs ------------------------
(* Proofs about BackupPublish, for every number of files, faults and foreign *)
(* files: IInv is inductive, and the safety properties follow from it.       *)
EXTENDS BackupPublish, TLAPS

\* A file record is told from NoFile by either of its fields.
LEMMA FileFacts ==
    /\ NoFile \notin Files /\ NoFile.bytes = "none" /\ NoFile.id = NoId
    /\ BaseFile \in Files /\ BaseFile.bytes = "base" /\ BaseFile.id = BaseId /\ BaseId # NoId
    /\ ReplacedFile \in Files /\ ReplacedFile.bytes = "foreign"
    /\ \A f \in Files : f.bytes \in Bytes /\ f.id \in FileIds /\ f.bytes # "none" /\ f.id # NoId
    /\ \A i \in FileIds, b \in Bytes :
          /\ [id |-> i, bytes |-> b] \in Files
          /\ [id |-> i, bytes |-> b].id = i /\ [id |-> i, bytes |-> b].bytes = b
  BY IdsAssumption DEF Files, NoFile, BaseFile, ReplacedFile, Bytes

\* Changing the bytes of a file keeps its id and leaves a file.
LEMMA RewriteFacts ==
    \A f \in Files, b \in Bytes :
       LET g == [f EXCEPT !.bytes = b] IN g \in Files /\ g.id = f.id /\ g.bytes = b
  BY DEF Files

\* The id given to a new file is one nothing refers to.
LEMMA FreshIdFacts ==
    CanCreateFile => FreshId \in FileIds /\ FreshId \notin UsedIds
  BY DEF CanCreateFile, FreshId

\* A counted fault stays within its bound.
LEMMA FaultFacts ==
    faults \in 0..MaxFaults /\ Fault => faults' \in 0..MaxFaults
  BY BoundsAssumption DEF Fault

LEMMA InitInv == Init => IInv
<1> SUFFICES ASSUME Init PROVE IInv
  OBVIOUS
<1> USE FileFacts DEF Init, NoJournal, NoDir
<1>1. PICK t \in {BaseFile, NoFile, ReplacedFile} :
        /\ slot = [n \in Names |-> IF n = "target" THEN t ELSE NoFile]
        /\ mode = "Create" => t = NoFile
  OBVIOUS
<1>2. slot["target"] = t /\ slot["previous"] = NoFile /\ slot["staged"] = NoFile
  BY <1>1 DEF Names
<1>3. TypeOK
  <2>1. slot \in [Names -> Files \cup {NoFile}]
    BY <1>1
  <2>2. journal \in Journals /\ dir \in Dirs
    BY DEF Journals, Dirs
  <2>3. faults \in 0..MaxFaults /\ foreigns \in 0..MaxForeign
    BY BoundsAssumption
  <2> QED
    BY <2>1, <2>2, <2>3 DEF TypeOK, Points
<1>4. DiskInv
  BY <1>1, <1>2 DEF DiskInv, Target, Staged, Previous, Prepared, HasBase, Existing, Modes
<1>5. StagingInv /\ PublicationInv /\ RecoveryInv
  BY DEF StagingInv, PublicationInv, RecoveryInv, NoHandles, StagingPoints, PublicationPoints,
         PublishPoints, RenamePoints
<1> QED
  BY <1>3, <1>4, <1>5 DEF IInv

LEMMA EntryStep == IInv /\ (Start \/ open_if_present) => IInv'
<1> SUFFICES ASSUME IInv, (Start \/ open_if_present) PROVE IInv'
  OBVIOUS
<1> USE FileFacts DEF Goto, Return, CleanUp, DropHandles, Remove, Put, durable, handles, bounds
<1> USE DEF IInv, Target, Previous, Staged, Prepared, HasBase, ForeignOrFree, NoHandles, PlainDir, Existing,
           StagingPoints, PublishPoints, RenamePoints, PublicationPoints, Names, Modes
<1>1. CASE Start
  <2> USE <1>1 DEF Start
  <2>1. TypeOK'
    BY DEF TypeOK, DiskInv, StagingInv, Points, Journals, Dirs, NoJournal, NoDir
  <2>2. DiskInv'
    BY DEF TypeOK, DiskInv, StagingInv, PublicationInv, RecoveryInv, NoJournal, NoDir
  <2>3. StagingInv'
    BY DEF TypeOK, DiskInv, StagingInv, RecoveryInv, NoJournal, NoDir
  <2>4. PublicationInv'
    BY DEF TypeOK, DiskInv, StagingInv, PublicationInv, NoJournal, NoDir
  <2>5. RecoveryInv'
    BY DEF TypeOK, DiskInv, StagingInv, PublicationInv, RecoveryInv, NoJournal, NoDir
  <2> QED
    BY <2>1, <2>2, <2>3, <2>4, <2>5
<1>2. CASE open_if_present
  <2> USE <1>2 DEF open_if_present
  <2>1. TypeOK'
    BY DEF TypeOK, DiskInv, StagingInv, Points, Journals, Dirs, NoJournal, NoDir
  <2>2. DiskInv'
    BY DEF TypeOK, DiskInv, StagingInv, PublicationInv, RecoveryInv, NoJournal, NoDir
  <2>3. StagingInv'
    BY DEF TypeOK, DiskInv, StagingInv, RecoveryInv, NoJournal, NoDir
  <2>4. PublicationInv'
    BY DEF TypeOK, DiskInv, StagingInv, PublicationInv, NoJournal, NoDir
  <2>5. RecoveryInv'
    BY DEF TypeOK, DiskInv, StagingInv, PublicationInv, RecoveryInv, NoJournal, NoDir
  <2> QED
    BY <2>1, <2>2, <2>3, <2>4, <2>5
<1> QED
  BY <1>1, <1>2 DEF Program

LEMMA RecoveryStep == IInv /\ Recovery => IInv'
<1> SUFFICES ASSUME IInv, Recovery PROVE IInv'
  OBVIOUS
<1> USE FileFacts DEF Goto, Return, CleanUp, DropHandles, Remove, Put, durable, handles, bounds
<1> USE DEF IInv, Target, Previous, Staged, Prepared, HasBase, ForeignOrFree, NoHandles, PlainDir, Existing,
           StagingPoints, PublishPoints, RenamePoints, PublicationPoints, Names, Modes
<1>1. CASE recover_receipt
  <2> USE <1>1 DEF recover_receipt, RecoveryRefused, ReceiptAccepted, Drained
  <2>1. TypeOK'
    BY DEF TypeOK, DiskInv, StagingInv, Points, Journals, Dirs, NoJournal, NoDir
  <2>2. DiskInv'
    BY DEF TypeOK, DiskInv, StagingInv, PublicationInv, RecoveryInv, NoJournal, NoDir
  <2>3. StagingInv'
    BY DEF TypeOK, DiskInv, StagingInv, RecoveryInv, NoJournal, NoDir
  <2>4. PublicationInv'
    BY DEF TypeOK, DiskInv, StagingInv, PublicationInv, NoJournal, NoDir
  <2>5. RecoveryInv'
    BY DEF TypeOK, DiskInv, StagingInv, PublicationInv, RecoveryInv, NoJournal, NoDir
  <2> QED
    BY <2>1, <2>2, <2>3, <2>4, <2>5
<1>2. CASE rollback_unprepared
  <2> USE <1>2 DEF rollback_unprepared, RecoveryRefused, UnpreparedAccepted
  <2>1. TypeOK'
    BY DEF TypeOK, DiskInv, StagingInv, Points, Journals, Dirs, NoJournal, NoDir
  <2>2. DiskInv'
    BY DEF TypeOK, DiskInv, StagingInv, PublicationInv, RecoveryInv, NoJournal, NoDir
  <2>3. StagingInv'
    BY DEF TypeOK, DiskInv, StagingInv, RecoveryInv, NoJournal, NoDir
  <2>4. PublicationInv'
    BY DEF TypeOK, DiskInv, StagingInv, PublicationInv, NoJournal, NoDir
  <2>5. RecoveryInv'
    BY DEF TypeOK, DiskInv, StagingInv, PublicationInv, RecoveryInv, NoJournal, NoDir
  <2> QED
    BY <2>1, <2>2, <2>3, <2>4, <2>5
<1>3. CASE recover_impl
  <2> USE <1>3 DEF recover_impl, TypeOK, DiskInv, StagingInv, PublicationInv, RecoveryInv
  <2>1. /\ journal.new # NoFile /\ journal.old # journal.new /\ dir.state # "absent"
        /\ RecoverDecision \in {"Committed", "RolledBack"}
    BY DEF RecoveryRefused, RecoverDecision
  <2>2. CASE RecoverDecision = "Committed"
    <3>1. Target = journal.new /\ Staged = NoFile
      BY <2>1, <2>2 DEF RecoverDecision, Seen, classify_slot, DuplicateNewLinks
    <3> QED
      BY <2>1, <2>2, <3>1 DEF Points
  <2>3. CASE DuplicateNewLinks
    <3>1. RecoverDecision = "RolledBack"
      BY <2>3 DEF RecoverDecision
    <3>2. dir.state = "publish"
      BY <2>1, <2>3 DEF DuplicateNewLinks, Dirs
    <3> QED
      BY <2>1, <2>3, <3>1, <3>2 DEF DuplicateNewLinks, Points
  <2>4. CASE RecoverDecision = "RolledBack" /\ ~DuplicateNewLinks
    <3>1. /\ Staged = journal.new
          /\ \/ Existing /\ Target = journal.old /\ Previous = NoFile
             \/ Existing /\ Target = NoFile /\ Previous = journal.old
             \/ ~Existing /\ Target = NoFile /\ Previous = NoFile
      BY <2>1, <2>4 DEF RecoverDecision, Seen, classify_slot
    <3>2. dir.state = "publish"
      BY <2>1, <3>1 DEF Dirs
    <3>3. Seen[2] = "Old" <=> Previous # NoFile
      BY <3>1 DEF Seen, classify_slot
    <3> QED
      BY <2>1, <2>4, <3>1, <3>2, <3>3 DEF Points
  <2> QED
    BY <2>1, <2>2, <2>3, <2>4
<1>4. CASE recover_refuses
  <2> USE <1>4 DEF recover_refuses
  <2>1. TypeOK'
    BY DEF TypeOK, DiskInv, StagingInv, Points, Journals, Dirs, NoJournal, NoDir
  <2>2. DiskInv'
    BY DEF TypeOK, DiskInv, StagingInv, PublicationInv, RecoveryInv, NoJournal, NoDir
  <2>3. StagingInv'
    BY DEF TypeOK, DiskInv, StagingInv, RecoveryInv, NoJournal, NoDir
  <2>4. PublicationInv'
    BY DEF TypeOK, DiskInv, StagingInv, PublicationInv, NoJournal, NoDir
  <2>5. RecoveryInv'
    BY DEF TypeOK, DiskInv, StagingInv, PublicationInv, RecoveryInv, NoJournal, NoDir
  <2> QED
    BY <2>1, <2>2, <2>3, <2>4, <2>5
<1>5. CASE RecoverDeletesPrevious
  <2> USE <1>5 DEF RecoverDeletesPrevious
  <2>1. TypeOK'
    BY DEF TypeOK, DiskInv, StagingInv, Points, Journals, Dirs, NoJournal, NoDir
  <2>2. DiskInv'
    BY DEF TypeOK, DiskInv, StagingInv, PublicationInv, RecoveryInv, NoJournal, NoDir
  <2>3. StagingInv'
    BY DEF TypeOK, DiskInv, StagingInv, RecoveryInv, NoJournal, NoDir
  <2>4. PublicationInv'
    BY DEF TypeOK, DiskInv, StagingInv, PublicationInv, NoJournal, NoDir
  <2>5. RecoveryInv'
    BY DEF TypeOK, DiskInv, StagingInv, PublicationInv, RecoveryInv, NoJournal, NoDir
  <2> QED
    BY <2>1, <2>2, <2>3, <2>4, <2>5
<1>6. CASE RecoverUnlinksPublic
  <2> USE <1>6 DEF RecoverUnlinksPublic, TypeOK, DiskInv, StagingInv, PublicationInv, RecoveryInv
  <2>1. /\ Target = journal.new /\ Staged = journal.new /\ journal.new # NoFile
        /\ Previous = journal.old /\ (Existing <=> Previous # NoFile)
    OBVIOUS
  <2>2. Seen[2] = "Old" <=> Existing
    BY <2>1 DEF Seen, classify_slot
  <2>3. slot' \in [Names -> Files \cup {NoFile}] /\ Target' = NoFile /\ Staged' = Staged
        /\ Previous' = Previous
    OBVIOUS
  <2> QED
    BY <2>1, <2>2, <2>3 DEF Points
<1>7. CASE RecoverDeletesStaged
  <2> USE <1>7 DEF RecoverDeletesStaged
  <2>1. TypeOK'
    BY DEF TypeOK, DiskInv, StagingInv, Points, Journals, Dirs, NoJournal, NoDir
  <2>2. DiskInv'
    BY DEF TypeOK, DiskInv, StagingInv, PublicationInv, RecoveryInv, NoJournal, NoDir
  <2>3. StagingInv'
    BY DEF TypeOK, DiskInv, StagingInv, RecoveryInv, NoJournal, NoDir
  <2>4. PublicationInv'
    BY DEF TypeOK, DiskInv, StagingInv, PublicationInv, NoJournal, NoDir
  <2>5. RecoveryInv'
    BY DEF TypeOK, DiskInv, StagingInv, PublicationInv, RecoveryInv, NoJournal, NoDir
  <2> QED
    BY <2>1, <2>2, <2>3, <2>4, <2>5
<1>8. CASE RecoverDeletesJournal
  <2> USE <1>8 DEF RecoverDeletesJournal
  <2>1. TypeOK'
    BY DEF TypeOK, DiskInv, StagingInv, Points, Journals, Dirs, NoJournal, NoDir
  <2>2. DiskInv'
    BY DEF TypeOK, DiskInv, StagingInv, PublicationInv, RecoveryInv, NoJournal, NoDir
  <2>3. StagingInv'
    BY DEF TypeOK, DiskInv, StagingInv, RecoveryInv, NoJournal, NoDir
  <2>4. PublicationInv'
    BY DEF TypeOK, DiskInv, StagingInv, PublicationInv, NoJournal, NoDir
  <2>5. RecoveryInv'
    BY DEF TypeOK, DiskInv, StagingInv, PublicationInv, RecoveryInv, NoJournal, NoDir
  <2> QED
    BY <2>1, <2>2, <2>3, <2>4, <2>5
<1>9. CASE remove_empty
  <2> USE DEF TypeOK, DiskInv, StagingInv, PublicationInv, RecoveryInv, NoDir
  <2>1. /\ pc = "remove" /\ UNCHANGED <<mode, slot, journal, handoff, bounds>>
        /\ dir' = NoDir /\ dir' \in Dirs /\ Drained
    BY <1>9 DEF remove_empty, Drained, Dirs
  <2>2. CASE outcome = "Committed"
    <3>1. pc' = "succeeded" /\ UNCHANGED <<after, outcome, answer, handles>>
      BY <1>9, <2>2 DEF remove_empty
    <3> QED
      BY <2>1, <2>2, <3>1 DEF Points
  <2>3. CASE outcome # "Committed" /\ after = "retry"
    <3>1. /\ pc' = "begin" /\ after' = "none" /\ outcome' = "none"
          /\ UNCHANGED <<answer, handles>>
      BY <1>9, <2>1, <2>3 DEF remove_empty
    <3> QED
      BY <2>1, <2>3, <3>1 DEF Points
  <2>4. CASE outcome # "Committed" /\ after # "retry"
    <3>1. Return("error")
      BY <1>9, <2>4 DEF remove_empty
    <3> QED
      BY <2>1, <2>4, <3>1 DEF Points
  <2> QED
    BY <2>2, <2>3, <2>4
<1> QED
  BY <1>1, <1>2, <1>3, <1>4, <1>5, <1>6, <1>7, <1>8, <1>9 DEF Recovery

LEMMA StagingStep == IInv /\ Staging => IInv'
<1> SUFFICES ASSUME IInv, Staging PROVE IInv'
  OBVIOUS
<1> USE FileFacts DEF Goto, Return, CleanUp, DropHandles, Remove, Put, durable, handles, bounds
<1> USE DEF IInv, Target, Previous, Staged, Prepared, HasBase, ForeignOrFree, NoHandles, PlainDir, Existing,
           StagingPoints, PublishPoints, RenamePoints, PublicationPoints, Names, Modes
<1>1. CASE create_refused
  <2> USE <1>1 DEF create_refused
  <2>1. TypeOK'
    BY DEF TypeOK, DiskInv, StagingInv, Points, Journals, Dirs, NoJournal, NoDir
  <2>2. DiskInv'
    BY DEF TypeOK, DiskInv, StagingInv, PublicationInv, RecoveryInv, NoJournal, NoDir
  <2>3. StagingInv'
    BY DEF TypeOK, DiskInv, StagingInv, RecoveryInv, NoJournal, NoDir
  <2>4. PublicationInv'
    BY DEF TypeOK, DiskInv, StagingInv, PublicationInv, NoJournal, NoDir
  <2>5. RecoveryInv'
    BY DEF TypeOK, DiskInv, StagingInv, PublicationInv, RecoveryInv, NoJournal, NoDir
  <2> QED
    BY <2>1, <2>2, <2>3, <2>4, <2>5
<1>2. CASE create
  <2> USE <1>2 DEF create, BeginRefused
  <2>1. TypeOK'
    BY DEF TypeOK, DiskInv, StagingInv, Points, Journals, Dirs, NoJournal, NoDir
  <2>2. DiskInv'
    BY DEF TypeOK, DiskInv, StagingInv, PublicationInv, RecoveryInv, NoJournal, NoDir
  <2>3. StagingInv'
    BY DEF TypeOK, DiskInv, StagingInv, RecoveryInv, NoJournal, NoDir
  <2>4. PublicationInv'
    BY DEF TypeOK, DiskInv, StagingInv, PublicationInv, NoJournal, NoDir
  <2>5. RecoveryInv'
    BY DEF TypeOK, DiskInv, StagingInv, PublicationInv, RecoveryInv, NoJournal, NoDir
  <2> QED
    BY <2>1, <2>2, <2>3, <2>4, <2>5
<1>3. CASE prepare_existing_copy
  <2> USE <1>3, FreshIdFacts DEF prepare_existing_copy, UsedIds
  <2>1. TypeOK'
    <3>1. [id |-> FreshId, bytes |-> "partial"] \in Files
      BY DEF Bytes
    <3>2. slot' \in [Names -> Files \cup {NoFile}]
      BY <3>1 DEF TypeOK
    <3> QED
      BY <3>2 DEF TypeOK, DiskInv, StagingInv, Points, NoJournal, NoDir
  <2>2. DiskInv'
    BY DEF TypeOK, DiskInv, StagingInv, PublicationInv, RecoveryInv, NoJournal, NoDir
  <2>3. StagingInv'
    BY DEF TypeOK, DiskInv, StagingInv, RecoveryInv, NoJournal, NoDir
  <2>4. PublicationInv'
    BY DEF TypeOK, DiskInv, StagingInv, PublicationInv, NoJournal, NoDir
  <2>5. RecoveryInv'
    BY DEF TypeOK, DiskInv, StagingInv, PublicationInv, RecoveryInv, NoJournal, NoDir
  <2> QED
    BY <2>1, <2>2, <2>3, <2>4, <2>5
<1>4. CASE prepare_refused
  <2> USE <1>4 DEF prepare_refused
  <2>1. TypeOK'
    BY ZenonT(60) DEF TypeOK, DiskInv, StagingInv, Points, Journals, Dirs, NoJournal, NoDir
  <2>2. DiskInv'
    BY DEF TypeOK, DiskInv, StagingInv, PublicationInv, RecoveryInv, NoJournal, NoDir
  <2>3. StagingInv'
    BY DEF TypeOK, DiskInv, StagingInv, RecoveryInv, NoJournal, NoDir
  <2>4. PublicationInv'
    BY DEF TypeOK, DiskInv, StagingInv, PublicationInv, NoJournal, NoDir
  <2>5. RecoveryInv'
    BY DEF TypeOK, DiskInv, StagingInv, PublicationInv, RecoveryInv, NoJournal, NoDir
  <2> QED
    BY <2>1, <2>2, <2>3, <2>4, <2>5
<1>5. CASE CopyCompleted
  <2> USE <1>5, RewriteFacts DEF CopyCompleted
  <2>1. TypeOK'
    <3>1. slot["staged"] \in Files /\ old.bytes \in Bytes
      BY DEF TypeOK, StagingInv
    <3>2. slot' \in [Names -> Files \cup {NoFile}]
      BY <3>1 DEF TypeOK
    <3> QED
      BY <3>2 DEF TypeOK, DiskInv, StagingInv, Points, NoJournal, NoDir
  <2>2. DiskInv'
    BY DEF TypeOK, DiskInv, StagingInv, PublicationInv, RecoveryInv, NoJournal, NoDir
  <2>3. StagingInv'
    BY DEF TypeOK, DiskInv, StagingInv, RecoveryInv, NoJournal, NoDir
  <2>4. PublicationInv'
    BY DEF TypeOK, DiskInv, StagingInv, PublicationInv, NoJournal, NoDir
  <2>5. RecoveryInv'
    BY DEF TypeOK, DiskInv, StagingInv, PublicationInv, RecoveryInv, NoJournal, NoDir
  <2> QED
    BY <2>1, <2>2, <2>3, <2>4, <2>5
<1>6. CASE CheckBase
  <2> USE DEF TypeOK, DiskInv, StagingInv, PublicationInv, RecoveryInv
  <2>1. /\ pc = "copied" /\ UNCHANGED <<mode, journal, dir, handoff, bounds>>
    BY <1>6 DEF CheckBase
  <2>2. CASE BaseMatches /\ mode = "Replace"
    <3>1. /\ pc' = "capture" /\ Remove("staged")
          /\ UNCHANGED <<after, outcome, answer, handles>>
      BY <1>6, <2>2 DEF CheckBase
    <3> QED
      BY <2>1, <2>2, <3>1 DEF Points, BaseMatches
  <2>3. CASE BaseMatches /\ mode # "Replace"
    <3>1. /\ pc' = "capture" /\ UNCHANGED slot
          /\ UNCHANGED <<after, outcome, answer, handles>>
      BY <1>6, <2>3 DEF CheckBase
    <3> QED
      BY <2>1, <2>3, <3>1 DEF Points, BaseMatches
  <2>4. CASE ~BaseMatches
    <3>1. CleanUp /\ UNCHANGED slot
      BY <1>6, <2>4 DEF CheckBase
    <3> QED
      BY ZenonT(60), <2>1, <3>1 DEF Points
  <2> QED
    BY <2>2, <2>3, <2>4
<1>7. CASE CaptureStarts
  <2> USE <1>7, FreshIdFacts DEF CaptureStarts, UsedIds
  <2>1. TypeOK'
    <3>1. /\ \A i \in FileIds : [id |-> i, bytes |-> "partial"] \in Files
          /\ mode = "Append" => slot["staged"].id \in FileIds
      BY DEF Bytes, TypeOK, StagingInv
    <3>2. slot' \in [Names -> Files \cup {NoFile}]
      BY <3>1 DEF TypeOK
    <3> QED
      BY <3>2 DEF TypeOK, DiskInv, StagingInv, Points, NoJournal, NoDir
  <2>2. DiskInv'
    BY DEF TypeOK, DiskInv, StagingInv, PublicationInv, RecoveryInv, NoJournal, NoDir
  <2>3. StagingInv'
    BY DEF TypeOK, DiskInv, StagingInv, RecoveryInv, NoJournal, NoDir
  <2>4. PublicationInv'
    BY DEF TypeOK, DiskInv, StagingInv, PublicationInv, NoJournal, NoDir
  <2>5. RecoveryInv'
    BY DEF TypeOK, DiskInv, StagingInv, PublicationInv, RecoveryInv, NoJournal, NoDir
  <2> QED
    BY <2>1, <2>2, <2>3, <2>4, <2>5
<1>8. CASE CaptureCompletes
  <2> USE <1>8, RewriteFacts DEF CaptureCompletes, CapturedBytes
  <2>1. TypeOK'
    <3>1. slot["staged"] \in Files /\ CapturedBytes \in Bytes
      BY DEF TypeOK, StagingInv, Bytes
    <3>2. slot' \in [Names -> Files \cup {NoFile}]
      BY <3>1 DEF TypeOK
    <3> QED
      BY <3>2 DEF TypeOK, DiskInv, StagingInv, Points, NoJournal, NoDir
  <2>2. DiskInv'
    BY DEF TypeOK, DiskInv, StagingInv, PublicationInv, RecoveryInv, NoJournal, NoDir
  <2>3. StagingInv'
    BY DEF TypeOK, DiskInv, StagingInv, RecoveryInv, NoJournal, NoDir
  <2>4. PublicationInv'
    BY DEF TypeOK, DiskInv, StagingInv, PublicationInv, NoJournal, NoDir
  <2>5. RecoveryInv'
    BY DEF TypeOK, DiskInv, StagingInv, PublicationInv, RecoveryInv, NoJournal, NoDir
  <2> QED
    BY <2>1, <2>2, <2>3, <2>4, <2>5
<1>9. CASE inspect_staged_file
  <2> USE <1>9 DEF inspect_staged_file
  <2>1. TypeOK'
    BY DEF TypeOK, DiskInv, StagingInv, Points, Journals, Dirs, NoJournal, NoDir
  <2>2. DiskInv'
    BY DEF TypeOK, DiskInv, StagingInv, PublicationInv, RecoveryInv, NoJournal, NoDir
  <2>3. StagingInv'
    BY DEF TypeOK, DiskInv, StagingInv, RecoveryInv, NoJournal, NoDir
  <2>4. PublicationInv'
    BY DEF TypeOK, DiskInv, StagingInv, PublicationInv, NoJournal, NoDir
  <2>5. RecoveryInv'
    BY DEF TypeOK, DiskInv, StagingInv, PublicationInv, RecoveryInv, NoJournal, NoDir
  <2> QED
    BY <2>1, <2>2, <2>3, <2>4, <2>5
<1> QED
  BY <1>1, <1>2, <1>3, <1>4, <1>5, <1>6, <1>7, <1>8, <1>9 DEF Staging

LEMMA PublicationStep == IInv /\ Publication => IInv'
<1> SUFFICES ASSUME IInv, Publication PROVE IInv'
  OBVIOUS
<1> USE FileFacts DEF Goto, Return, CleanUp, DropHandles, Remove, Put, durable, handles, bounds
<1> USE DEF IInv, Target, Previous, Staged, Prepared, HasBase, ForeignOrFree, NoHandles, PlainDir, Existing,
           StagingPoints, PublishPoints, RenamePoints, PublicationPoints, Names, Modes
<1>1. CASE publish_refused
  <2> USE <1>1 DEF publish_refused
  <2>1. TypeOK'
    BY DEF TypeOK, DiskInv, StagingInv, Points, Journals, Dirs, NoJournal, NoDir
  <2>2. DiskInv'
    BY DEF TypeOK, DiskInv, StagingInv, PublicationInv, RecoveryInv, NoJournal, NoDir
  <2>3. StagingInv'
    BY DEF TypeOK, DiskInv, StagingInv, RecoveryInv, NoJournal, NoDir
  <2>4. PublicationInv'
    BY DEF TypeOK, DiskInv, StagingInv, PublicationInv, NoJournal, NoDir
  <2>5. RecoveryInv'
    BY DEF TypeOK, DiskInv, StagingInv, PublicationInv, RecoveryInv, NoJournal, NoDir
  <2> QED
    BY <2>1, <2>2, <2>3, <2>4, <2>5
<1>2. CASE CreateJournal
  <2> USE <1>2 DEF CreateJournal, PublishAccepted
  <2>1. TypeOK'
    BY DEF TypeOK, DiskInv, StagingInv, Points, Journals, Dirs, NoJournal, NoDir
  <2>2. DiskInv'
    BY DEF TypeOK, DiskInv, StagingInv, PublicationInv, RecoveryInv, NoJournal, NoDir
  <2>3. StagingInv'
    BY DEF TypeOK, DiskInv, StagingInv, RecoveryInv, NoJournal, NoDir
  <2>4. PublicationInv'
    BY DEF TypeOK, DiskInv, StagingInv, PublicationInv, NoJournal, NoDir
  <2>5. RecoveryInv'
    BY DEF TypeOK, DiskInv, StagingInv, PublicationInv, RecoveryInv, NoJournal, NoDir
  <2> QED
    BY <2>1, <2>2, <2>3, <2>4, <2>5
<1>3. CASE FlushJournal
  <2> USE <1>3 DEF FlushJournal
  <2>1. TypeOK'
    BY DEF TypeOK, DiskInv, StagingInv, Points, Journals, Dirs, NoJournal, NoDir
  <2>2. DiskInv'
    BY DEF TypeOK, DiskInv, StagingInv, PublicationInv, RecoveryInv, NoJournal, NoDir
  <2>3. StagingInv'
    BY DEF TypeOK, DiskInv, StagingInv, RecoveryInv, NoJournal, NoDir
  <2>4. PublicationInv'
    BY DEF TypeOK, DiskInv, StagingInv, PublicationInv, NoJournal, NoDir
  <2>5. RecoveryInv'
    BY DEF TypeOK, DiskInv, StagingInv, PublicationInv, RecoveryInv, NoJournal, NoDir
  <2> QED
    BY <2>1, <2>2, <2>3, <2>4, <2>5
<1>4. CASE VerifyPublished
  <2> USE <1>4 DEF VerifyPublished
  <2>1. TypeOK'
    BY DEF TypeOK, DiskInv, StagingInv, Points, Journals, Dirs, NoJournal, NoDir
  <2>2. DiskInv'
    BY DEF TypeOK, DiskInv, StagingInv, PublicationInv, RecoveryInv, NoJournal, NoDir
  <2>3. StagingInv'
    BY DEF TypeOK, DiskInv, StagingInv, RecoveryInv, NoJournal, NoDir
  <2>4. PublicationInv'
    BY DEF TypeOK, DiskInv, StagingInv, PublicationInv, NoJournal, NoDir
  <2>5. RecoveryInv'
    BY DEF TypeOK, DiskInv, StagingInv, PublicationInv, RecoveryInv, NoJournal, NoDir
  <2> QED
    BY <2>1, <2>2, <2>3, <2>4, <2>5
<1>5. CASE mark_committed
  <2> USE <1>5 DEF mark_committed
  <2>1. TypeOK'
    BY DEF TypeOK, DiskInv, StagingInv, Points, Journals, Dirs, NoJournal, NoDir
  <2>2. DiskInv'
    BY DEF TypeOK, DiskInv, StagingInv, PublicationInv, RecoveryInv, NoJournal, NoDir
  <2>3. StagingInv'
    BY DEF TypeOK, DiskInv, StagingInv, RecoveryInv, NoJournal, NoDir
  <2>4. PublicationInv'
    BY DEF TypeOK, DiskInv, StagingInv, PublicationInv, NoJournal, NoDir
  <2>5. RecoveryInv'
    BY DEF TypeOK, DiskInv, StagingInv, PublicationInv, RecoveryInv, NoJournal, NoDir
  <2> QED
    BY <2>1, <2>2, <2>3, <2>4, <2>5
<1>6. CASE DeletePrevious
  <2> USE <1>6 DEF DeletePrevious
  <2>1. TypeOK'
    BY DEF TypeOK, DiskInv, StagingInv, Points, Journals, Dirs, NoJournal, NoDir
  <2>2. DiskInv'
    BY DEF TypeOK, DiskInv, StagingInv, PublicationInv, RecoveryInv, NoJournal, NoDir
  <2>3. StagingInv'
    BY DEF TypeOK, DiskInv, StagingInv, RecoveryInv, NoJournal, NoDir
  <2>4. PublicationInv'
    BY DEF TypeOK, DiskInv, StagingInv, PublicationInv, NoJournal, NoDir
  <2>5. RecoveryInv'
    BY DEF TypeOK, DiskInv, StagingInv, PublicationInv, RecoveryInv, NoJournal, NoDir
  <2> QED
    BY <2>1, <2>2, <2>3, <2>4, <2>5
<1>7. CASE DeleteJournal
  <2> USE <1>7 DEF DeleteJournal
  <2>1. TypeOK'
    BY DEF TypeOK, DiskInv, StagingInv, Points, Journals, Dirs, NoJournal, NoDir
  <2>2. DiskInv'
    BY DEF TypeOK, DiskInv, StagingInv, PublicationInv, RecoveryInv, NoJournal, NoDir
  <2>3. StagingInv'
    BY DEF TypeOK, DiskInv, StagingInv, RecoveryInv, NoJournal, NoDir
  <2>4. PublicationInv'
    BY DEF TypeOK, DiskInv, StagingInv, PublicationInv, NoJournal, NoDir
  <2>5. RecoveryInv'
    BY DEF TypeOK, DiskInv, StagingInv, PublicationInv, RecoveryInv, NoJournal, NoDir
  <2> QED
    BY <2>1, <2>2, <2>3, <2>4, <2>5
<1>8. CASE Finish
  <2> USE <1>8 DEF Finish
  <2>1. TypeOK'
    BY DEF TypeOK, DiskInv, StagingInv, Points, Journals, Dirs, NoJournal, NoDir
  <2>2. DiskInv'
    BY DEF TypeOK, DiskInv, StagingInv, PublicationInv, RecoveryInv, NoJournal, NoDir
  <2>3. StagingInv'
    BY DEF TypeOK, DiskInv, StagingInv, RecoveryInv, NoJournal, NoDir
  <2>4. PublicationInv'
    BY DEF TypeOK, DiskInv, StagingInv, PublicationInv, NoJournal, NoDir
  <2>5. RecoveryInv'
    BY DEF TypeOK, DiskInv, StagingInv, PublicationInv, RecoveryInv, NoJournal, NoDir
  <2> QED
    BY <2>1, <2>2, <2>3, <2>4, <2>5
<1> QED
  BY <1>1, <1>2, <1>3, <1>4, <1>5, <1>6, <1>7, <1>8 DEF Publication

LEMMA RenamesStep == IInv /\ Renames => IInv'
<1> SUFFICES ASSUME IInv, Renames PROVE IInv'
  OBVIOUS
<1> USE FileFacts DEF Goto, Return, CleanUp, DropHandles, Remove, Put, durable, handles, bounds
<1> USE DEF IInv, Target, Previous, Staged, Prepared, HasBase, ForeignOrFree, NoHandles, PlainDir, Existing,
           StagingPoints, PublishPoints, RenamePoints, PublicationPoints, Names, Modes
<1> USE DEF Renaming, UndoByUnlink, Source, Destination, RenameNext, DestinationFree, MovedFlags, MoveSlot, RenameError, StartRollback
<1>1. CASE RenameMoves
  <2> USE <1>1 DEF RenameMoves, TypeOK, DiskInv, StagingInv, PublicationInv, RecoveryInv
  <2>1. CASE pc = "moveOld"
    <3>1. /\ Target' = NoFile /\ Previous' = Target /\ Staged' = Staged
          /\ slot' \in [Names -> Files \cup {NoFile}]
      BY <2>1
    <3>2. /\ pc' = "publishNew" /\ linked' = FALSE
          /\ oldMoved' = TRUE /\ newPublished' = newPublished
      BY <2>1
    <3>3. TypeOK'
      BY <2>1, <3>1, <3>2 DEF Points
    <3>4. DiskInv'
      BY <2>1, <3>1
    <3>5. StagingInv' /\ RecoveryInv'
      BY <2>1, <3>1, <3>2
    <3>6. PublicationInv'
      BY <2>1, <3>1, <3>2
    <3> QED
      BY <3>3, <3>4, <3>5, <3>6
  <2>2. CASE pc = "publishNew"
    <3>1. /\ Staged' = NoFile /\ Target' = Staged /\ Previous' = Previous
          /\ slot' \in [Names -> Files \cup {NoFile}]
      BY <2>2
    <3>2. /\ pc' = "verifyNew" /\ linked' = FALSE
          /\ oldMoved' = oldMoved /\ newPublished' = TRUE
      BY <2>2
    <3>3. TypeOK'
      BY <2>2, <3>1, <3>2 DEF Points
    <3>4. DiskInv'
      BY <2>2, <3>1
    <3>5. StagingInv' /\ RecoveryInv'
      BY <2>2, <3>1, <3>2
    <3>6. PublicationInv'
      BY <2>2, <3>1, <3>2
    <3> QED
      BY <3>3, <3>4, <3>5, <3>6
  <2>3. CASE pc = "undoNew"
    <3>1. /\ Target' = NoFile /\ Staged' = Target /\ Previous' = Previous
          /\ slot' \in [Names -> Files \cup {NoFile}]
      BY <2>3
    <3>2. /\ pc' = (IF oldMoved THEN "undoOld" ELSE "undoJournal") /\ linked' = FALSE
          /\ oldMoved' = oldMoved /\ newPublished' = newPublished
      BY <2>3
    <3>3. TypeOK'
      BY <2>3, <3>1, <3>2 DEF Points
    <3>4. DiskInv'
      BY <2>3, <3>1
    <3>5. StagingInv' /\ RecoveryInv'
      BY <2>3, <3>1, <3>2
    <3>6. PublicationInv'
      BY <2>3, <3>1, <3>2
    <3> QED
      BY <3>3, <3>4, <3>5, <3>6
  <2>4. CASE pc = "undoOld"
    <3>1. /\ Previous' = NoFile /\ Target' = Previous /\ Staged' = Staged
          /\ slot' \in [Names -> Files \cup {NoFile}]
      BY <2>4
    <3>2. /\ pc' = "undoJournal" /\ linked' = FALSE
          /\ oldMoved' = oldMoved /\ newPublished' = newPublished
      BY <2>4
    <3>3. TypeOK'
      BY <2>4, <3>1, <3>2 DEF Points
    <3>4. DiskInv'
      BY <2>4, <3>1
    <3>5. StagingInv' /\ RecoveryInv'
      BY <2>4, <3>1, <3>2
    <3>6. PublicationInv'
      BY <2>4, <3>1, <3>2
    <3> QED
      BY <3>3, <3>4, <3>5, <3>6
  <2>5. CASE pc = "rbRestore"
    <3>1. /\ Previous' = NoFile /\ Target' = Previous /\ Staged' = Staged
          /\ slot' \in [Names -> Files \cup {NoFile}]
      BY <2>5
    <3>2. /\ pc' = "rbStaged" /\ linked' = FALSE
          /\ oldMoved' = oldMoved /\ newPublished' = newPublished
      BY <2>5
    <3>3. TypeOK'
      BY <2>5, <3>1, <3>2 DEF Points
    <3>4. DiskInv'
      BY <2>5, <3>1
    <3>5. StagingInv' /\ RecoveryInv'
      BY <2>5, <3>1, <3>2
    <3>6. PublicationInv'
      BY <2>5, <3>1, <3>2
    <3> QED
      BY <3>3, <3>4, <3>5, <3>6
  <2> QED
    BY <2>1, <2>2, <2>3, <2>4, <2>5
<1>2. CASE HardLinkCreated
  <2> USE <1>2 DEF HardLinkCreated, TypeOK, DiskInv, StagingInv, PublicationInv, RecoveryInv
  <2>1. CASE pc = "moveOld"
    <3>1. /\ Target' = Target /\ Previous' = Target /\ Staged' = Staged
          /\ slot' \in [Names -> Files \cup {NoFile}]
      BY <2>1
    <3>2. /\ pc' = "moveOld" /\ linked' = TRUE
          /\ oldMoved' = TRUE /\ newPublished' = newPublished
      BY <2>1
    <3>3. TypeOK'
      BY <2>1, <3>1, <3>2 DEF Points
    <3>4. DiskInv'
      BY <2>1, <3>1
    <3>5. StagingInv' /\ RecoveryInv'
      BY <2>1, <3>1, <3>2
    <3>6. PublicationInv'
      BY <2>1, <3>1, <3>2
    <3> QED
      BY <3>3, <3>4, <3>5, <3>6
  <2>2. CASE pc = "publishNew"
    <3>1. /\ Staged' = Staged /\ Target' = Staged /\ Previous' = Previous
          /\ slot' \in [Names -> Files \cup {NoFile}]
      BY <2>2
    <3>2. /\ pc' = "publishNew" /\ linked' = TRUE
          /\ oldMoved' = oldMoved /\ newPublished' = TRUE
      BY <2>2
    <3>3. TypeOK'
      BY <2>2, <3>1, <3>2 DEF Points
    <3>4. DiskInv'
      BY <2>2, <3>1
    <3>5. StagingInv' /\ RecoveryInv'
      BY <2>2, <3>1, <3>2
    <3>6. PublicationInv'
      BY <2>2, <3>1, <3>2
    <3> QED
      BY <3>3, <3>4, <3>5, <3>6
  <2>3. CASE pc = "undoNew"
    <3>1. /\ Target' = Target /\ Staged' = Target /\ Previous' = Previous
          /\ slot' \in [Names -> Files \cup {NoFile}]
      BY <2>3
    <3>2. /\ pc' = "undoNew" /\ linked' = TRUE
          /\ oldMoved' = oldMoved /\ newPublished' = newPublished
      BY <2>3
    <3>3. TypeOK'
      BY <2>3, <3>1, <3>2 DEF Points
    <3>4. DiskInv'
      BY <2>3, <3>1
    <3>5. StagingInv' /\ RecoveryInv'
      BY <2>3, <3>1, <3>2
    <3>6. PublicationInv'
      BY <2>3, <3>1, <3>2
    <3> QED
      BY <3>3, <3>4, <3>5, <3>6
  <2>4. CASE pc = "undoOld"
    <3>1. /\ Previous' = Previous /\ Target' = Previous /\ Staged' = Staged
          /\ slot' \in [Names -> Files \cup {NoFile}]
      BY <2>4
    <3>2. /\ pc' = "undoOld" /\ linked' = TRUE
          /\ oldMoved' = oldMoved /\ newPublished' = newPublished
      BY <2>4
    <3>3. TypeOK'
      BY <2>4, <3>1, <3>2 DEF Points
    <3>4. DiskInv'
      BY <2>4, <3>1
    <3>5. StagingInv' /\ RecoveryInv'
      BY <2>4, <3>1, <3>2
    <3>6. PublicationInv'
      <4>1. held /\ oldMoved /\ Existing /\ Staged = new /\ Previous = old /\ old # new
        BY <2>4
      <4> QED
        BY <2>4, <3>1, <3>2, <4>1
    <3> QED
      BY <3>3, <3>4, <3>5, <3>6
  <2>5. CASE pc = "rbRestore"
    <3>1. /\ Previous' = Previous /\ Target' = Previous /\ Staged' = Staged
          /\ slot' \in [Names -> Files \cup {NoFile}]
      BY <2>5
    <3>2. /\ pc' = "rbRestore" /\ linked' = TRUE
          /\ oldMoved' = oldMoved /\ newPublished' = newPublished
      BY <2>5
    <3>3. TypeOK'
      BY <2>5, <3>1, <3>2 DEF Points
    <3>4. DiskInv'
      BY <2>5, <3>1
    <3>5. StagingInv' /\ RecoveryInv'
      BY <2>5, <3>1, <3>2
    <3>6. PublicationInv'
      BY <2>5, <3>1, <3>2
    <3> QED
      BY <3>3, <3>4, <3>5, <3>6
  <2> QED
    BY <2>1, <2>2, <2>3, <2>4, <2>5
<1>3. CASE HardLinkSourceDeleted
  <2> USE <1>3 DEF HardLinkSourceDeleted, TypeOK, DiskInv, StagingInv, PublicationInv, RecoveryInv
  <2>1. CASE pc = "moveOld"
    <3>1. /\ Target' = NoFile /\ Previous' = Previous /\ Staged' = Staged
          /\ slot' \in [Names -> Files \cup {NoFile}]
      BY <2>1
    <3>2. /\ pc' = "publishNew" /\ linked' = FALSE
          /\ oldMoved' = oldMoved /\ newPublished' = newPublished
      BY <2>1
    <3>3. TypeOK'
      BY ZenonT(60), <2>1, <3>1, <3>2 DEF Points
    <3>4. DiskInv'
      BY <2>1, <3>1
    <3>5. StagingInv' /\ RecoveryInv'
      BY <2>1, <3>1, <3>2
    <3>6. PublicationInv'
      BY <2>1, <3>1, <3>2
    <3> QED
      BY <3>3, <3>4, <3>5, <3>6
  <2>2. CASE pc = "publishNew"
    <3>1. /\ Staged' = NoFile /\ Target' = Target /\ Previous' = Previous
          /\ slot' \in [Names -> Files \cup {NoFile}]
      BY <2>2
    <3>2. /\ pc' = "verifyNew" /\ linked' = FALSE
          /\ oldMoved' = oldMoved /\ newPublished' = newPublished
      BY <2>2
    <3>3. TypeOK'
      BY ZenonT(60), <2>2, <3>1, <3>2 DEF Points
    <3>4. DiskInv'
      BY <2>2, <3>1
    <3>5. StagingInv' /\ RecoveryInv'
      BY <2>2, <3>1, <3>2
    <3>6. PublicationInv'
      BY <2>2, <3>1, <3>2
    <3> QED
      BY <3>3, <3>4, <3>5, <3>6
  <2>3. CASE pc = "undoNew"
    <3>1. /\ Target' = NoFile /\ Staged' = Staged /\ Previous' = Previous
          /\ slot' \in [Names -> Files \cup {NoFile}]
      BY <2>3
    <3>2. /\ pc' = (IF oldMoved THEN "undoOld" ELSE "undoJournal") /\ linked' = FALSE
          /\ oldMoved' = oldMoved /\ newPublished' = newPublished
      BY <2>3
    <3>3. TypeOK'
      BY ZenonT(60), <2>3, <3>1, <3>2 DEF Points
    <3>4. DiskInv'
      BY <2>3, <3>1
    <3>5. StagingInv' /\ RecoveryInv'
      BY <2>3, <3>1, <3>2
    <3>6. PublicationInv'
      <4>1. held /\ Staged = new /\ Previous = old /\ newPublished
        BY <2>3
      <4>2. CASE oldMoved
        BY <2>3, <3>1, <3>2, <4>1, <4>2
      <4>3. CASE ~oldMoved
        BY <2>3, <3>1, <3>2, <4>1, <4>3
      <4> QED
        BY <4>2, <4>3
    <3> QED
      BY <3>3, <3>4, <3>5, <3>6
  <2>4. CASE pc = "undoOld"
    <3>1. /\ Previous' = NoFile /\ Target' = Target /\ Staged' = Staged
          /\ slot' \in [Names -> Files \cup {NoFile}]
      BY <2>4
    <3>2. /\ pc' = "undoJournal" /\ linked' = FALSE
          /\ oldMoved' = oldMoved /\ newPublished' = newPublished
      BY <2>4
    <3>3. TypeOK'
      BY ZenonT(60), <2>4, <3>1, <3>2 DEF Points
    <3>4. DiskInv'
      BY <2>4, <3>1
    <3>5. StagingInv' /\ RecoveryInv'
      BY <2>4, <3>1, <3>2
    <3>6. PublicationInv'
      BY <2>4, <3>1, <3>2
    <3> QED
      BY <3>3, <3>4, <3>5, <3>6
  <2>5. CASE pc = "rbRestore"
    <3>1. /\ Previous' = NoFile /\ Target' = Target /\ Staged' = Staged
          /\ slot' \in [Names -> Files \cup {NoFile}]
      BY <2>5
    <3>2. /\ pc' = "rbStaged" /\ linked' = FALSE
          /\ oldMoved' = oldMoved /\ newPublished' = newPublished
      BY <2>5
    <3>3. TypeOK'
      BY ZenonT(60), <2>5, <3>1, <3>2 DEF Points
    <3>4. DiskInv'
      BY <2>5, <3>1
    <3>5. StagingInv' /\ RecoveryInv'
      BY <2>5, <3>1, <3>2
    <3>6. PublicationInv'
      BY <2>5, <3>1, <3>2
    <3> QED
      BY <3>3, <3>4, <3>5, <3>6
  <2> QED
    BY <2>1, <2>2, <2>3, <2>4, <2>5
<1>4. CASE RenameRefused
  <2> USE <1>4 DEF RenameRefused
  <2>1. TypeOK'
    <3>1. CASE pc \in PublishPoints
      <4>1. /\ oldMoved' = oldMoved /\ newPublished' = newPublished
            /\ held' = held /\ linked' = FALSE /\ UNCHANGED <<after, outcome, answer, old, new>>
            /\ pc' \in {"undoNew", "undoOld", "undoJournal"}
        BY <3>1 DEF TypeOK
      <4>2. pc' \in Points
        BY <4>1 DEF Points
      <4>3. UNCHANGED <<mode, slot, journal, dir, handoff, faults, foreigns>>
        OBVIOUS
      <4> HIDE <1>4
      <4> QED
        BY ZenonT(60), <4>1, <4>2, <4>3 DEF TypeOK
    <3>2. CASE pc \notin PublishPoints
      <4>1. Return("error")
        BY <3>2
      <4> QED
        BY <4>1 DEF TypeOK, Points
    <3> QED
      BY <3>1, <3>2
  <2>2. DiskInv'
    BY DEF TypeOK, DiskInv, StagingInv, PublicationInv, RecoveryInv, NoJournal, NoDir
  <2>3. StagingInv'
    BY DEF TypeOK, DiskInv, StagingInv, RecoveryInv, NoJournal, NoDir
  <2>4. PublicationInv'
    BY DEF TypeOK, DiskInv, StagingInv, PublicationInv, NoJournal, NoDir
  <2>5. RecoveryInv'
    BY DEF TypeOK, DiskInv, StagingInv, PublicationInv, RecoveryInv, NoJournal, NoDir
  <2> QED
    BY <2>1, <2>2, <2>3, <2>4, <2>5
<1>5. CASE UnlinkPublished
  <2> USE <1>5 DEF UnlinkPublished
  <2>1. TypeOK'
    BY DEF TypeOK, DiskInv, StagingInv, Points, Journals, Dirs, NoJournal, NoDir
  <2>2. DiskInv'
    BY DEF TypeOK, DiskInv, StagingInv, PublicationInv, RecoveryInv, NoJournal, NoDir
  <2>3. StagingInv'
    BY DEF TypeOK, DiskInv, StagingInv, RecoveryInv, NoJournal, NoDir
  <2>4. PublicationInv'
    BY DEF TypeOK, DiskInv, StagingInv, PublicationInv, NoJournal, NoDir
  <2>5. RecoveryInv'
    BY DEF TypeOK, DiskInv, StagingInv, PublicationInv, RecoveryInv, NoJournal, NoDir
  <2> QED
    BY <2>1, <2>2, <2>3, <2>4, <2>5
<1>6. CASE UnlinkRefused
  <2> USE <1>6 DEF UnlinkRefused
  <2>1. TypeOK'
    BY DEF TypeOK, DiskInv, StagingInv, Points, Journals, Dirs, NoJournal, NoDir
  <2>2. DiskInv'
    BY DEF TypeOK, DiskInv, StagingInv, PublicationInv, RecoveryInv, NoJournal, NoDir
  <2>3. StagingInv'
    BY DEF TypeOK, DiskInv, StagingInv, RecoveryInv, NoJournal, NoDir
  <2>4. PublicationInv'
    BY DEF TypeOK, DiskInv, StagingInv, PublicationInv, NoJournal, NoDir
  <2>5. RecoveryInv'
    BY DEF TypeOK, DiskInv, StagingInv, PublicationInv, RecoveryInv, NoJournal, NoDir
  <2> QED
    BY <2>1, <2>2, <2>3, <2>4, <2>5
<1>7. CASE RollbackCompleted
  <2> USE <1>7 DEF RollbackCompleted
  <2>1. TypeOK'
    BY DEF TypeOK, DiskInv, StagingInv, Points, Journals, Dirs, NoJournal, NoDir
  <2>2. DiskInv'
    BY DEF TypeOK, DiskInv, StagingInv, PublicationInv, RecoveryInv, NoJournal, NoDir
  <2>3. StagingInv'
    BY DEF TypeOK, DiskInv, StagingInv, RecoveryInv, NoJournal, NoDir
  <2>4. PublicationInv'
    BY DEF TypeOK, DiskInv, StagingInv, PublicationInv, NoJournal, NoDir
  <2>5. RecoveryInv'
    BY DEF TypeOK, DiskInv, StagingInv, PublicationInv, RecoveryInv, NoJournal, NoDir
  <2> QED
    BY <2>1, <2>2, <2>3, <2>4, <2>5
<1> QED
  BY <1>1, <1>2, <1>3, <1>4, <1>5, <1>6, <1>7 DEF Renames

LEMMA EnvironmentStep == IInv /\ Environment => IInv'
<1> SUFFICES ASSUME IInv, Environment PROVE IInv'
  OBVIOUS
<1> USE FileFacts DEF Goto, Return, CleanUp, DropHandles, Remove, Put, durable, handles, bounds
<1> USE DEF IInv, Target, Previous, Staged, Prepared, HasBase, ForeignOrFree, NoHandles, PlainDir, Existing,
           StagingPoints, PublishPoints, RenamePoints, PublicationPoints, Names, Modes
<1> USE DEF Renaming, UndoByUnlink, Source, Destination, RenameNext, DestinationFree, MovedFlags, MoveSlot, RenameError, StartRollback
<1>1. CASE RenameFails
  <2> USE DEF TypeOK, DiskInv, StagingInv, PublicationInv, RecoveryInv
  <2>1. PICK moved \in BOOLEAN, kept \in BOOLEAN :
          /\ IF ~moved THEN UNCHANGED slot
             ELSE IF linked THEN Remove(Source)
             ELSE held /\ DestinationFree /\ MoveSlot
          /\ RenameError(moved \/ linked \/ ~kept, kept)
    BY <1>1 DEF RenameFails
  <2>2. /\ pc \in RenamePoints /\ ~UndoByUnlink
        /\ UNCHANGED <<mode, journal, dir, handoff, foreigns>>
        /\ faults' \in 0..MaxFaults
    BY <1>1, FaultFacts DEF RenameFails
  <2>3. CASE pc = "moveOld"
    <3>1. /\ slot' \in [Names -> Files \cup {NoFile}] /\ Staged' = Staged
          /\ IF moved THEN Target' = NoFile /\ Previous' = Target ELSE Target' = Target /\ Previous' = Previous
      BY <2>1, <2>2, <2>3
    <3>2. /\ held' = kept /\ linked' = FALSE /\ UNCHANGED <<after, outcome, answer, old, new>>
          /\ oldMoved' = (moved \/ linked \/ ~kept) /\ newPublished' = newPublished
          /\ pc' = IF moved \/ linked \/ ~kept THEN "undoOld" ELSE "undoJournal"
      BY <2>1, <2>3
    <3>3. TypeOK'
      BY ZenonT(60), <2>2, <2>3, <3>1, <3>2 DEF Points
    <3>4. DiskInv'
      BY <2>2, <2>3, <3>1
    <3>5. StagingInv' /\ RecoveryInv'
      BY <2>2, <2>3, <3>1, <3>2
    <3>6. PublicationInv'
      <4>1. CASE moved \/ linked \/ ~kept
        <5>1. pc' = "undoOld" /\ oldMoved' = TRUE
          BY <3>2, <4>1
        <5>2. old # new /\ Target' # new
          BY <2>3, <3>1
        <5>3. held' => Previous' = old
          BY <2>2, <2>3, <3>1, <3>2, <4>1
        <5> QED
          BY <2>2, <2>3, <3>1, <3>2, <5>1, <5>2, <5>3
      <4>2. CASE ~(moved \/ linked \/ ~kept)
        <5>1. pc' = "undoJournal"
          BY <3>2, <4>2
        <5> QED
          BY <2>2, <2>3, <3>1, <3>2, <4>2, <5>1
      <4> QED
        BY <4>1, <4>2
    <3> QED
      BY <3>3, <3>4, <3>5, <3>6
  <2>4. CASE pc = "publishNew"
    <3>1. /\ slot' \in [Names -> Files \cup {NoFile}] /\ Previous' = Previous
          /\ IF moved THEN Staged' = NoFile /\ Target' = Staged ELSE Staged' = Staged /\ Target' = Target
      BY <2>1, <2>2, <2>4
    <3>2. /\ held' = kept /\ linked' = FALSE /\ UNCHANGED <<after, outcome, answer, old, new>>
          /\ newPublished' = (moved \/ linked \/ ~kept) /\ oldMoved' = oldMoved
          /\ pc' = IF moved \/ linked \/ ~kept THEN "undoNew" ELSE (IF oldMoved THEN "undoOld" ELSE "undoJournal")
      BY <2>1, <2>4
    <3>3. TypeOK'
      BY ZenonT(60), <2>2, <2>4, <3>1, <3>2 DEF Points
    <3>4. DiskInv'
      BY <2>2, <2>4, <3>1
    <3>5. StagingInv' /\ RecoveryInv'
      BY <2>2, <2>4, <3>1, <3>2
    <3>6. PublicationInv'
      BY ZenonT(60), <2>2, <2>4, <3>1, <3>2
    <3> QED
      BY <3>3, <3>4, <3>5, <3>6
  <2>5. CASE pc = "undoNew"
    <3>1. /\ slot' \in [Names -> Files \cup {NoFile}] /\ Previous' = Previous
          /\ moved => held
          /\ IF moved THEN Target' = NoFile /\ Staged' = Target ELSE Target' = Target /\ Staged' = Staged
      BY <2>1, <2>2, <2>5
    <3>2. Return("error")
      BY <2>1, <2>5
    <3>3. TypeOK'
      BY <2>2, <2>5, <3>1, <3>2 DEF Points
    <3>4. DiskInv'
      BY <2>2, <2>5, <3>1
    <3>5. StagingInv' /\ RecoveryInv'
      BY <2>2, <2>5, <3>1, <3>2
    <3>6. PublicationInv'
      BY <2>2, <2>5, <3>1, <3>2
    <3> QED
      BY <3>3, <3>4, <3>5, <3>6
  <2>6. CASE pc = "undoOld"
    <3>1. /\ slot' \in [Names -> Files \cup {NoFile}] /\ Staged' = Staged
          /\ moved => held
          /\ IF moved THEN Previous' = NoFile /\ Target' = Previous ELSE Previous' = Previous /\ Target' = Target
      BY <2>1, <2>2, <2>6
    <3>2. Return("error")
      BY <2>1, <2>6
    <3>3. TypeOK'
      BY <2>2, <2>6, <3>1, <3>2 DEF Points
    <3>4. DiskInv'
      BY <2>2, <2>6, <3>1
    <3>5. StagingInv' /\ RecoveryInv'
      BY <2>2, <2>6, <3>1, <3>2
    <3>6. PublicationInv'
      BY <2>2, <2>6, <3>1, <3>2
    <3> QED
      BY <3>3, <3>4, <3>5, <3>6
  <2>7. CASE pc = "rbRestore"
    <3>1. /\ slot' \in [Names -> Files \cup {NoFile}] /\ Staged' = Staged
          /\ moved => held
          /\ IF moved THEN Previous' = NoFile /\ Target' = Previous ELSE Previous' = Previous /\ Target' = Target
      BY <2>1, <2>2, <2>7
    <3>2. Return("error")
      BY <2>1, <2>7
    <3>3. TypeOK'
      BY <2>2, <2>7, <3>1, <3>2 DEF Points
    <3>4. DiskInv'
      BY <2>2, <2>7, <3>1
    <3>5. StagingInv' /\ RecoveryInv'
      BY <2>2, <2>7, <3>1, <3>2
    <3>6. PublicationInv'
      BY <2>2, <2>7, <3>1, <3>2
    <3> QED
      BY <3>3, <3>4, <3>5, <3>6
  <2> QED
    BY <2>2, <2>3, <2>4, <2>5, <2>6, <2>7
<1>2. CASE IoError
  <2> USE DEF TypeOK, DiskInv, StagingInv, PublicationInv, RecoveryInv
  <2>1. /\ UNCHANGED <<mode, durable, handoff, foreigns>> /\ faults' \in 0..MaxFaults
    BY <1>2, FaultFacts DEF IoError
  <2>2. CASE pc \in StagingPoints
    <3>1. CleanUp
      BY <1>2, <2>2 DEF IoError
    <3>2. TypeOK'
      BY <2>1, <3>1 DEF Points
    <3>3. DiskInv' /\ StagingInv' /\ PublicationInv' /\ RecoveryInv'
      BY <2>1, <2>2, <3>1
    <3> QED
      BY <3>2, <3>3
  <2>3. CASE pc = "verifyNew"
    <3>1. pc' = "undoNew" /\ UNCHANGED <<after, outcome, answer, handles>>
      BY <1>2, <2>3 DEF IoError
    <3> QED
      BY <2>1, <2>3, <3>1 DEF Points
  <2>4. CASE pc = "remove" /\ outcome = "Committed"
    <3>1. pc' = "succeeded" /\ UNCHANGED <<after, outcome, answer, handles>>
      BY <1>2, <2>4 DEF IoError
    <3> QED
      BY <2>1, <2>4, <3>1 DEF Points
  <2>5. CASE ~(pc \in StagingPoints \/ pc = "verifyNew" \/ (pc = "remove" /\ outcome = "Committed"))
    <3>1. Return("error")
      BY <1>2, <2>5 DEF IoError
    <3>2. TypeOK'
      BY <2>1, <3>1 DEF Points
    <3>3. DiskInv' /\ StagingInv' /\ PublicationInv' /\ RecoveryInv'
      BY <2>1, <3>1
    <3> QED
      BY <3>2, <3>3
  <2> QED
    BY <2>2, <2>3, <2>4, <2>5
<1>3. CASE Crash
  <2> USE <1>3, FaultFacts DEF Crash
  <2>1. TypeOK'
    BY DEF TypeOK, DiskInv, StagingInv, Points, Journals, Dirs, NoJournal, NoDir
  <2>2. DiskInv'
    BY DEF TypeOK, DiskInv, StagingInv, PublicationInv, RecoveryInv, NoJournal, NoDir
  <2>3. StagingInv'
    BY DEF TypeOK, DiskInv, StagingInv, RecoveryInv, NoJournal, NoDir
  <2>4. PublicationInv'
    BY DEF TypeOK, DiskInv, StagingInv, PublicationInv, NoJournal, NoDir
  <2>5. RecoveryInv'
    BY DEF TypeOK, DiskInv, StagingInv, PublicationInv, RecoveryInv, NoJournal, NoDir
  <2> QED
    BY <2>1, <2>2, <2>3, <2>4, <2>5
<1>4. CASE ForeignCreates
  <2> USE <1>4, FreshIdFacts DEF ForeignCreates, UsedIds
  <2>1. TypeOK'
    <3>1. [id |-> FreshId, bytes |-> "foreign"] \in Files
      BY DEF Bytes
    <3>2. slot' \in [Names -> Files \cup {NoFile}]
      BY <3>1 DEF TypeOK
    <3>3. foreigns' \in 0..MaxForeign
      BY BoundsAssumption DEF TypeOK
    <3> QED
      BY <3>2, <3>3 DEF TypeOK, DiskInv, StagingInv, Points, NoJournal, NoDir
  <2>2. DiskInv'
    BY DEF TypeOK, DiskInv, StagingInv, PublicationInv, RecoveryInv, NoJournal, NoDir
  <2>3. StagingInv'
    BY DEF TypeOK, DiskInv, StagingInv, RecoveryInv, NoJournal, NoDir
  <2>4. PublicationInv'
    BY DEF TypeOK, DiskInv, StagingInv, PublicationInv, NoJournal, NoDir
  <2>5. RecoveryInv'
    BY DEF TypeOK, DiskInv, StagingInv, PublicationInv, RecoveryInv, NoJournal, NoDir
  <2> QED
    BY <2>1, <2>2, <2>3, <2>4, <2>5
<1>5. CASE ForeignRemoves
  <2> USE <1>5 DEF ForeignRemoves
  <2>1. TypeOK'
    BY DEF TypeOK, DiskInv, StagingInv, Points, Journals, Dirs, NoJournal, NoDir
  <2>2. DiskInv'
    BY DEF TypeOK, DiskInv, StagingInv, PublicationInv, RecoveryInv, NoJournal, NoDir
  <2>3. StagingInv'
    BY DEF TypeOK, DiskInv, StagingInv, RecoveryInv, NoJournal, NoDir
  <2>4. PublicationInv'
    BY DEF TypeOK, DiskInv, StagingInv, PublicationInv, NoJournal, NoDir
  <2>5. RecoveryInv'
    BY DEF TypeOK, DiskInv, StagingInv, PublicationInv, RecoveryInv, NoJournal, NoDir
  <2> QED
    BY <2>1, <2>2, <2>3, <2>4, <2>5
<1> QED
  BY <1>1, <1>2, <1>3, <1>4, <1>5 DEF Environment

LEMMA StutterStep == IInv /\ UNCHANGED vars => IInv'
<1> SUFFICES ASSUME IInv, UNCHANGED vars PROVE IInv'
  OBVIOUS
<1> USE DEF IInv, vars, durable, handles, bounds
<1>1. TypeOK'
  BY DEF TypeOK
<1>2. DiskInv'
  BY DEF DiskInv, Target, Previous, Staged, Prepared, HasBase, Existing
<1>3. StagingInv'
  BY DEF StagingInv, Target, Staged, Existing, PlainDir, ForeignOrFree
<1>4. PublicationInv'
  BY DEF PublicationInv, Target, Previous, Staged, Prepared, Existing, PlainDir, ForeignOrFree
<1>5. RecoveryInv'
  BY DEF RecoveryInv, Target, Previous, Staged, Prepared, Existing, PlainDir, ForeignOrFree, NoHandles
<1> QED
  BY <1>1, <1>2, <1>3, <1>4, <1>5

\* IInv is inductive: one lemma per group of actions.
LEMMA InductiveStep == IInv /\ [Next]_vars => IInv'
  BY EntryStep, RecoveryStep, StagingStep, PublicationStep, RenamesStep, EnvironmentStep, StutterStep
  DEF Next, Program

THEOREM InductiveInvariant == Spec => []IInv
<1>1. Init => IInv
  BY InitInv
<1>2. IInv /\ [Next]_vars => IInv'
  BY InductiveStep
<1> QED
  BY <1>1, <1>2, PTL DEF Spec

\* Every variable of the publication model keeps its type.
THEOREM TypeCorrect == Spec => []TypeOK
<1>1. IInv => TypeOK
  BY DEF IInv
<1> QED
  BY <1>1, InductiveInvariant, PTL

\* The public name never shows an unfinished or doubly appended image.
THEOREM PublicImageSoundHolds == Spec => []PublicImageSound
<1>1. IInv => PublicImageSound
  BY DEF IInv, DiskInv, PublicImageSound
<1> QED
  BY <1>1, InductiveInvariant, PTL

\* The old image is never in the private slot without the journal that names it.
THEOREM PreviousJournalledHolds == Spec => []PreviousJournalled
<1>1. IInv => PreviousJournalled
  BY FileFacts DEF IInv, DiskInv, Prepared, Previous, PreviousJournalled
<1> QED
  BY <1>1, InductiveInvariant, PTL

\* Committed and Ok are reported only with the complete new image public.
THEOREM CommittedIsPublicHolds == Spec => []CommittedIsPublic
<1>1. IInv => CommittedIsPublic
  <2> SUFFICES ASSUME IInv, outcome = "Committed" \/ answer = "ok" PROVE
         Target.bytes = "image" /\ (pc \in {"remove", "succeeded", "idle"} => slot["previous"] = NoFile)
    BY DEF CommittedIsPublic
  <2> QED
    BY DEF IInv, DiskInv, RecoveryInv, Prepared, Previous
<1> QED
  BY <1>1, InductiveInvariant, PTL

\* A rollback that deletes the journal has restored exactly the old state.
THEOREM RolledBackExactlyHolds == Spec => []RolledBackExactly
<1>1. IInv => RolledBackExactly
  <2> SUFFICES ASSUME IInv, pc = "undoJournal" PROVE
         Staged = new /\ (Existing => Target = old /\ Previous = NoFile) /\ Target # new
    BY DEF RolledBackExactly, Staged, Previous
  <2> QED
    BY FileFacts DEF IInv, DiskInv, PublicationInv, PublicationPoints, ForeignOrFree, Prepared
<1> QED
  BY <1>1, InductiveInvariant, PTL

\* Outside a PREPARED transaction nobody but another program changes the
\* public name, and nothing is in the private slot to lose.
LEMMA NamesMoveUnderJournal ==
    IInv /\ Next =>
       /\ Target' = Target \/ Prepared' \/ ForeignCreates \/ ForeignRemoves
       /\ Previous' = Previous \/ Prepared'
<1> SUFFICES ASSUME IInv, Next PROVE
       /\ Target' = Target \/ Prepared' \/ ForeignCreates \/ ForeignRemoves
       /\ Previous' = Previous \/ Prepared'
  OBVIOUS
<1> USE DEF Target, Previous, Prepared, Goto, Remove, Put, durable, bounds
<1>1. slot \in [Names -> Files \cup {NoFile}]
  BY DEF IInv, TypeOK
<1>2. CASE Start \/ open_if_present
  BY <1>2 DEF Start, open_if_present
<1>3. CASE Recovery
  <2>1. CASE RecoverDeletesPrevious \/ RecoverUnlinksPublic
    BY <2>1 DEF RecoverDeletesPrevious, RecoverUnlinksPublic, IInv, RecoveryInv
  <2>2. CASE rollback_unprepared \/ RecoverDeletesStaged
    BY <1>1, <2>2 DEF rollback_unprepared, RecoverDeletesStaged, Names
  <2>3. CASE recover_receipt \/ recover_impl \/ recover_refuses \/ RecoverDeletesJournal \/ remove_empty
    BY <2>3 DEF recover_receipt, recover_impl, recover_refuses, RecoverDeletesJournal, remove_empty
  <2> QED
    BY <1>3, <2>1, <2>2, <2>3 DEF Recovery
<1>4. CASE Staging
  <2>1. CASE create_refused \/ create \/ prepare_refused \/ inspect_staged_file
    BY <2>1 DEF create_refused, create, prepare_refused, inspect_staged_file
  <2>2. CASE prepare_existing_copy \/ CopyCompleted \/ CheckBase \/ CaptureStarts \/ CaptureCompletes
    BY <1>1, <2>2 DEF prepare_existing_copy, CopyCompleted, CheckBase, CaptureStarts,
                      CaptureCompletes, Names
  <2> QED
    BY <1>4, <2>1, <2>2 DEF Staging
<1>5. CASE Publication
  <2>1. CASE DeletePrevious
    BY <2>1 DEF DeletePrevious, IInv, PublicationInv, PublicationPoints
  <2>2. CASE ~DeletePrevious
    BY <1>5, <2>2 DEF Publication, publish_refused, CreateJournal, FlushJournal, VerifyPublished,
                      mark_committed, DeleteJournal, Finish
  <2> QED
    BY <2>1, <2>2
<1>6. CASE Renames \/ RenameFails
  <2>1. CASE RollbackCompleted
    BY <2>1 DEF RollbackCompleted
  <2>2. CASE (Renames /\ ~RollbackCompleted) \/ RenameFails
    <3>1. pc \in RenamePoints /\ journal' = journal
      BY <2>2 DEF Renames, RenameMoves, HardLinkCreated, HardLinkSourceDeleted, RenameRefused,
                  UnlinkPublished, UnlinkRefused, RenameFails, Renaming, UndoByUnlink, RenamePoints
    <3> QED
      BY <3>1 DEF IInv, PublicationInv, PublicationPoints, PublishPoints, RecoveryInv, RenamePoints
  <2> QED
    BY <1>6, <2>1, <2>2
<1>7. CASE IoError \/ Crash
  BY <1>7 DEF IoError, Crash
<1>8. CASE ForeignCreates \/ ForeignRemoves
  BY <1>1, <1>8 DEF ForeignCreates, ForeignRemoves, Names
<1> QED
  BY <1>2, <1>3, <1>4, <1>5, <1>6, <1>7, <1>8 DEF Next, Program, Environment

\* No crash, fault, fallback or competing file ever costs the user the only
\* good image of an existing backup.
THEOREM ImageSurvivesHolds == Spec => ImageSurvives
<1>1. IInv /\ IInv' /\ [Next]_vars => (Existing /\ Survives => Survives')
  <2> SUFFICES ASSUME IInv, IInv', Next, Existing, Survives PROVE Survives'
    BY DEF vars, durable, Survives, HasBase, Target
  <2> USE FileFacts DEF IInv, DiskInv, Survives, HasBase, Target, Previous, Prepared
  <2>1. Existing'
    <3>1. mode' = mode
      BY DEF Next, Program, Environment, Recovery, Staging, Publication, Renames,
         Start, open_if_present, recover_receipt, rollback_unprepared, recover_impl,
         recover_refuses, RecoverDeletesPrevious, RecoverUnlinksPublic, RecoverDeletesStaged,
         RecoverDeletesJournal, remove_empty, create_refused, create, prepare_existing_copy,
         prepare_refused, CopyCompleted, CheckBase, CaptureStarts, CaptureCompletes,
         inspect_staged_file, publish_refused, CreateJournal, FlushJournal, VerifyPublished,
         mark_committed, DeletePrevious, DeleteJournal, Finish, RenameMoves, HardLinkCreated,
         HardLinkSourceDeleted, RenameRefused, UnlinkPublished, UnlinkRefused,
         RollbackCompleted, RenameFails, IoError, Crash, ForeignCreates, ForeignRemoves
    <3> QED
      BY <3>1 DEF Existing
  <2>2. CASE Prepared'
    BY <2>1, <2>2
  <2>3. CASE ~Prepared'
    <3>1. Previous' = NoFile /\ Previous' = Previous
      BY <2>3, NamesMoveUnderJournal
    <3>2. Target = BaseFile \/ Target.bytes = "image"
      BY <3>1
    <3>3. ~ForeignCreates /\ ~ForeignRemoves
      BY <3>2 DEF ForeignCreates, ForeignRemoves
    <3>4. Target' = Target
      BY <2>3, <3>3, NamesMoveUnderJournal
    <3> QED
      BY <3>2, <3>4
  <2> QED
    BY <2>2, <2>3
<1> QED
  BY <1>1, InductiveInvariant, PTL DEF Spec, ImageSurvives

\* A step that changes the public name finds there nothing, or an image of
\* this publication; only the other program removes its own file.
LEMMA TargetChange ==
    IInv /\ Next /\ Target' # Target =>
       \/ ForeignRemoves
       \/ Target = NoFile
       \/ Prepared /\ Prepared' /\ Target \in {journal.old, journal.new}
          /\ pc \in {"moveOld", "undoNew", "rbPublic"}
<1> SUFFICES ASSUME IInv, Next, Target' # Target, ~ForeignRemoves, Target # NoFile
             PROVE Prepared /\ Prepared' /\ Target \in {journal.old, journal.new}
                   /\ pc \in {"moveOld", "undoNew", "rbPublic"}
  OBVIOUS
<1> USE DEF Target, Prepared, Goto, Remove, Put, durable, bounds
<1>1. slot \in [Names -> Files \cup {NoFile}]
  BY DEF IInv, TypeOK
<1>2. ~(Start \/ open_if_present \/ IoError \/ Crash \/ ForeignCreates \/ Publication)
  BY <1>1 DEF Start, open_if_present, IoError, Crash, ForeignCreates, Publication, publish_refused,
         CreateJournal, FlushJournal, VerifyPublished, mark_committed, DeletePrevious,
         DeleteJournal, Finish, Names
<1>3. ~Staging
  BY <1>1 DEF Staging, create_refused, create, prepare_existing_copy, prepare_refused,
         CopyCompleted, CheckBase, CaptureStarts, CaptureCompletes, inspect_staged_file, Names
<1>4. CASE Recovery
  <2>1. RecoverUnlinksPublic
    BY <1>1, <1>4 DEF Recovery, recover_receipt, rollback_unprepared, recover_impl, recover_refuses,
         RecoverDeletesPrevious, RecoverDeletesStaged, RecoverDeletesJournal, remove_empty, Names
  <2> QED
    BY <2>1 DEF RecoverUnlinksPublic, IInv, RecoveryInv
<1>5. CASE Renames \/ RenameFails
  <2>1. ~RollbackCompleted /\ ~RenameRefused /\ ~UnlinkRefused
    BY DEF RollbackCompleted, RenameRefused, UnlinkRefused
  <2>2. pc \in RenamePoints /\ journal' = journal
    BY <1>5, <2>1 DEF Renames, RenameMoves, HardLinkCreated, HardLinkSourceDeleted,
                      UnlinkPublished, RenameFails, Renaming, UndoByUnlink, RenamePoints
  <2>3. Prepared /\ Prepared'
    BY <2>2 DEF IInv, PublicationInv, PublicationPoints, PublishPoints, RecoveryInv, RenamePoints
  <2>4. CASE UnlinkPublished
    BY <2>3, <2>4 DEF UnlinkPublished, UndoByUnlink, IInv, PublicationInv, PublicationPoints
  <2>5. CASE ~UnlinkPublished
    <3>1. Source = "target"
      BY <1>1, <1>5, <2>1, <2>2, <2>5 DEF Renames, RenameMoves, HardLinkCreated, HardLinkSourceDeleted,
             RenameFails, MoveSlot, DestinationFree, Destination, Source, RenamePoints, Names
    <3>2. pc \in {"moveOld", "undoNew"}
      BY <2>2, <3>1 DEF Source, RenamePoints
    <3>3. held
      BY <1>5, <2>1, <2>5, <3>2 DEF Renames, RenameMoves, HardLinkCreated, HardLinkSourceDeleted, RenameFails,
             IInv, PublicationInv, PublishPoints
    <3> QED
      BY <2>3, <3>2, <3>3 DEF IInv, PublicationInv, PublicationPoints, PublishPoints
  <2> QED
    BY <2>4, <2>5
<1> QED
  BY <1>2, <1>3, <1>4, <1>5 DEF Next, Program, Environment

\* No step of publication, rollback or recovery overwrites, moves or deletes a
\* competing file.
THEOREM ForeignUntouchedHolds == Spec => ForeignUntouched
<1>1. IInv /\ [Next]_vars => (Target.bytes = "foreign" => Target' = Target \/ ForeignRemoves)
  <2> SUFFICES ASSUME IInv, [Next]_vars, Target.bytes = "foreign", Target' # Target
               PROVE ForeignRemoves
    OBVIOUS
  <2>1. Next
    BY DEF vars, durable, Target
  <2>2. Target # NoFile
    BY FileFacts
  <2>3. Prepared => Target \notin {journal.old, journal.new}
    BY FileFacts DEF IInv, DiskInv
  <2> QED
    BY <2>1, <2>2, <2>3, TargetChange
<1> QED
  BY <1>1, InductiveInvariant, PTL DEF Spec, ForeignUntouched

\* The staged name gets a file only while staging, before PREPARED, or when a
\* rename of the publication or its undoing uses it.
LEMMA StagedChange ==
    IInv /\ Next /\ Staged' # Staged =>
       Staged' = NoFile \/ ~Prepared' \/ pc = "undoNew"
<1> SUFFICES ASSUME IInv, Next, Staged' # Staged, Staged' # NoFile, pc # "undoNew" PROVE ~Prepared'
  OBVIOUS
<1> USE DEF Staged, Prepared, Goto, Remove, Put, durable, bounds
<1>1. slot \in [Names -> Files \cup {NoFile}]
  BY DEF IInv, TypeOK
<1>2. ~(Start \/ open_if_present \/ IoError \/ Crash \/ ForeignCreates \/ ForeignRemoves \/ Publication)
  BY <1>1 DEF Start, open_if_present, IoError, Crash, ForeignCreates, ForeignRemoves, Publication,
         publish_refused, CreateJournal, FlushJournal, VerifyPublished, mark_committed,
         DeletePrevious, DeleteJournal, Finish, Names
<1>3. ~Recovery
  BY <1>1 DEF Recovery, recover_receipt, rollback_unprepared, recover_impl, recover_refuses,
         RecoverDeletesPrevious, RecoverUnlinksPublic, RecoverDeletesStaged,
         RecoverDeletesJournal, remove_empty, Names
<1>4. ~(Renames \/ RenameFails)
  BY <1>1 DEF Renames, RenameMoves, HardLinkCreated, HardLinkSourceDeleted, RenameRefused,
         UnlinkPublished, UnlinkRefused, RollbackCompleted, RenameFails, MoveSlot,
         Destination, Source, Names
<1>5. CASE Staging
  <2>1. pc \in StagingPoints /\ journal' = journal
    BY <1>1, <1>5 DEF Staging, create_refused, create, prepare_existing_copy, prepare_refused,
         CopyCompleted, CheckBase, CaptureStarts, CaptureCompletes, inspect_staged_file,
         Names, StagingPoints
  <2> QED
    BY <2>1 DEF IInv, StagingInv, StagingPoints
<1> QED
  BY <1>2, <1>3, <1>4, <1>5 DEF Next, Program, Environment

\* The points where a publication can still be withdrawn are entered only by
\* publication itself.
LEMMA WithdrawableEntry ==
    IInv /\ Next /\ pc' \in {"publishNew", "verifyNew", "undoNew"} =>
       pc \in {"publishNew", "verifyNew", "undoNew", "journal", "moveOld"}
<1> SUFFICES ASSUME IInv, Next, pc' \in {"publishNew", "verifyNew", "undoNew"},
                    pc \notin {"publishNew", "verifyNew", "undoNew", "journal", "moveOld"}
             PROVE FALSE
  OBVIOUS
<1> USE DEF Goto, Return, CleanUp
<1>1. ~(Start \/ open_if_present \/ Crash)
  BY DEF Start, open_if_present, Crash
<1>2. ~(ForeignCreates \/ ForeignRemoves)
  BY DEF ForeignCreates, ForeignRemoves
<1>3. ~IoError
  BY DEF IoError
<1>4. ~Recovery
  BY DEF Recovery, recover_receipt, rollback_unprepared, recover_impl, recover_refuses,
         RecoverDeletesPrevious, RecoverUnlinksPublic, RecoverDeletesStaged,
         RecoverDeletesJournal, remove_empty
<1>5. ~Staging
  BY DEF Staging, create_refused, create, prepare_existing_copy, prepare_refused,
         CopyCompleted, CheckBase, CaptureStarts, CaptureCompletes, inspect_staged_file
<1>6. ~Publication
  BY DEF Publication, publish_refused, CreateJournal, FlushJournal, VerifyPublished,
         mark_committed, DeletePrevious, DeleteJournal, Finish
<1>7. ~(Renames \/ RenameFails)
  BY DEF Renames, RenameMoves, HardLinkCreated, HardLinkSourceDeleted, RenameRefused,
         UnlinkPublished, UnlinkRefused, RollbackCompleted, RenameFails, RenameError,
         RenameNext, Renaming, UndoByUnlink, PublishPoints, RenamePoints
<1> QED
  BY <1>1, <1>2, <1>3, <1>4, <1>5, <1>6, <1>7 DEF Next, Program, Environment

\* Once decided, a publication stays decided and public.
LEMMA DecisionStable == IInv /\ IInv' /\ Next /\ Decided => Decided'
<1> SUFFICES ASSUME IInv, IInv', Next, Decided PROVE Decided'
  OBVIOUS
<1> USE FileFacts
<1>1. Target # NoFile /\ Target.bytes = "image" /\ Staged # Target /\ Target # BaseFile
  BY DEF Decided, Staged
<1>2. pc \notin {"moveOld", "rbPublic", "journal"}
  BY <1>1 DEF IInv, DiskInv, PublicationInv, PublicationPoints, PublishPoints, RecoveryInv, StagingInv,
         ForeignOrFree, Prepared
<1>3. Target' = Target
  BY <1>1, <1>2, TargetChange DEF Decided, ForeignRemoves, Target
<1>4. pc' \notin {"publishNew", "verifyNew", "undoNew"}
  BY <1>2, WithdrawableEntry DEF Decided
<1>5. Staged' # Target'
  <2>1. CASE ~Prepared'
    BY <1>1, <1>3, <2>1 DEF IInv, DiskInv
  <2>2. CASE Prepared'
    BY <1>1, <1>3, <2>2, StagedChange DEF Decided
  <2> QED
    BY <2>1, <2>2
<1> QED
  BY <1>1, <1>3, <1>4, <1>5 DEF Decided, Staged

\* Ok is answered by Finish alone, after the decision.
LEMMA OkAfterDecision == IInv /\ Next /\ answer' = "ok" => Decided
<1> SUFFICES ASSUME IInv, Next, answer' = "ok" PROVE Decided
  OBVIOUS
<1>1. answer = "ok" \/ pc = "succeeded"
  BY DEF Next, Program, Environment, Recovery, Staging, Publication, Renames, Return, CleanUp,
         Start, open_if_present, recover_receipt, rollback_unprepared, recover_impl,
         recover_refuses, RecoverDeletesPrevious, RecoverUnlinksPublic, RecoverDeletesStaged,
         RecoverDeletesJournal, remove_empty, create_refused, create, prepare_existing_copy,
         prepare_refused, CopyCompleted, CheckBase, CaptureStarts, CaptureCompletes,
         inspect_staged_file, publish_refused, CreateJournal, FlushJournal, VerifyPublished,
         mark_committed, DeletePrevious, DeleteJournal, Finish, RenameMoves, HardLinkCreated,
         HardLinkSourceDeleted, RenameRefused, RenameError, UnlinkPublished, UnlinkRefused,
         RollbackCompleted, RenameFails, IoError, Crash, ForeignCreates, ForeignRemoves
<1>2. Target.bytes = "image" /\ ~Prepared /\ pc \in {"idle", "succeeded"}
  BY <1>1 DEF IInv, RecoveryInv, Prepared
<1> QED
  BY <1>2, FileFacts DEF IInv, DiskInv, Decided, Staged

\* The detailed publication implements the atomic switch of AtomicImage.
THEOREM Refinement == Spec => RefinesAtomic
<1>1. Init => Atomic!Init
  BY FileFacts DEF Init, Names, Atomic!Init, PublicImage, Decided, Target
<1>2. IInv /\ IInv' /\ [Next]_vars => [Atomic!Next]_(Atomic!avars)
  <2> SUFFICES ASSUME IInv, IInv', [Next]_vars PROVE [Atomic!Next]_(Atomic!avars)
    OBVIOUS
  <2>1. CASE UNCHANGED vars
    BY <2>1 DEF vars, durable, Atomic!avars, PublicImage, Decided, Target
  <2>2. CASE Next
    <3>1. answer' \in {"none", "ok", "error"}
      BY DEF IInv, TypeOK
    <3>2. Decided => Decided' /\ PublicImage = "new" /\ PublicImage' = "new"
      BY <2>2, DecisionStable DEF Decided, PublicImage
    <3>3. Decided' => PublicImage' = "new"
      BY DEF Decided, PublicImage
    <3>4. answer' = "ok" => Decided
      BY <2>2, OkAfterDecision
    <3>5. PublicImage \in {"old", "new"} /\ PublicImage' \in {"old", "new"}
      BY DEF PublicImage
    <3>6. Decided \in BOOLEAN /\ Decided' \in BOOLEAN
      BY DEF Decided
    <3> QED
      BY <3>1, <3>2, <3>3, <3>4, <3>5, <3>6
      DEF Atomic!Next, Atomic!Publish, Atomic!Withdraw, Atomic!Decide, Atomic!Reply,
          Atomic!Answers
  <2> QED
    BY <2>1, <2>2
<1> QED
  BY <1>1, <1>2, InductiveInvariant, PTL DEF Spec, RefinesAtomic, Atomic!Spec
=============================================================================
