-------------------------- MODULE OperationJournal --------------------------
(***************************************************************************)
(* OperationJournal and CheckpointStore of                                 *)
(* lr-core/src/operation/checkpoint.rs, run_with_retry of retry.rs, and    *)
(* the calls PE端/src/workflow_journal.rs makes: a live checkpoint in      *)
(* memory, its file on disk, and an update that computes the next          *)
(* checkpoint on a clone, saves it with bounded retries and only then      *)
(* replaces the live one.  The process may die at any point.               *)
(*                                                                         *)
(* write_atomic writes a temporary file, syncs it and renames it over the  *)
(* checkpoint, so a save either replaces the whole file or leaves it; what *)
(* is left of temporary files is not part of the state.                    *)
(***************************************************************************)
EXTENDS Checkpoint

CONSTANTS
  MaxAttempts,   \* RetryPolicy::transient_io().max_attempts
  MaxRevision,   \* bound: updates of one operation
  MaxFaults      \* bound: failed writes, failed removals and crashes

ASSUME JournalAssumption ==
  MaxAttempts \in Nat \ {0} /\ MaxRevision \in Nat /\ MaxFaults \in Nat

None == [status |-> "none"]

Requests == {"create", "observe", "fail", "complete", "interrupt"}

VARIABLES
  disk,      \* the checkpoint file, None when there is none
  live,      \* OperationJournal.checkpoint, None when no journal is open
  pc,        \* "closed", "idle", "saving", "saved" or "removing"
  next,      \* the clone an update has computed and not adopted yet
  request,   \* the call under way, with its step
  tries,     \* completed attempts of run_with_retry
  answer,    \* what the last call returned, with its request
  begun,     \* how often a caller was told to execute each step
  faults     \* faults so far

vars == <<disk, live, pc, next, request, tries, answer, begun, faults>>

NoRequest == [kind |-> "none", step |-> NoStep, answer |-> "Ok"]
RequestSet == {NoRequest} \cup [kind: Requests, step: Steps \cup {NoStep}, answer: Answers]

TypeOK ==
  /\ disk \in Checkpoints \cup {None}
  /\ live \in Checkpoints \cup {None}
  /\ next \in Checkpoints \cup {None}
  /\ pc \in {"closed", "idle", "saving", "saved", "removing"}
  /\ request \in RequestSet
  /\ answer \in RequestSet
  /\ tries \in 0..(MaxAttempts - 1)
  /\ begun \in [Steps -> Nat]
  /\ faults \in 0..MaxFaults

Init ==
  /\ disk = None /\ live = None /\ next = None
  /\ pc = "closed"
  /\ request = NoRequest /\ answer = NoRequest
  /\ tries = 0
  /\ begun = [s \in Steps |-> 0]
  /\ faults = 0

(***************************************************************************)
(* Opening.  create overwrites whatever file is there and starts a new     *)
(* operation; open adopts the file.                                        *)
(***************************************************************************)
create ==
  /\ pc = "closed"
  /\ pc' = "saving" /\ next' = new /\ tries' = 0
  /\ request' = [kind |-> "create", step |-> NoStep, answer |-> "Ok"]
  /\ UNCHANGED <<disk, live, answer, begun, faults>>

open ==
  /\ pc = "closed" /\ disk # None
  /\ validate(disk)
  /\ live' = disk /\ pc' = "idle" /\ answer' = NoRequest
  /\ UNCHANGED <<disk, next, request, tries, begun, faults>>

(***************************************************************************)
(* update: the closure runs on a clone; its error is returned at once.     *)
(***************************************************************************)
update(kind, s, result) ==
  LET call == [kind |-> kind, step |-> s, answer |-> result.answer] IN
  /\ pc = "idle" /\ live.revision < MaxRevision
  /\ \/ /\ result.answer = "Err"
        /\ answer' = call
        /\ UNCHANGED <<disk, live, pc, next, request, tries, begun, faults>>
     \/ /\ result.answer # "Err"
        /\ next' = result.ckpt /\ pc' = "saving" /\ request' = call /\ tries' = 0
        /\ UNCHANGED <<disk, live, answer, begun, faults>>

observe(s) == update("observe", s, observe_step(live, s))
fail == update("fail", NoStep, fail_current(live))
complete_operation == update("complete", NoStep, complete(live))
interrupt == update("interrupt", NoStep, mark_interrupted(live))

(***************************************************************************)
(* persist: run_with_retry around CheckpointStore::save.                   *)
(***************************************************************************)
\* Plausible bug: the save is skipped and the clone adopted all the same.
SaveLands_Skipped ==
  /\ pc = "saving" /\ validate(next)
  /\ pc' = "saved"
  /\ UNCHANGED <<disk, live, next, request, tries, answer, begun, faults>>

SaveLands ==
  /\ pc = "saving" /\ validate(next)
  /\ disk' = next /\ pc' = "saved"
  /\ begun' = IF request.kind = "create" THEN [s \in Steps |-> 0] ELSE begun
  /\ UNCHANGED <<live, next, request, tries, answer, faults>>

\* RetryPolicy::decide for an idempotent operation.
RetryAfter(retryable, completed) == retryable /\ completed < MaxAttempts

\* A call that fails leaves the journal as it was; a failed create leaves none open.
GiveUp ==
  /\ pc' = IF live = None THEN "closed" ELSE "idle"
  /\ next' = None /\ request' = NoRequest /\ tries' = 0
  /\ answer' = [kind |-> request.kind, step |-> request.step, answer |-> "Err"]
  /\ UNCHANGED <<disk, live, begun>>

\* The write fails, with a transient error or not; a checkpoint that does not pass
\* validate is refused before the write, and never retried.
SaveFails ==
  /\ pc = "saving" /\ faults < MaxFaults
  /\ faults' = faults + 1
  /\ \E retryable \in IF validate(next) THEN BOOLEAN ELSE {FALSE} :
       \/ /\ RetryAfter(retryable, tries + 1)
          /\ tries' = tries + 1
          /\ UNCHANGED <<disk, live, pc, next, request, answer, begun>>
       \/ /\ ~RetryAfter(retryable, tries + 1)
          /\ GiveUp

(***************************************************************************)
(* The rest of update: adopt the saved clone and answer the caller.        *)
(* PeWorkflowJournal::complete goes on to remove the file.                 *)
(***************************************************************************)
Adopt ==
  /\ pc = "saved"
  /\ live' = next /\ next' = None
  /\ answer' = request /\ request' = NoRequest /\ tries' = 0
  /\ begun' = IF request.kind = "observe" /\ request.answer = "Applied"
              THEN [begun EXCEPT ![request.step] = @ + 1] ELSE begun
  /\ pc' = IF request.kind = "complete" THEN "removing" ELSE "idle"
  /\ UNCHANGED <<disk, faults>>

remove ==
  /\ pc = "removing"
  /\ disk' = None /\ live' = None /\ pc' = "closed"
  /\ UNCHANGED <<next, request, tries, answer, begun, faults>>

RemoveFails ==
  /\ pc = "removing" /\ faults < MaxFaults
  /\ faults' = faults + 1
  /\ live' = None /\ pc' = "closed"
  /\ UNCHANGED <<disk, next, request, tries, answer, begun>>

Crash ==
  /\ pc # "closed" /\ faults < MaxFaults
  /\ faults' = faults + 1
  /\ live' = None /\ next' = None /\ request' = NoRequest /\ answer' = NoRequest
  /\ tries' = 0 /\ pc' = "closed"
  /\ UNCHANGED <<disk, begun>>

Next ==
  \/ create \/ open
  \/ \E s \in Steps : observe(s)
  \/ fail \/ complete_operation \/ interrupt
  \/ SaveLands \/ SaveFails \/ Adopt
  \/ remove \/ RemoveFails \/ Crash

Spec == Init /\ [][Next]_vars
-----------------------------------------------------------------------------
(***************************************************************************)
(* Properties.                                                             *)
(***************************************************************************)

\* The live checkpoint is always the one on disk, except between the replacement of
\* the file and the adoption of the same clone: no caller of OperationJournal observes
\* a state that was not durably recorded, whatever writes failed before.
ObservedIsDurable ==
  live # None => disk = live \/ (pc = "saved" /\ disk = next)

\* In every recorded checkpoint the steps were taken in their declared order: a step
\* that is no longer pending has only finished or skipped steps before it, and only
\* the current step is running, whatever steps observe_step was asked for and wherever
\* the workflow failed, was interrupted or was reopened.
StepsInOrder ==
  disk # None =>
    /\ \A s \in Steps : disk.step[s] # "Pending" => EarlierComplete(disk, s)
    /\ Running(disk) \subseteq {disk.current}

\* A step that is not idempotent (formatting a partition, applying an image) is begun
\* at most once in the life of a recorded operation, through failures, crashes between
\* the save and the answer, and reopening.
NonIdempotentOnce ==
  \A s \in Steps \ Idempotent : begun[s] <= 1

\* The journal never computes a checkpoint its own validate refuses: an update is never
\* lost to the check in save, and a file the journal wrote can always be opened again.
SaveNeverRefused ==
  pc = "saving" => validate(next)

\* The file only moves forward while it holds one operation: a finished or skipped step
\* stays so, no attempt is forgotten, and two different contents never carry the same
\* revision.
DurableProgress ==
  [][ (disk # None /\ disk' # None /\ disk' # disk /\ request.kind # "create") =>
        /\ \A s \in Steps : /\ Complete(disk, s) => disk'.step[s] = disk.step[s]
                            /\ disk'.attempts[s] >= disk.attempts[s]
        /\ disk'.revision > disk.revision ]_vars

-----------------------------------------------------------------------------
(***************************************************************************)
(* The inductive invariant.  Sound is what every checkpoint the journal    *)
(* computes satisfies; Advances relates a checkpoint to the next one.      *)
(***************************************************************************)
Sound(c) ==
  /\ \A s \in Steps : c.step[s] # "Pending" => EarlierComplete(c, s)
  /\ \A s \in Steps : c.step[s] = "Running" => c.current = s /\ c.status = "Running"
  /\ c.status = "Succeeded" => AllComplete(c)
  /\ \A s \in Steps : c.step[s] = "Pending" => c.attempts[s] = 0
  /\ \A s \in Steps \ Idempotent : c.attempts[s] <= 1

Advances(c, d) ==
  /\ \A s \in Steps : Complete(c, s) => d.step[s] = c.step[s]
  /\ \A s \in Steps : d.attempts[s] >= c.attempts[s]
  /\ d = c \/ d.revision > c.revision

Told(s) == IF request.kind = "observe" /\ request.answer = "Applied" /\ request.step = s
           THEN begun[s] + 1 ELSE begun[s]

IInv ==
  /\ TypeOK
  /\ disk # None => Sound(disk) /\ \A s \in Steps : begun[s] <= disk.attempts[s]
  /\ NonIdempotentOnce
  /\ pc = "closed" => live = None /\ next = None
  /\ pc \in {"idle", "removing"} => live # None /\ disk = live /\ next = None
  /\ pc \in {"saving", "saved"} =>
       /\ next # None /\ Sound(next)
       /\ request.kind \in Requests
       /\ request.kind = "observe" => request.step \in Steps
       /\ request.kind = "create" => live = None
       /\ request.kind # "create" => live # None
  /\ (pc = "saving" /\ request.kind # "create") =>
       /\ disk = live /\ Advances(live, next)
       /\ \A s \in Steps : Told(s) <= next.attempts[s]
  /\ pc = "saved" =>
       /\ disk = next
       /\ \A s \in Steps : Told(s) <= next.attempts[s]
=============================================================================
