----------------------------- MODULE Checkpoint -----------------------------
(***************************************************************************)
(* OperationCheckpoint of lr-core/src/operation/checkpoint.rs: the state   *)
(* machine of one long-running operation (install, backup, expand) as a    *)
(* sequence of steps, each declared idempotent or not.  The public methods *)
(* are operators from a checkpoint to a result.  Names, messages, the      *)
(* target fingerprint and the clock are data the machine never looks at.   *)
(*                                                                         *)
(* A method that returns Err may have changed the checkpoint it was called *)
(* on; ckpt is what it leaves behind in either case.                       *)
(***************************************************************************)
EXTENDS Naturals, FiniteSets

CONSTANTS
  N,            \* number of steps of the operation
  Idempotent    \* the steps declared with idempotent = true

ASSUME StepsAssumption == N \in Nat \ {0} /\ Idempotent \subseteq 1..N

Steps == 1..N
NoStep == 0

OperationStatus == {"Pending", "Running", "Interrupted", "Failed", "Cancelled", "Succeeded"}
StepStatus == {"Pending", "Running", "Interrupted", "Failed", "Skipped", "Succeeded"}
is_complete == {"Skipped", "Succeeded"}

Checkpoints == [status: OperationStatus, step: [Steps -> StepStatus],
                attempts: [Steps -> Nat], current: Steps \cup {NoStep}, revision: Nat]

Ckpt(status, step, attempts, current, revision) ==
  [status |-> status, step |-> step, attempts |-> attempts,
   current |-> current, revision |-> revision]

new == Ckpt("Pending", [s \in Steps |-> "Pending"], [s \in Steps |-> 0], NoStep, 0)

Complete(c, s) == c.step[s] \in is_complete
AllComplete(c) == \A s \in Steps : Complete(c, s)
Running(c) == {s \in Steps : c.step[s] = "Running"}

validate(c) ==
  /\ Cardinality(Running(c)) <= 1
  /\ c.status = "Succeeded" => AllComplete(c)

(***************************************************************************)
(* Results.                                                                *)
(***************************************************************************)
Answers == {"Applied", "AlreadyComplete", "AlreadyRunning", "Ok", "Err"}

Ok(c, answer) == [ckpt |-> c, answer |-> answer]
Err(c) == [ckpt |-> c, answer |-> "Err"]

start(c) ==
  CASE c.status \in {"Pending", "Interrupted", "Failed"} ->
         Ok(Ckpt("Running", c.step, c.attempts, c.current, c.revision + 1), "Ok")
    [] c.status = "Running" -> Ok(c, "Ok")
    [] OTHER -> Err(c)

EarlierComplete(c, s) == \A t \in 1..(s - 1) : Complete(c, t)

MayRetry(c, s) == c.step[s] \in {"Failed", "Interrupted"} => s \in Idempotent

begin_step(c, s) ==
  LET started == start(c).ckpt IN
  CASE Complete(c, s) -> Ok(c, "AlreadyComplete")
    [] c.step[s] = "Running" -> Ok(c, "AlreadyRunning")
    [] c.step[s] \notin is_complete \cup {"Running"} ->
         IF ~EarlierComplete(c, s) \/ ~MayRetry(c, s) THEN Err(c)
         ELSE IF start(c).answer = "Err" \/ Running(c) # {} THEN Err(started)
         ELSE Ok(Ckpt("Running", [c.step EXCEPT ![s] = "Running"],
                      [c.attempts EXCEPT ![s] = @ + 1], s, started.revision + 1),
                 "Applied")

complete_step(c, s) ==
  CASE Complete(c, s) -> Ok(c, "AlreadyComplete")
    [] c.step[s] = "Running" ->
         Ok(Ckpt(c.status, [c.step EXCEPT ![s] = "Succeeded"], c.attempts, NoStep,
                 c.revision + 1), "Applied")
    [] OTHER -> Err(c)

fail_step(c, s) ==
  IF c.step[s] = "Running"
  THEN Ok(Ckpt("Failed", [c.step EXCEPT ![s] = "Failed"], c.attempts, s, c.revision + 1), "Ok")
  ELSE Err(c)

\* Plausible bug: the change is not counted as a revision.
mark_failed_Untouched(c) == Ok(Ckpt("Failed", c.step, c.attempts, c.current, c.revision), "Ok")

mark_failed(c) == Ok(Ckpt("Failed", c.step, c.attempts, c.current, c.revision + 1), "Ok")

\* Plausible bug: the interrupted step goes back to pending, as if it had never begun.
mark_interrupted_Resets(c) ==
  Ok(Ckpt("Interrupted",
          [s \in Steps |-> IF c.step[s] = "Running" THEN "Pending" ELSE c.step[s]],
          c.attempts, NoStep, c.revision + 1), "Ok")

mark_interrupted(c) ==
  LET stopped == [s \in Steps |-> IF c.step[s] = "Running" THEN "Interrupted" ELSE c.step[s]] IN
  IF c.status \in {"Pending", "Running"}
  THEN Ok(Ckpt("Interrupted", stopped, c.attempts, c.current, c.revision + 1), "Ok")
  ELSE Ok(Ckpt(c.status, stopped, c.attempts, c.current, c.revision), "Ok")

\* Plausible bug: success is recorded without looking at the steps.
mark_succeeded_Unchecked(c) ==
  Ok(Ckpt("Succeeded", c.step, c.attempts, NoStep, c.revision + 1), "Ok")

mark_succeeded(c) ==
  IF AllComplete(c)
  THEN Ok(Ckpt("Succeeded", c.step, c.attempts, NoStep, c.revision + 1), "Ok")
  ELSE Err(c)

(***************************************************************************)
(* What OperationJournal composes of them: finish the running step, skip   *)
(* the steps the workflow left out.                                        *)
(***************************************************************************)
FinishCurrent(c) ==
  IF c.current # NoStep /\ c.step[c.current] = "Running"
  THEN complete_step(c, c.current).ckpt
  ELSE c

SkipPending(c, last) ==
  LET omitted == {t \in 1..last : c.step[t] = "Pending"} IN
  Ckpt(c.status, [t \in Steps |-> IF t \in omitted THEN "Skipped" ELSE c.step[t]],
       c.attempts, c.current, c.revision + Cardinality(omitted))

observe_step(c, s) ==
  IF c.current = s THEN Ok(c, "AlreadyRunning")
  ELSE begin_step(SkipPending(FinishCurrent(c), s - 1), s)

fail_current(c) == IF c.current # NoStep THEN fail_step(c, c.current) ELSE mark_failed(c)

complete(c) == mark_succeeded(SkipPending(FinishCurrent(c), N))
=============================================================================
