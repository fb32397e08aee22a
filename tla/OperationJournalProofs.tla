----------------------- MODULE OperationJournalProofs -----------------------
(***************************************************************************)
(* Proofs about OperationJournal, for every number of steps, every choice  *)
(* of the idempotent ones and any bounds.  The lemmas about the methods of *)
(* Checkpoint come first; the inductive invariant IInv rests on them.      *)
(***************************************************************************)
EXTENDS OperationJournal, TLAPS, FiniteSetTheorems

\* A checkpoint is determined by its fields.
LEMMA CkptFields ==
  ASSUME NEW c \in Checkpoints
  PROVE  /\ c.status \in OperationStatus /\ c.step \in [Steps -> StepStatus]
         /\ c.attempts \in [Steps -> Nat] /\ c.current \in Steps \cup {NoStep}
         /\ c.revision \in Nat
         /\ c = Ckpt(c.status, c.step, c.attempts, c.current, c.revision)
         /\ c # None
  BY DEF Checkpoints, Ckpt, None, OperationStatus

\* A sound checkpoint passes validate: at most the current step is running.
LEMMA SoundIsValid ==
  ASSUME NEW c \in Checkpoints, Sound(c)
  PROVE  validate(c)
<1>1. Running(c) \subseteq {c.current}
  BY DEF Sound, Running
<1>2. IsFiniteSet({c.current}) /\ Cardinality({c.current}) = 1
  BY FS_Singleton
<1>3. Cardinality(Running(c)) <= 1
  BY <1>1, <1>2, FS_Subset
<1> QED
  BY <1>3 DEF validate, Sound

\* A new operation is sound.
LEMMA NewSound == new \in Checkpoints /\ Sound(new)
<1>1. new \in Checkpoints
  BY DEF new, Checkpoints, Ckpt, OperationStatus, StepStatus, NoStep
<1>2. Sound(new)
  BY StepsAssumption DEF new, Ckpt, Sound, Steps, NoStep
<1> QED
  BY <1>1, <1>2

\* Advancing is reflexive.
LEMMA AdvancesReflexive ==
  ASSUME NEW c \in Checkpoints
  PROVE  Advances(c, c)
  BY CkptFields DEF Advances

\* Advancing is transitive.
LEMMA AdvancesTransitive ==
  ASSUME NEW c \in Checkpoints, NEW d \in Checkpoints, NEW e \in Checkpoints,
         Advances(c, d), Advances(d, e)
  PROVE  Advances(c, e)
<1>1. /\ c.revision \in Nat /\ d.revision \in Nat /\ e.revision \in Nat
      /\ c.attempts \in [Steps -> Nat] /\ d.attempts \in [Steps -> Nat]
      /\ e.attempts \in [Steps -> Nat]
  BY CkptFields
<1>2. \A s \in Steps : Complete(c, s) => e.step[s] = c.step[s]
  BY DEF Advances, Complete
<1>3. \A s \in Steps : e.attempts[s] >= c.attempts[s]
  BY <1>1 DEF Advances
<1>4. e = c \/ e.revision > c.revision
  BY <1>1 DEF Advances
<1> QED
  BY <1>2, <1>3, <1>4 DEF Advances

\* Finishing the current step leaves no step running and keeps the checkpoint sound.
LEMMA FinishCurrentSound ==
  ASSUME NEW c \in Checkpoints, Sound(c)
  PROVE  /\ FinishCurrent(c) \in Checkpoints /\ Sound(FinishCurrent(c))
         /\ Advances(c, FinishCurrent(c))
         /\ Running(FinishCurrent(c)) = {}
         /\ FinishCurrent(c).attempts = c.attempts
<1> DEFINE d == FinishCurrent(c)
           finished == [c.step EXCEPT ![c.current] = "Succeeded"]
<1>0. /\ c.status \in OperationStatus /\ c.step \in [Steps -> StepStatus]
      /\ c.attempts \in [Steps -> Nat] /\ c.current \in Steps \cup {NoStep}
      /\ c.revision \in Nat
  BY CkptFields
<1>1. CASE c.current # NoStep /\ c.step[c.current] = "Running"
  <2>1. c.current \in Steps
    BY <1>1, <1>0
  <2>2. d = Ckpt(c.status, finished, c.attempts, NoStep, c.revision + 1)
    BY <1>1 DEF FinishCurrent, complete_step, Complete, is_complete, Ok
  <2>3. finished \in [Steps -> StepStatus]
    BY <1>0, <2>1 DEF StepStatus
  <2>12. NoStep \in Steps \cup {NoStep}
    OBVIOUS
  <2>13. c.revision + 1 \in Nat
    BY <1>0
  <2> HIDE DEF finished
  <2>4. /\ d \in Checkpoints /\ d.status = c.status /\ d.step = finished
        /\ d.attempts = c.attempts /\ d.current = NoStep /\ d.revision = c.revision + 1
    BY <2>2, <2>3, <2>12, <2>13, <1>0 DEF Checkpoints, Ckpt
  <2>5. \A s \in Steps : d.step[s] = IF s = c.current THEN "Succeeded" ELSE c.step[s]
    BY <2>4, <1>0 DEF finished
  <2>6. Running(d) = {}
    BY <2>5 DEF Running, Sound
  <2>7. \A s \in Steps : Complete(c, s) => Complete(d, s)
    BY <2>5 DEF Complete, is_complete
  <2>8. \A s \in Steps : d.step[s] # "Pending" => EarlierComplete(d, s)
    <3> SUFFICES ASSUME NEW s \in Steps, d.step[s] # "Pending"
                 PROVE  EarlierComplete(d, s)
      OBVIOUS
    <3>1. c.step[s] # "Pending"
      BY <1>1, <2>5
    <3>2. EarlierComplete(c, s)
      BY <3>1 DEF Sound
    <3>3. \A t \in 1..(s - 1) : t \in Steps
      BY StepsAssumption DEF Steps
    <3> QED
      BY <3>2, <3>3, <2>7 DEF EarlierComplete
  <2>9. c.status = "Running"
    BY <1>1, <2>1 DEF Sound
  <2>10. Sound(d)
    <3>1. \A s \in Steps : d.step[s] # "Running"
      BY <2>6 DEF Running
    <3>2. d.status # "Succeeded"
      BY <2>4, <2>9
    <3>3. \A s \in Steps : d.step[s] = "Pending" => d.attempts[s] = 0
      BY <2>4, <2>5 DEF Sound
    <3>4. \A s \in Steps \ Idempotent : d.attempts[s] <= 1
      BY <2>4 DEF Sound
    <3> QED
      BY <2>8, <3>1, <3>2, <3>3, <3>4 DEF Sound
  <2>11. Advances(c, d)
    <3>1. \A s \in Steps : Complete(c, s) => d.step[s] = c.step[s]
      BY <1>1, <2>5 DEF Complete, is_complete
    <3>2. \A s \in Steps : d.attempts[s] >= c.attempts[s]
      BY <2>4, <1>0
    <3>3. d.revision > c.revision
      BY <2>4, <1>0
    <3> QED
      BY <3>1, <3>2, <3>3 DEF Advances
  <2> QED
    BY <2>4, <2>6, <2>10, <2>11
<1>2. CASE ~(c.current # NoStep /\ c.step[c.current] = "Running")
  <2>1. d = c
    BY <1>2 DEF FinishCurrent
  <2>2. Running(c) = {}
    BY <1>2, StepsAssumption DEF Running, Sound, Steps, NoStep
  <2> QED
    BY <2>1, <2>2, AdvancesReflexive
<1> QED
  BY <1>1, <1>2
\* Skipping the pending steps up to a step changes nothing else, and counts as many
\* revisions as it skips steps.
LEMMA SkipPendingFacts ==
  ASSUME NEW c \in Checkpoints, NEW last \in 0..N
  PROVE  LET d == SkipPending(c, last) IN
         /\ d \in Checkpoints /\ Advances(c, d)
         /\ d.status = c.status /\ d.attempts = c.attempts /\ d.current = c.current
         /\ \A t \in Steps : d.step[t] = IF t <= last /\ c.step[t] = "Pending"
                                         THEN "Skipped" ELSE c.step[t]
<1> DEFINE omitted == {t \in 1..last : c.step[t] = "Pending"}
           skipped == [t \in Steps |-> IF t \in omitted THEN "Skipped" ELSE c.step[t]]
           d == SkipPending(c, last)
<1>0. /\ c.status \in OperationStatus /\ c.step \in [Steps -> StepStatus]
      /\ c.attempts \in [Steps -> Nat] /\ c.current \in Steps \cup {NoStep}
      /\ c.revision \in Nat
      /\ c = Ckpt(c.status, c.step, c.attempts, c.current, c.revision)
  BY CkptFields
<1>1. IsFiniteSet(omitted)
  <2>1. IsFiniteSet(1..last)
    BY FS_Interval, StepsAssumption
  <2> QED
    BY <2>1, FS_Subset
<1>2. Cardinality(omitted) \in Nat /\ (Cardinality(omitted) = 0 <=> omitted = {})
  BY <1>1, FS_CardinalityType, FS_EmptySet
<1>3. d = Ckpt(c.status, skipped, c.attempts, c.current, c.revision + Cardinality(omitted))
  BY DEF SkipPending
<1>4. skipped \in [Steps -> StepStatus]
  BY <1>0 DEF StepStatus
<1>5. c.revision + Cardinality(omitted) \in Nat
  BY <1>0, <1>2
<1>6. \A t \in Steps : t \in omitted <=> (t <= last /\ c.step[t] = "Pending")
  BY StepsAssumption DEF Steps
<1>7. \A t \in Steps : skipped[t] = IF t <= last /\ c.step[t] = "Pending"
                                    THEN "Skipped" ELSE c.step[t]
  BY <1>6
<1>8. ASSUME omitted = {} PROVE d = c
  <2>1. skipped = c.step
    BY <1>8, <1>0
  <2>2. c.revision + Cardinality(omitted) = c.revision
    BY <1>8, <1>2, <1>0
  <2> QED
    BY <2>1, <2>2, <1>3, <1>0
<1> HIDE DEF omitted, skipped
<1>9. /\ d \in Checkpoints /\ d.status = c.status /\ d.step = skipped
      /\ d.attempts = c.attempts /\ d.current = c.current
      /\ d.revision = c.revision + Cardinality(omitted)
  BY <1>0, <1>3, <1>4, <1>5 DEF Checkpoints, Ckpt
<1>10. Advances(c, d)
  <2>1. \A s \in Steps : Complete(c, s) => d.step[s] = c.step[s]
    BY <1>7, <1>9 DEF Complete, is_complete
  <2>2. \A s \in Steps : d.attempts[s] >= c.attempts[s]
    BY <1>9, <1>0
  <2>3. d = c \/ d.revision > c.revision
    BY <1>8, <1>9, <1>2, <1>0
  <2> QED
    BY <2>1, <2>2, <2>3 DEF Advances
<1> QED
  BY <1>7, <1>9, <1>10

\* Beginning a pending or retried step: what observe_step gets from begin_step once the
\* running step is finished and the omitted ones are skipped.
LEMMA BeginStepSound ==
  ASSUME NEW c \in Checkpoints, NEW s \in Steps,
         c.step[s] \notin is_complete, Running(c) = {},
         \A t \in Steps : c.step[t] = "Pending" => c.attempts[t] = 0,
         \A t \in Steps \ Idempotent : c.attempts[t] <= 1,
         \A t \in Steps : t > s /\ c.step[t] # "Pending" => EarlierComplete(c, t),
         begin_step(c, s).answer # "Err"
  PROVE  LET r == begin_step(c, s) IN
         /\ r.answer = "Applied"
         /\ r.ckpt \in Checkpoints /\ Sound(r.ckpt) /\ Advances(c, r.ckpt)
         /\ r.ckpt.attempts[s] = c.attempts[s] + 1
<1> DEFINE d == begin_step(c, s).ckpt
           started == start(c).ckpt
           marked == [c.step EXCEPT ![s] = "Running"]
           counted == [c.attempts EXCEPT ![s] = @ + 1]
<1>0. /\ c.status \in OperationStatus /\ c.step \in [Steps -> StepStatus]
      /\ c.attempts \in [Steps -> Nat] /\ c.current \in Steps \cup {NoStep}
      /\ c.revision \in Nat
  BY CkptFields
<1>1. c.step[s] # "Running"
  BY DEF Running
<1>2. c.step[s] \notin is_complete \cup {"Running"}
  BY <1>1
<1>3. begin_step(c, s) =
        IF ~EarlierComplete(c, s) \/ ~MayRetry(c, s) THEN Err(c)
        ELSE IF start(c).answer = "Err" \/ Running(c) # {} THEN Err(started)
        ELSE Ok(Ckpt("Running", marked, counted, s, started.revision + 1), "Applied")
  BY <1>1, <1>2 DEF begin_step, Complete
<1>4. /\ EarlierComplete(c, s) /\ MayRetry(c, s) /\ start(c).answer # "Err"
      /\ begin_step(c, s) = Ok(Ckpt("Running", marked, counted, s, started.revision + 1), "Applied")
  BY <1>3 DEF Err
<1>5. started.revision \in Nat /\ started.revision >= c.revision
  <2>1. CASE c.status \in {"Pending", "Interrupted", "Failed"}
    <3>1. started = Ckpt("Running", c.step, c.attempts, c.current, c.revision + 1)
      BY <2>1 DEF start, Ok
    <3> QED
      BY <3>1, <1>0 DEF Ckpt
  <2>2. CASE c.status = "Running"
    <3>1. started = c
      BY <2>2 DEF start, Ok
    <3> QED
      BY <3>1, <1>0
  <2>3. CASE c.status \notin {"Pending", "Interrupted", "Failed", "Running"}
    <3>1. started = c
      BY <2>3 DEF start, Err
    <3> QED
      BY <3>1, <1>0
  <2> QED
    BY <2>1, <2>2, <2>3
<1>6. marked \in [Steps -> StepStatus] /\ counted \in [Steps -> Nat]
  BY <1>0 DEF StepStatus
<1>7. \A t \in Steps : /\ marked[t] = IF t = s THEN "Running" ELSE c.step[t]
                       /\ counted[t] = IF t = s THEN c.attempts[s] + 1 ELSE c.attempts[t]
  BY <1>0
<1> HIDE DEF marked, counted, started
<1>8. /\ begin_step(c, s).answer = "Applied"
      /\ d = Ckpt("Running", marked, counted, s, started.revision + 1)
  BY <1>4 DEF Ok
<1>9. started.revision + 1 \in Nat /\ "Running" \in OperationStatus
  BY <1>5 DEF OperationStatus
<1>10. /\ d \in Checkpoints /\ d.status = "Running" /\ d.step = marked
       /\ d.attempts = counted /\ d.current = s /\ d.revision = started.revision + 1
  BY <1>8, <1>6, <1>9 DEF Checkpoints, Ckpt
<1>11. Advances(c, d)
  <2>1. \A t \in Steps : Complete(c, t) => d.step[t] = c.step[t]
    BY <1>7, <1>10 DEF Complete
  <2>2. \A t \in Steps : d.attempts[t] >= c.attempts[t]
    BY <1>7, <1>10, <1>0
  <2>3. d.revision > c.revision
    BY <1>10, <1>5, <1>0
  <2> QED
    BY <2>1, <2>2, <2>3 DEF Advances
<1>12. \A t \in Steps : Complete(c, t) => Complete(d, t)
  BY <1>7, <1>10 DEF Complete
<1>13. \A t \in Steps : \A u \in 1..(t - 1) : u \in Steps
  BY StepsAssumption DEF Steps
<1>14. EarlierComplete(d, s)
  BY <1>4, <1>12, <1>13 DEF EarlierComplete
<1>15. \A t \in Steps : d.step[t] # "Pending" => EarlierComplete(d, t)
  <2> SUFFICES ASSUME NEW t \in Steps, d.step[t] # "Pending"
               PROVE  EarlierComplete(d, t)
    OBVIOUS
  <2>1. CASE t > s
    <3>1. c.step[t] # "Pending"
      BY <2>1, <1>7, <1>10 DEF Steps
    <3>2. EarlierComplete(c, t)
      BY <2>1, <3>1
    <3> QED
      BY <3>2, <1>12, <1>13 DEF EarlierComplete
  <2>2. CASE t <= s
    <3>1. \A u \in 1..(t - 1) : u \in 1..(s - 1)
      BY <2>2 DEF Steps
    <3> QED
      BY <3>1, <1>14 DEF EarlierComplete
  <2> QED
    BY <2>1, <2>2 DEF Steps
<1>16. \A t \in Steps : d.step[t] = "Running" => d.current = t /\ d.status = "Running"
  BY <1>7, <1>10 DEF Running
<1>17. \A t \in Steps : d.step[t] = "Pending" => d.attempts[t] = 0
  BY <1>7, <1>10
<1>18. \A t \in Steps \ Idempotent : d.attempts[t] <= 1
  <2> SUFFICES ASSUME NEW t \in Steps \ Idempotent PROVE d.attempts[t] <= 1
    OBVIOUS
  <2>1. CASE t # s
    BY <2>1, <1>7, <1>10
  <2>2. CASE t = s
    <3>1. c.step[s] = "Pending"
      BY <2>2, <1>0, <1>2, <1>4 DEF MayRetry, StepStatus, is_complete
    <3>2. c.attempts[s] = 0
      BY <3>1
    <3> QED
      BY <2>2, <3>2, <1>7, <1>10
  <2> QED
    BY <2>1, <2>2
<1>19. Sound(d)
  BY <1>10, <1>15, <1>16, <1>17, <1>18 DEF Sound
<1>20. d.attempts[s] = c.attempts[s] + 1
  BY <1>7, <1>10
<1> QED
  BY <1>8, <1>10, <1>11, <1>19, <1>20
\* observe_step either refuses or yields a sound checkpoint further on; when it says the
\* step is to be executed, it has counted one more attempt of that step.
LEMMA ObserveStepSound ==
  ASSUME NEW c \in Checkpoints, Sound(c), NEW s \in Steps,
         observe_step(c, s).answer # "Err"
  PROVE  LET r == observe_step(c, s) IN
         /\ r.ckpt \in Checkpoints /\ Sound(r.ckpt) /\ Advances(c, r.ckpt)
         /\ r.answer \in Answers
         /\ r.answer = "Applied" => r.ckpt.attempts[s] >= c.attempts[s] + 1
<1> DEFINE r == observe_step(c, s)
           d == FinishCurrent(c)
           e == SkipPending(d, s - 1)
<1>1. CASE c.current = s
  <2>1. r = Ok(c, "AlreadyRunning")
    BY <1>1 DEF observe_step
  <2>2. r.ckpt = c /\ r.answer = "AlreadyRunning"
    BY <2>1 DEF Ok
  <2> QED
    BY <2>2, AdvancesReflexive DEF Answers
<1>2. CASE c.current # s
  <2>1. r = begin_step(e, s)
    BY <1>2 DEF observe_step
  <2>2. /\ d \in Checkpoints /\ Sound(d) /\ Advances(c, d) /\ Running(d) = {}
        /\ d.attempts = c.attempts
    BY FinishCurrentSound
  <2>3. s - 1 \in 0..N
    BY StepsAssumption DEF Steps
  <2> HIDE DEF d
  <2>4. /\ e \in Checkpoints /\ Advances(d, e)
        /\ e.status = d.status /\ e.attempts = d.attempts /\ e.current = d.current
        /\ \A t \in Steps : e.step[t] = IF t <= s - 1 /\ d.step[t] = "Pending"
                                        THEN "Skipped" ELSE d.step[t]
    BY <2>2, <2>3, SkipPendingFacts
  <2> HIDE DEF e
  <2>5. Advances(c, e)
    BY <2>2, <2>4, AdvancesTransitive
  <2>6. e.step[s] = d.step[s]
    BY <2>4 DEF Steps
  <2>7. Running(e) = {}
    BY <2>2, <2>4 DEF Running
  <2>8. \A t \in Steps : Complete(d, t) => Complete(e, t)
    BY <2>4 DEF Complete, is_complete
  <2>9. \A t \in Steps : \A u \in 1..(t - 1) : u \in Steps
    BY StepsAssumption DEF Steps
  <2>10. CASE e.step[s] \in is_complete
    <3>1. r = Ok(e, "AlreadyComplete")
      BY <2>1, <2>10 DEF begin_step, Complete, is_complete
    <3>2. r.ckpt = e /\ r.answer = "AlreadyComplete"
      BY <3>1 DEF Ok
    <3>3. d.step[s] # "Pending"
      BY <2>6, <2>10 DEF is_complete
    <3>4. EarlierComplete(d, s)
      BY <3>3, <2>2 DEF Sound
    <3>5. \A t \in Steps : t <= s - 1 => d.step[t] # "Pending"
      BY <3>4 DEF EarlierComplete, Complete, is_complete, Steps
    <3>6. \A t \in Steps : e.step[t] = d.step[t]
      BY <3>5, <2>4
    <3>7. Sound(e)
      <4>1. \A t \in Steps : e.step[t] # "Pending" => EarlierComplete(e, t)
        <5> SUFFICES ASSUME NEW t \in Steps, e.step[t] # "Pending" PROVE EarlierComplete(e, t)
          OBVIOUS
        <5>1. EarlierComplete(d, t)
          BY <3>6, <2>2 DEF Sound
        <5> QED
          BY <5>1, <2>8, <2>9 DEF EarlierComplete
      <4>2. \A t \in Steps : e.step[t] = "Running" => e.current = t /\ e.status = "Running"
        BY <2>7 DEF Running
      <4>3. e.status = "Succeeded" => AllComplete(e)
        BY <2>2, <2>4, <2>8 DEF Sound, AllComplete
      <4>4. \A t \in Steps : e.step[t] = "Pending" => e.attempts[t] = 0
        BY <3>6, <2>2, <2>4 DEF Sound
      <4>5. \A t \in Steps \ Idempotent : e.attempts[t] <= 1
        BY <2>2, <2>4 DEF Sound
      <4> QED
        BY <4>1, <4>2, <4>3, <4>4, <4>5 DEF Sound
    <3> QED
      BY <3>2, <3>7, <2>4, <2>5 DEF Answers
  <2>11. CASE e.step[s] \notin is_complete
    <3>1. \A t \in Steps : e.step[t] = "Pending" => e.attempts[t] = 0
      BY <2>2, <2>4 DEF Sound
    <3>2. \A t \in Steps \ Idempotent : e.attempts[t] <= 1
      BY <2>2, <2>4 DEF Sound
    <3>3. \A t \in Steps : t > s /\ e.step[t] # "Pending" => EarlierComplete(e, t)
      <4> SUFFICES ASSUME NEW t \in Steps, t > s, e.step[t] # "Pending"
                   PROVE  EarlierComplete(e, t)
        OBVIOUS
      <4>1. ~(t <= s - 1)
        BY StepsAssumption DEF Steps
      <4>2. d.step[t] # "Pending"
        BY <2>4, <4>1
      <4>3. EarlierComplete(d, t)
        BY <4>2, <2>2 DEF Sound
      <4> QED
        BY <4>3, <2>8, <2>9 DEF EarlierComplete
    <3>4. begin_step(e, s).answer # "Err"
      BY <2>1
    <3>5. /\ r.answer = "Applied"
          /\ r.ckpt \in Checkpoints /\ Sound(r.ckpt) /\ Advances(e, r.ckpt)
          /\ r.ckpt.attempts[s] = e.attempts[s] + 1
      BY <2>1, <2>4, <2>7, <2>11, <3>1, <3>2, <3>3, <3>4, BeginStepSound
    <3>6. Advances(c, r.ckpt)
      BY <2>4, <2>5, <3>5, AdvancesTransitive
    <3>7. r.ckpt.attempts[s] >= c.attempts[s] + 1
      BY <2>2, <2>4, <3>5, CkptFields
    <3> QED
      BY <3>5, <3>6, <3>7 DEF Answers
  <2> QED
    BY <2>10, <2>11
<1> QED
  BY <1>1, <1>2

\* fail_current either refuses or records the failure of the running step, or of the
\* operation when no step is current.
LEMMA FailCurrentSound ==
  ASSUME NEW c \in Checkpoints, Sound(c), fail_current(c).answer # "Err"
  PROVE  LET r == fail_current(c) IN
         /\ r.ckpt \in Checkpoints /\ Sound(r.ckpt) /\ Advances(c, r.ckpt)
         /\ r.answer = "Ok"
<1> DEFINE r == fail_current(c)
           d == r.ckpt
<1>0. /\ c.status \in OperationStatus /\ c.step \in [Steps -> StepStatus]
      /\ c.attempts \in [Steps -> Nat] /\ c.current \in Steps \cup {NoStep}
      /\ c.revision \in Nat
  BY CkptFields
<1>1. "Failed" \in OperationStatus /\ c.revision + 1 \in Nat
  BY <1>0 DEF OperationStatus
<1>2. \A t \in Steps : \A u \in 1..(t - 1) : u \in Steps
  BY StepsAssumption DEF Steps
<1>3. CASE c.current # NoStep
  <2> DEFINE marked == [c.step EXCEPT ![c.current] = "Failed"]
  <2>1. c.current \in Steps
    BY <1>3, <1>0
  <2>2. r = fail_step(c, c.current)
    BY <1>3 DEF fail_current
  <2>3. c.step[c.current] = "Running"
    BY <2>2 DEF fail_step, Err
  <2>4. r = Ok(Ckpt("Failed", marked, c.attempts, c.current, c.revision + 1), "Ok")
    BY <2>2, <2>3 DEF fail_step
  <2>5. marked \in [Steps -> StepStatus]
    BY <1>0, <2>1 DEF StepStatus
  <2>6. \A t \in Steps : marked[t] = IF t = c.current THEN "Failed" ELSE c.step[t]
    BY <1>0, <2>1
  <2> HIDE DEF marked
  <2>7. d = Ckpt("Failed", marked, c.attempts, c.current, c.revision + 1) /\ r.answer = "Ok"
    BY <2>4 DEF Ok
  <2>8. /\ d \in Checkpoints /\ d.status = "Failed" /\ d.step = marked
        /\ d.attempts = c.attempts /\ d.current = c.current /\ d.revision = c.revision + 1
    BY <2>7, <2>5, <1>0, <1>1 DEF Checkpoints, Ckpt
  <2>9. \A t \in Steps : Complete(c, t) => d.step[t] = c.step[t] /\ Complete(d, t)
    BY <2>3, <2>6, <2>8 DEF Complete, is_complete
  <2>10. \A t \in Steps : d.step[t] # "Pending" => EarlierComplete(d, t)
    <3> SUFFICES ASSUME NEW t \in Steps, d.step[t] # "Pending" PROVE EarlierComplete(d, t)
      OBVIOUS
    <3>1. EarlierComplete(c, t)
      BY <2>3, <2>6, <2>8 DEF Sound
    <3> QED
      BY <3>1, <2>9, <1>2 DEF EarlierComplete
  <2>11. \A t \in Steps : d.step[t] # "Running"
    BY <2>6, <2>8 DEF Sound
  <2>12. \A t \in Steps : d.step[t] = "Pending" => d.attempts[t] = 0
    BY <2>6, <2>8 DEF Sound
  <2>13. \A t \in Steps \ Idempotent : d.attempts[t] <= 1
    BY <2>8 DEF Sound
  <2>14. Sound(d)
    BY <2>8, <2>10, <2>11, <2>12, <2>13 DEF Sound
  <2>15. \A t \in Steps : d.attempts[t] >= c.attempts[t]
    BY <2>8, <1>0
  <2>16. Advances(c, d)
    BY <2>8, <2>9, <2>15, <1>0 DEF Advances
  <2> QED
    BY <2>7, <2>8, <2>14, <2>16
<1>4. CASE c.current = NoStep
  <2>1. r = Ok(Ckpt("Failed", c.step, c.attempts, c.current, c.revision + 1), "Ok")
    BY <1>4 DEF fail_current, mark_failed
  <2>2. d = Ckpt("Failed", c.step, c.attempts, c.current, c.revision + 1) /\ r.answer = "Ok"
    BY <2>1 DEF Ok
  <2>3. /\ d \in Checkpoints /\ d.status = "Failed" /\ d.step = c.step
        /\ d.attempts = c.attempts /\ d.current = c.current /\ d.revision = c.revision + 1
    BY <2>2, <1>0, <1>1 DEF Checkpoints, Ckpt
  <2>4. \A t \in Steps : c.step[t] # "Running"
    BY <1>4, StepsAssumption DEF Sound, Steps, NoStep
  <2>5. \A t \in Steps : d.step[t] # "Pending" => EarlierComplete(d, t)
    BY <2>3 DEF Sound, EarlierComplete, Complete
  <2>6. Sound(d)
    BY <2>3, <2>4, <2>5 DEF Sound
  <2>7. Advances(c, d)
    BY <2>3, <1>0 DEF Advances
  <2> QED
    BY <2>2, <2>3, <2>6, <2>7
<1> QED
  BY <1>3, <1>4

\* complete either refuses or records success, with every step finished or skipped.
LEMMA CompleteSound ==
  ASSUME NEW c \in Checkpoints, Sound(c), complete(c).answer # "Err"
  PROVE  LET r == complete(c) IN
         /\ r.ckpt \in Checkpoints /\ Sound(r.ckpt) /\ Advances(c, r.ckpt)
         /\ r.answer = "Ok"
<1> DEFINE r == complete(c)
           d == FinishCurrent(c)
           e == SkipPending(d, N)
           f == r.ckpt
<1>1. /\ d \in Checkpoints /\ Sound(d) /\ Advances(c, d) /\ Running(d) = {}
  BY FinishCurrentSound
<1>2. r = mark_succeeded(e) /\ N \in 0..N
  BY StepsAssumption DEF complete
<1> HIDE DEF d
<1>3. /\ e \in Checkpoints /\ Advances(d, e)
      /\ e.status = d.status /\ e.attempts = d.attempts /\ e.current = d.current
      /\ \A t \in Steps : e.step[t] = IF t <= N /\ d.step[t] = "Pending"
                                      THEN "Skipped" ELSE d.step[t]
  BY <1>1, <1>2, SkipPendingFacts
<1> HIDE DEF e
<1>4. AllComplete(e)
  BY <1>2 DEF mark_succeeded, Err
<1>5. r = Ok(Ckpt("Succeeded", e.step, e.attempts, NoStep, e.revision + 1), "Ok")
  BY <1>2, <1>4 DEF mark_succeeded
<1>6. f = Ckpt("Succeeded", e.step, e.attempts, NoStep, e.revision + 1) /\ r.answer = "Ok"
  BY <1>5 DEF Ok
<1>7. /\ e.step \in [Steps -> StepStatus] /\ e.attempts \in [Steps -> Nat]
      /\ e.revision \in Nat
  BY <1>3, CkptFields
<1>8. /\ f \in Checkpoints /\ f.status = "Succeeded" /\ f.step = e.step
      /\ f.attempts = e.attempts /\ f.revision = e.revision + 1
  BY <1>6, <1>7 DEF Checkpoints, Ckpt, OperationStatus
<1>9. \A t \in Steps : Complete(f, t)
  BY <1>4, <1>8 DEF AllComplete, Complete
<1>10. \A t \in Steps : EarlierComplete(f, t)
  BY <1>9, StepsAssumption DEF EarlierComplete, Steps
<1>11. \A t \in Steps : f.step[t] # "Running" /\ f.step[t] # "Pending"
  BY <1>9 DEF Complete, is_complete
<1>12. \A t \in Steps \ Idempotent : f.attempts[t] <= 1
  BY <1>1, <1>3, <1>8 DEF Sound
<1>13. Sound(f)
  BY <1>9, <1>10, <1>11, <1>12 DEF Sound, AllComplete
<1>14. Advances(e, f)
  BY <1>7, <1>8 DEF Advances
<1>15. Advances(c, f)
  BY <1>1, <1>3, <1>8, <1>14, AdvancesTransitive
<1> QED
  BY <1>6, <1>8, <1>13, <1>15

\* mark_interrupted turns the running step into an interrupted one.  When the operation
\* is neither pending nor running no step is running, so nothing changes unrecorded.
LEMMA MarkInterruptedSound ==
  ASSUME NEW c \in Checkpoints, Sound(c)
  PROVE  LET r == mark_interrupted(c) IN
         /\ r.ckpt \in Checkpoints /\ Sound(r.ckpt) /\ Advances(c, r.ckpt)
         /\ r.answer = "Ok"
<1> DEFINE r == mark_interrupted(c)
           d == r.ckpt
           stopped == [s \in Steps |-> IF c.step[s] = "Running" THEN "Interrupted" ELSE c.step[s]]
<1>0. /\ c.status \in OperationStatus /\ c.step \in [Steps -> StepStatus]
      /\ c.attempts \in [Steps -> Nat] /\ c.current \in Steps \cup {NoStep}
      /\ c.revision \in Nat
      /\ c = Ckpt(c.status, c.step, c.attempts, c.current, c.revision)
  BY CkptFields
<1>1. CASE c.status \in {"Pending", "Running"}
  <2>1. r = Ok(Ckpt("Interrupted", stopped, c.attempts, c.current, c.revision + 1), "Ok")
    BY <1>1 DEF mark_interrupted
  <2>2. stopped \in [Steps -> StepStatus]
    BY <1>0 DEF StepStatus
  <2>3. \A t \in Steps : stopped[t] = IF c.step[t] = "Running" THEN "Interrupted" ELSE c.step[t]
    OBVIOUS
  <2> HIDE DEF stopped
  <2>4. d = Ckpt("Interrupted", stopped, c.attempts, c.current, c.revision + 1)
        /\ r.answer = "Ok"
    BY <2>1 DEF Ok
  <2>5. /\ d \in Checkpoints /\ d.status = "Interrupted" /\ d.step = stopped
        /\ d.attempts = c.attempts /\ d.revision = c.revision + 1
    BY <2>2, <2>4, <1>0 DEF Checkpoints, Ckpt, OperationStatus
  <2>6. \A t \in Steps : Complete(c, t) => d.step[t] = c.step[t] /\ Complete(d, t)
    BY <2>3, <2>5 DEF Complete, is_complete
  <2>7. \A t \in Steps : \A u \in 1..(t - 1) : u \in Steps
    BY StepsAssumption DEF Steps
  <2>8. \A t \in Steps : d.step[t] # "Pending" => EarlierComplete(d, t)
    <3> SUFFICES ASSUME NEW t \in Steps, d.step[t] # "Pending" PROVE EarlierComplete(d, t)
      OBVIOUS
    <3>1. EarlierComplete(c, t)
      BY <2>3, <2>5 DEF Sound
    <3> QED
      BY <3>1, <2>6, <2>7 DEF EarlierComplete
  <2>9. \A t \in Steps : d.step[t] # "Running"
    BY <2>3, <2>5
  <2>10. \A t \in Steps : d.step[t] = "Pending" => d.attempts[t] = 0
    BY <2>3, <2>5 DEF Sound
  <2>11. \A t \in Steps \ Idempotent : d.attempts[t] <= 1
    BY <2>5 DEF Sound
  <2>12. Sound(d)
    BY <2>5, <2>8, <2>9, <2>10, <2>11 DEF Sound
  <2>13. Advances(c, d)
    BY <2>5, <2>6, <1>0 DEF Advances
  <2> QED
    BY <2>4, <2>5, <2>12, <2>13
<1>2. CASE c.status \notin {"Pending", "Running"}
  <2>1. r = Ok(Ckpt(c.status, stopped, c.attempts, c.current, c.revision), "Ok")
    BY <1>2 DEF mark_interrupted
  <2>2. \A t \in Steps : c.step[t] # "Running"
    BY <1>2 DEF Sound
  <2>3. stopped = c.step
    BY <2>2, <1>0
  <2>4. d = c /\ r.answer = "Ok"
    BY <2>1, <2>3, <1>0 DEF Ok
  <2> QED
    BY <2>4, AdvancesReflexive
<1> QED
  BY <1>1, <1>2
-----------------------------------------------------------------------------
\* The initial state satisfies the invariant.
LEMMA InitInvariant == Init => IInv
<1> SUFFICES ASSUME Init PROVE IInv
  OBVIOUS
<1>1. TypeOK
  BY JournalAssumption DEF Init, TypeOK, RequestSet
<1>2. NonIdempotentOnce
  BY DEF Init, NonIdempotentOnce
<1> QED
  BY <1>1, <1>2 DEF Init, IInv

\* A request is typed.
LEMMA RequestTyped ==
  ASSUME TypeOK
  PROVE  /\ request.kind \in Requests \cup {"none"} /\ request.step \in Steps \cup {NoStep}
         /\ request.answer \in Answers
  BY DEF TypeOK, RequestSet, NoRequest, Answers

\* Calls other than create and open: the clone is computed, nothing durable changes.
LEMMA UpdatePreserves ==
  ASSUME IInv, NEW kind \in Requests \ {"create"}, NEW s \in Steps \cup {NoStep},
         kind = "observe" => s \in Steps,
         NEW STATE result,
         result.answer \in Answers,
         (pc = "idle" /\ result.answer # "Err") =>
           /\ result.ckpt \in Checkpoints /\ Sound(result.ckpt) /\ Advances(live, result.ckpt)
           /\ (kind = "observe" /\ result.answer = "Applied") =>
                result.ckpt.attempts[s] >= live.attempts[s] + 1,
         update(kind, s, result)
  PROVE  IInv'
<1> DEFINE call == [kind |-> kind, step |-> s, answer |-> result.answer]
<1>1. /\ pc = "idle" /\ live # None /\ disk = live /\ live \in Checkpoints
      /\ next = None /\ Sound(live) /\ begun \in [Steps -> Nat]
      /\ \A t \in Steps : begun[t] <= live.attempts[t]
      /\ live.attempts \in [Steps -> Nat]
  BY CkptFields DEF IInv, TypeOK, update
<1>2. call \in RequestSet /\ call.kind = kind /\ call.step = s /\ call.answer = result.answer
  BY DEF RequestSet
<1> HIDE DEF call
<1>3. CASE result.answer = "Err"
  <2>1. answer' = call /\ UNCHANGED <<disk, live, pc, next, request, tries, begun, faults>>
    BY <1>3 DEF update, call
  <2>2. TypeOK'
    BY <2>1, <1>2 DEF IInv, TypeOK
  <2>3. NonIdempotentOnce'
    BY <2>1 DEF IInv, NonIdempotentOnce
  <2> QED
    BY <2>1, <2>2, <2>3, <1>1 DEF IInv
<1>4. CASE result.answer # "Err"
  <2>1. /\ next' = result.ckpt /\ pc' = "saving" /\ request' = call /\ tries' = 0
        /\ UNCHANGED <<disk, live, answer, begun, faults>>
    BY <1>4 DEF update, call
  <2>2. /\ result.ckpt \in Checkpoints /\ Sound(result.ckpt) /\ Advances(live, result.ckpt)
        /\ (kind = "observe" /\ result.answer = "Applied") =>
             result.ckpt.attempts[s] >= live.attempts[s] + 1
        /\ result.ckpt # None /\ result.ckpt.attempts \in [Steps -> Nat]
    BY <1>1, <1>4, CkptFields
  <2>3. TypeOK'
    <3>1. 0 \in 0..(MaxAttempts - 1)
      BY JournalAssumption
    <3> QED
      BY <2>1, <2>2, <3>1, <1>2 DEF IInv, TypeOK
  <2>4. NonIdempotentOnce'
    BY <2>1 DEF IInv, NonIdempotentOnce
  <2>5. Sound(next)' /\ Advances(live, next)'
    BY <2>1, <2>2 DEF Sound, Advances, AllComplete, EarlierComplete, Complete
  <2>6. \A t \in Steps : Told(t)' <= next'.attempts[t]
    <3> SUFFICES ASSUME NEW t \in Steps PROVE Told(t)' <= next'.attempts[t]
      OBVIOUS
    <3>1. result.ckpt.attempts[t] >= live.attempts[t]
      BY <2>2 DEF Advances
    <3>2. CASE kind = "observe" /\ result.answer = "Applied" /\ s = t
      <4>1. Told(t)' = begun[t] + 1
        BY <3>2, <2>1, <1>2 DEF Told
      <4> QED
        BY <4>1, <3>2, <2>1, <2>2, <1>1
    <3>3. CASE ~(kind = "observe" /\ result.answer = "Applied" /\ s = t)
      <4>1. Told(t)' = begun[t]
        BY <3>3, <2>1, <1>2 DEF Told
      <4> QED
        BY <4>1, <3>1, <2>1, <2>2, <1>1
    <3> QED
      BY <3>2, <3>3
  <2>7. /\ pc' = "saving" /\ next' # None /\ live' # None /\ disk' = live'
        /\ request'.kind = kind /\ (request'.kind = "observe" => request'.step \in Steps)
        /\ request'.kind # "create" /\ request'.kind \in Requests
    BY <2>1, <2>2, <1>1, <1>2
  <2>8. disk' # None => Sound(disk)' /\ \A t \in Steps : begun'[t] <= disk'.attempts[t]
    BY <2>1, <1>1 DEF Sound
  <2> QED
    BY <2>3, <2>4, <2>5, <2>6, <2>7, <2>8 DEF IInv
<1> QED
  BY <1>3, <1>4
\* Every call preserves the invariant.
LEMMA CallsPreserve ==
  ASSUME IInv, (\E s \in Steps : observe(s)) \/ fail \/ complete_operation \/ interrupt
  PROVE  IInv'
<1>1. pc = "idle" => live \in Checkpoints /\ Sound(live)
  BY DEF IInv, TypeOK
<1>2. ASSUME NEW s \in Steps, observe(s) PROVE IInv'
  <2>1. (pc = "idle" /\ observe_step(live, s).answer # "Err") =>
          /\ observe_step(live, s).ckpt \in Checkpoints /\ Sound(observe_step(live, s).ckpt)
          /\ Advances(live, observe_step(live, s).ckpt)
          /\ observe_step(live, s).answer \in Answers
          /\ observe_step(live, s).answer = "Applied" =>
               observe_step(live, s).ckpt.attempts[s] >= live.attempts[s] + 1
    BY <1>1, ObserveStepSound
  <2>2. pc = "idle"
    BY <1>2 DEF observe, update
  <2>3. observe_step(live, s).answer \in Answers
    BY <2>1, <2>2 DEF Answers
  <2>4. "observe" \in Requests \ {"create"}
    BY DEF Requests
  <2> QED
    BY <1>2, <2>1, <2>3, <2>4, UpdatePreserves DEF observe
<1>3. ASSUME fail PROVE IInv'
  <2>1. pc = "idle"
    BY <1>3 DEF fail, update
  <2>2. fail_current(live).answer # "Err" =>
          /\ fail_current(live).ckpt \in Checkpoints /\ Sound(fail_current(live).ckpt)
          /\ Advances(live, fail_current(live).ckpt) /\ fail_current(live).answer = "Ok"
    BY <1>1, <2>1, FailCurrentSound
  <2>3. fail_current(live).answer \in Answers
    BY <2>2 DEF Answers
  <2>4. "fail" \in Requests \ {"create"} /\ "fail" # "observe"
    BY DEF Requests
  <2> QED
    BY <1>3, <2>2, <2>3, <2>4, UpdatePreserves DEF fail
<1>4. ASSUME complete_operation PROVE IInv'
  <2>1. pc = "idle"
    BY <1>4 DEF complete_operation, update
  <2>2. complete(live).answer # "Err" =>
          /\ complete(live).ckpt \in Checkpoints /\ Sound(complete(live).ckpt)
          /\ Advances(live, complete(live).ckpt) /\ complete(live).answer = "Ok"
    BY <1>1, <2>1, CompleteSound
  <2>3. complete(live).answer \in Answers
    BY <2>2 DEF Answers
  <2>4. "complete" \in Requests \ {"create"} /\ "complete" # "observe"
    BY DEF Requests
  <2> QED
    BY <1>4, <2>2, <2>3, <2>4, UpdatePreserves DEF complete_operation
<1>5. ASSUME interrupt PROVE IInv'
  <2>1. pc = "idle"
    BY <1>5 DEF interrupt, update
  <2>2. /\ mark_interrupted(live).ckpt \in Checkpoints /\ Sound(mark_interrupted(live).ckpt)
        /\ Advances(live, mark_interrupted(live).ckpt) /\ mark_interrupted(live).answer = "Ok"
    BY <1>1, <2>1, MarkInterruptedSound
  <2>3. mark_interrupted(live).answer \in Answers
    BY <2>2 DEF Answers
  <2>4. "interrupt" \in Requests \ {"create"} /\ "interrupt" # "observe"
    BY DEF Requests
  <2> QED
    BY <1>5, <2>2, <2>3, <2>4, UpdatePreserves DEF interrupt
<1> QED
  BY <1>2, <1>3, <1>4, <1>5

\* create and open preserve the invariant.
LEMMA OpeningPreserves ==
  ASSUME IInv, create \/ open
  PROVE  IInv'
<1>0. 0 \in 0..(MaxAttempts - 1)
  BY JournalAssumption
<1>1. CASE create
  <2> DEFINE call == [kind |-> "create", step |-> NoStep, answer |-> "Ok"]
  <2>1. /\ pc' = "saving" /\ next' = new /\ tries' = 0 /\ request' = call
        /\ UNCHANGED <<disk, live, answer, begun, faults>> /\ pc = "closed"
    BY <1>1 DEF create
  <2>2. call \in RequestSet /\ call.kind = "create" /\ call.kind \in Requests
    BY DEF RequestSet, Requests, Answers
  <2> HIDE DEF call
  <2>3. TypeOK'
    BY <2>1, <2>2, <1>0, NewSound DEF IInv, TypeOK
  <2>4. NonIdempotentOnce' /\ live' = None
    BY <2>1 DEF IInv, NonIdempotentOnce
  <2>5. next' # None /\ Sound(next)'
    BY <2>1, NewSound, CkptFields DEF Sound
  <2>6. disk' # None => Sound(disk)' /\ \A t \in Steps : begun'[t] <= disk'.attempts[t]
    BY <2>1 DEF IInv, Sound
  <2> QED
    BY <2>1, <2>2, <2>3, <2>4, <2>5, <2>6 DEF IInv
<1>2. CASE open
  <2>1. /\ live' = disk /\ pc' = "idle" /\ answer' = NoRequest /\ disk # None
        /\ UNCHANGED <<disk, next, request, tries, begun, faults>> /\ pc = "closed"
    BY <1>2 DEF open
  <2>2. TypeOK'
    BY <2>1 DEF IInv, TypeOK, RequestSet
  <2>3. NonIdempotentOnce' /\ next' = None
    BY <2>1 DEF IInv, NonIdempotentOnce
  <2>4. disk' # None => Sound(disk)' /\ \A t \in Steps : begun'[t] <= disk'.attempts[t]
    BY <2>1 DEF IInv, Sound
  <2> QED
    BY <2>1, <2>2, <2>3, <2>4 DEF IInv
<1> QED
  BY <1>1, <1>2

\* The save, its failures and the adoption of the clone preserve the invariant.
LEMMA SavingPreserves ==
  ASSUME IInv, SaveLands \/ SaveFails \/ Adopt
  PROVE  IInv'
<1>0. 0 \in 0..(MaxAttempts - 1)
  BY JournalAssumption
<1>1. CASE SaveLands
  <2>1. /\ pc = "saving" /\ disk' = next /\ pc' = "saved"
        /\ begun' = IF request.kind = "create" THEN [s \in Steps |-> 0] ELSE begun
        /\ UNCHANGED <<live, next, request, tries, answer, faults>>
    BY <1>1 DEF SaveLands
  <2>2. next # None /\ next \in Checkpoints /\ Sound(next) /\ next.attempts \in [Steps -> Nat]
    BY <2>1, CkptFields DEF IInv, TypeOK
  <2>3. begun' \in [Steps -> Nat]
    BY <2>1 DEF IInv, TypeOK
  <2>4. TypeOK'
    BY <2>1, <2>2, <2>3 DEF IInv, TypeOK
  <2>5. NonIdempotentOnce'
    BY <2>1 DEF IInv, NonIdempotentOnce
  <2>6. \A t \in Steps : Told(t)' <= next.attempts[t] /\ begun'[t] <= next.attempts[t]
    <3>1. CASE request.kind = "create"
      BY <3>1, <2>1, <2>2 DEF Told
    <3>2. CASE request.kind # "create"
      BY <3>2, <2>1, <2>2, <2>3 DEF IInv, TypeOK, Told
    <3> QED
      BY <3>1, <3>2
  <2>7. Sound(next)' /\ Sound(disk)'
    BY <2>1, <2>2 DEF Sound, AllComplete, EarlierComplete, Complete
  <2> QED
    BY <2>1, <2>2, <2>4, <2>5, <2>6, <2>7 DEF IInv
<1>2. CASE SaveFails
  <2>1. /\ pc = "saving" /\ faults' = faults + 1 /\ faults < MaxFaults
        /\ UNCHANGED <<disk, live, begun>>
    BY <1>2 DEF SaveFails, GiveUp
  <2>2. faults' \in 0..MaxFaults
    BY <2>1, JournalAssumption DEF IInv, TypeOK
  <2>3. NonIdempotentOnce'
    BY <2>1 DEF IInv, NonIdempotentOnce
  <2>4. disk' # None => Sound(disk)' /\ \A t \in Steps : begun'[t] <= disk'.attempts[t]
    BY <2>1 DEF IInv, Sound
  <2>5. CASE tries' = tries + 1 /\ tries + 1 < MaxAttempts
             /\ UNCHANGED <<disk, live, pc, next, request, answer, begun>>
    <3>1. TypeOK'
      BY <2>2, <2>5, JournalAssumption DEF IInv, TypeOK
    <3>2. Sound(next)' /\ (request.kind # "create" => Advances(live, next)')
      BY <2>1, <2>5 DEF IInv, Sound, Advances
    <3>3. \A t \in Steps : Told(t)' = Told(t)
      BY <2>5 DEF Told
    <3> QED
      BY <2>1, <2>3, <2>4, <2>5, <3>1, <3>2, <3>3 DEF IInv
  <2>6. CASE GiveUp
    <3> DEFINE call == [kind |-> request.kind, step |-> request.step, answer |-> "Err"]
    <3>1. /\ pc' = IF live = None THEN "closed" ELSE "idle"
          /\ next' = None /\ request' = NoRequest /\ tries' = 0 /\ answer' = call
      BY <2>6 DEF GiveUp
    <3>2. request.kind \in Requests
      BY <2>1 DEF IInv
    <3>3. call \in RequestSet
      BY <3>2, RequestTyped DEF RequestSet, IInv, Answers
    <3> HIDE DEF call
    <3>4. TypeOK'
      BY <2>1, <2>2, <3>1, <3>3, <1>0 DEF IInv, TypeOK, RequestSet
    <3>5. live # None => disk = live
      BY <2>1 DEF IInv
    <3> QED
      BY <2>1, <2>3, <2>4, <3>1, <3>4, <3>5 DEF IInv
  <2> QED
    BY <1>2, <2>5, <2>6 DEF SaveFails, RetryAfter
<1>3. CASE Adopt
  <2>1. /\ pc = "saved" /\ live' = next /\ next' = None /\ answer' = request
        /\ request' = NoRequest /\ tries' = 0 /\ UNCHANGED <<disk, faults>>
        /\ pc' \in {"idle", "removing"}
        /\ begun' = IF request.kind = "observe" /\ request.answer = "Applied"
                    THEN [begun EXCEPT ![request.step] = @ + 1] ELSE begun
    BY <1>3 DEF Adopt
  <2>2. /\ next # None /\ next \in Checkpoints /\ Sound(next) /\ disk = next
        /\ begun \in [Steps -> Nat] /\ next.attempts \in [Steps -> Nat]
        /\ request.kind = "observe" => request.step \in Steps
    BY <2>1, CkptFields DEF IInv, TypeOK
  <2>3. \A t \in Steps : begun'[t] = Told(t) /\ Told(t) \in Nat
    BY <2>1, <2>2 DEF Told
  <2>4. begun' \in [Steps -> Nat]
    BY <2>1, <2>2
  <2>5. \A t \in Steps : begun'[t] <= next.attempts[t]
    BY <2>1, <2>3 DEF IInv
  <2>6. TypeOK'
    BY <2>1, <2>2, <2>4, <1>0 DEF IInv, TypeOK, RequestSet
  <2>7. NonIdempotentOnce'
    <3> SUFFICES ASSUME NEW t \in Steps \ Idempotent PROVE begun'[t] <= 1
      BY DEF NonIdempotentOnce
    <3>1. next.attempts[t] <= 1
      BY <2>2 DEF Sound
    <3> QED
      BY <3>1, <2>2, <2>4, <2>5
  <2>8. Sound(disk)' /\ disk' # None /\ disk' = live'
    BY <2>1, <2>2 DEF Sound
  <2> QED
    BY <2>1, <2>2, <2>5, <2>6, <2>7, <2>8 DEF IInv
<1> QED
  BY <1>1, <1>2, <1>3

\* Removing the file and dying preserve the invariant.
LEMMA EndingPreserves ==
  ASSUME IInv, remove \/ RemoveFails \/ Crash
  PROVE  IInv'
<1>0. 0 \in 0..(MaxAttempts - 1)
  BY JournalAssumption
<1>1. CASE remove
  <2>1. /\ pc = "removing" /\ disk' = None /\ live' = None /\ pc' = "closed"
        /\ UNCHANGED <<next, request, tries, answer, begun, faults>>
    BY <1>1 DEF remove
  <2>2. TypeOK' /\ NonIdempotentOnce' /\ next' = None
    BY <2>1 DEF IInv, TypeOK, NonIdempotentOnce
  <2> QED
    BY <2>1, <2>2 DEF IInv
<1>2. CASE RemoveFails \/ Crash
  <2>1. /\ faults' = faults + 1 /\ faults < MaxFaults /\ live' = None /\ pc' = "closed"
        /\ UNCHANGED <<disk, begun>>
    BY <1>2 DEF RemoveFails, Crash
  <2>2. next' = None
    BY <1>2 DEF RemoveFails, Crash, IInv
  <2>3. faults' \in 0..MaxFaults
    BY <2>1, JournalAssumption DEF IInv, TypeOK
  <2>4. request' \in RequestSet /\ answer' \in RequestSet /\ tries' \in 0..(MaxAttempts - 1)
    BY <1>2, <1>0 DEF RemoveFails, Crash, IInv, TypeOK, RequestSet
  <2>5. TypeOK'
    BY <2>1, <2>2, <2>3, <2>4 DEF IInv, TypeOK
  <2>6. NonIdempotentOnce'
    BY <2>1 DEF IInv, NonIdempotentOnce
  <2>7. disk' # None => Sound(disk)' /\ \A t \in Steps : begun'[t] <= disk'.attempts[t]
    BY <2>1 DEF IInv, Sound
  <2> QED
    BY <2>1, <2>2, <2>5, <2>6, <2>7 DEF IInv
<1> QED
  BY <1>1, <1>2

\* A step that changes nothing preserves the invariant.
LEMMA StutterPreserves ==
  ASSUME IInv, UNCHANGED vars
  PROVE  IInv'
<1>1. UNCHANGED <<disk, live, pc, next, request, tries, answer, begun, faults>>
  BY DEF vars
<1>2. TypeOK' /\ NonIdempotentOnce'
  BY <1>1 DEF IInv, TypeOK, NonIdempotentOnce
<1>3. \A t \in Steps : Told(t)' = Told(t)
  BY <1>1 DEF Told
<1> QED
  BY <1>1, <1>2, <1>3 DEF IInv, Sound, Advances

\* IInv is an inductive invariant of the journal.
THEOREM JournalInvariant == Spec => []IInv
<1>1. IInv /\ [Next]_vars => IInv'
  BY CallsPreserve, OpeningPreserves, SavingPreserves, EndingPreserves, StutterPreserves
     DEF Next
<1> QED
  BY InitInvariant, <1>1, PTL DEF Spec

\* Type correctness; in particular a save is never attempted more than MaxAttempts times.
THEOREM JournalTypeCorrect == Spec => []TypeOK
  BY JournalInvariant, PTL DEF IInv

\* What a caller of the journal observes is on disk, for any number of failed writes.
THEOREM ObservedIsDurableHolds == Spec => []ObservedIsDurable
<1>1. IInv => ObservedIsDurable
  <2> SUFFICES ASSUME IInv, live # None PROVE disk = live \/ (pc = "saved" /\ disk = next)
    BY DEF ObservedIsDurable
  <2>1. pc \in {"closed", "idle", "saving", "saved", "removing"}
    BY DEF IInv, TypeOK
  <2> QED
    BY <2>1 DEF IInv
<1> QED
  BY JournalInvariant, <1>1, PTL

\* The steps of every recorded operation were taken in order, one at a time.
THEOREM StepsInOrderHolds == Spec => []StepsInOrder
<1>1. IInv => StepsInOrder
  BY DEF IInv, StepsInOrder, Sound, Running
<1> QED
  BY JournalInvariant, <1>1, PTL

\* A destructive step is begun at most once in a recorded operation, through any crashes.
THEOREM NonIdempotentOnceHolds == Spec => []NonIdempotentOnce
  BY JournalInvariant, PTL DEF IInv

\* The journal never computes a checkpoint its own validate refuses.
THEOREM SaveNeverRefusedHolds == Spec => []SaveNeverRefused
<1>1. IInv => SaveNeverRefused
  BY SoundIsValid DEF IInv, TypeOK, SaveNeverRefused
<1> QED
  BY JournalInvariant, <1>1, PTL

\* The file only moves forward while it holds one operation.
THEOREM DurableProgressHolds == Spec => DurableProgress
<1> DEFINE Forward == (disk # None /\ disk' # None /\ disk' # disk /\ request.kind # "create") =>
        /\ \A s \in Steps : /\ Complete(disk, s) => disk'.step[s] = disk.step[s]
                            /\ disk'.attempts[s] >= disk.attempts[s]
        /\ disk'.revision > disk.revision
<1>1. IInv /\ [Next]_vars => [Forward]_vars
  <2> SUFFICES ASSUME IInv, [Next]_vars, disk # None, disk' # None, disk' # disk,
                      request.kind # "create"
               PROVE  /\ \A s \in Steps : /\ Complete(disk, s) => disk'.step[s] = disk.step[s]
                                          /\ disk'.attempts[s] >= disk.attempts[s]
                      /\ disk'.revision > disk.revision
    OBVIOUS
  <2>0. Next
    BY DEF vars
  <2>1. SaveLands
    BY <2>0 DEF Next, create, open, observe, fail, complete_operation, interrupt, update,
           SaveFails, GiveUp, Adopt, remove, RemoveFails, Crash
  <2>2. pc = "saving" /\ disk' = next
    BY <2>1 DEF SaveLands
  <2>3. disk = live /\ Advances(live, next)
    BY <2>2 DEF IInv
  <2> QED
    BY <2>2, <2>3 DEF Advances
<1> QED
  BY JournalInvariant, <1>1, PTL DEF Spec, DurableProgress
=============================================================================
