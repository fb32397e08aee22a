--------------------------- MODULE PeSessionProofs ---------------------------
(***************************************************************************)
(* Proofs about one WinPE task as its user sees it, for every script, any  *)
(* percentages, any message budget of a poll and any number of reports:    *)
(* the stream of messages stays in step with the worker, so the window     *)
(* shows a percentage under its own step, reports the end the worker       *)
(* reported, opens one failure prompt, closes only behind the worker, and  *)
(* never moves the weighted bar backwards.                                 *)
(***************************************************************************)
EXTENDS PeSession, TLAPS

(* The stages of each script, and the steps they announce.                 *)
Script == [
  install |-> {"Authenticate", "VerifyImage", "FormatPartition", "ApplyImage", "ImportDrivers",
               "InstallCabPackages", "RepairBoot", "ApplyAdvancedOptions", "GenerateUnattend",
               "Cleanup", "Complete"},
  backup |-> {"ReadConfig", "CaptureImage", "VerifyBackup", "BackupCleanup", "BackupComplete"},
  expand |-> {"Accept", "Shrink", "MoveStarts", "MoveEnds", "Recreate", "CarryStarts",
              "CarryEnds", "Extend", "Expanded", "Cleaned"}]

Steps == [install |-> 0..9, backup |-> 0..5, expand |-> {NoStep}]

Percent == 0..255

Messages(m) ==
  [kind : {"step", "sample"}, step : Steps[m], progress : Percent \cup {None}, status : BOOLEAN]
    \cup [kind : Terminals, step : {NoStep}, progress : {None}, status : BOOLEAN]

States(m) ==
  [step : Steps[m] \cup {NoStep}, progress : 0..100, progressOf : Int, status : BOOLEAN,
   statusOf : Int, overall : 0..100, is_completed : BOOLEAN, is_failed : BOOLEAN,
   warned : BOOLEAN]

Pendings ==
  [progress : Percent \cup {None}, progressOf : Int, status : BOOLEAN, statusOf : Int]

Boxes == [kind : {"warning", "failure"}, changed : BOOLEAN]

TypeInv ==
  /\ mode \in {"install", "backup", "expand"} /\ stage \in Script[mode]
  /\ pc \in {"start", "working", "relayed", "engine", "joining", "tail", "dropped", "exited"}
  /\ sent \in Terminals \cup {"none"}
  /\ queue \in Seq(Messages(mode)) /\ engine \in Seq(Messages(mode))
  /\ pending \in Pendings
  /\ state \in States(mode)
  /\ prompts \in Nat /\ modals \in Seq(Boxes)

(* Who may still send: the relay lives inside an engine call, or behind a  *)
(* worker that gave up on it, and holds samples of the worker's stage.     *)
WorkerInv ==
  /\ pc \in {"relayed", "engine"} => relay
  /\ pc \in {"start", "working"} => ~relay
  /\ ~relay \/ pc = "relayed" \/ sent # "none" => engine = <<>>
  /\ pc = "tail" => sent # "none"
  /\ sent # "none" => pc \in {"tail", "dropped", "exited"}
  /\ \A i \in 1..Len(engine) : engine[i].kind = "sample" /\ engine[i].step = StepOf[stage]

(* The step shown when the i-th waiting message is received, and the one   *)
(* shown once all of them are.                                             *)
Before(i) == IF i = 1 THEN state.step ELSE queue[i - 1].step
Ahead == IF queue = <<>> THEN state.step ELSE queue[Len(queue)].step

StreamOk(i) ==
  /\ queue[i].kind = "sample" => queue[i].step = Before(i)
  /\ queue[i].kind \in {"completed", "warning"} => Before(i) = StepOf[Last[mode]]
  /\ queue[i].kind \in Terminals => i = Len(queue) /\ sent = queue[i].kind
  /\ queue[i].kind = "step" => mode # "expand"

StreamInv ==
  /\ \A i \in 1..Len(queue) : StreamOk(i)
  /\ pc \in {"working", "relayed", "engine", "joining"} \/ engine # <<>> => Ahead = StepOf[stage]

(* What the session has coalesced belongs to the step it shows.            *)
PendingInv ==
  /\ pending.progress # None => pending.progressOf = state.step /\ state.step \in Steps[mode]
  /\ pending.status => pending.statusOf = state.step

(* The session's end of the stream.                                        *)
SeenInv ==
  /\ terminal_message_seen => state.is_completed \/ state.is_failed
  /\ state.is_completed \/ state.is_failed => terminal_message_seen /\ queue = <<>>
  /\ sent # "none" => terminal_message_seen \/ (queue # <<>> /\ queue[Len(queue)].kind = sent)
  /\ state.is_completed => sent \in {"completed", "warning"}
  /\ state.is_failed => sent = "failed" \/ (sent = "none" /\ ~Senders)

(* The window's.                                                           *)
WindowInv ==
  /\ worker_finished => pc = "exited"
  /\ terminal = "Failed" => state.is_failed
  /\ failure_log_prompt_shown => prompts = 1 /\ worker_finished /\ terminal = "Failed"
  /\ ~failure_log_prompt_shown => prompts = 0
  /\ ui = "closed" => can_close

ButtonInv == closeButton = can_close

MenuInv == (\A i \in 1..Len(modals) : modals[i].kind # "warning") => closeMenu = can_close

IInv ==
  /\ TypeInv /\ WorkerInv /\ StreamInv /\ PendingInv /\ ProgressBelongsToStep
  /\ SeenInv /\ WindowInv /\ ButtonInv /\ MenuInv

----------------------------------------------------------------------------

(* A script stays among its own stages, and every stage announces a step   *)
(* of its mode.                                                            *)
LEMMA ScriptFacts ==
  ASSUME NEW m \in {"install", "backup", "expand"}, NEW s \in Script[m]
  PROVE  /\ Script[m] \subseteq Stages /\ Follows[s] \subseteq Script[m]
         /\ First[m] \in Script[m] /\ Last[m] \in Script[m]
         /\ StepOf[s] \in Steps[m]
         /\ m = "expand" => ReportedAt[s] \in Percent
<1>1. Script[m] \subseteq Stages
  BY DEF Script, Stages, Follows
<1>2. Follows[s] \subseteq Script[m]
  <2>1. CASE m = "install"
    BY <2>1 DEF Script, Follows
  <2>2. CASE m = "backup"
    BY <2>2 DEF Script, Follows
  <2>3. CASE m = "expand"
    BY <2>3 DEF Script, Follows
  <2> QED
    BY <2>1, <2>2, <2>3
<1>3. First[m] \in Script[m] /\ Last[m] \in Script[m]
  BY DEF Script, First, Last
<1>4. StepOf[s] \in Steps[m]
  <2>1. CASE m = "install"
    BY <1>1, <2>1 DEF Script, StepOf, Steps, NoStep
  <2>2. CASE m = "backup"
    BY <1>1, <2>2 DEF Script, StepOf, Steps, NoStep
  <2>3. CASE m = "expand"
    BY <1>1, <2>3 DEF Script, StepOf, Steps, NoStep
  <2> QED
    BY <2>1, <2>2, <2>3
<1>5. m = "expand" => ReportedAt[s] \in Percent
  BY DEF Script, ReportedAt, Percent
<1> QED
  BY <1>1, <1>2, <1>3, <1>4, <1>5

LEMMA MinMaxFacts ==
  ASSUME NEW a \in Int, NEW b \in Int
  PROVE  /\ Min({a, b}) \in {a, b} /\ Min({a, b}) <= a /\ Min({a, b}) <= b
         /\ Max({a, b}) \in {a, b} /\ Max({a, b}) >= a /\ Max({a, b}) >= b
<1>1. \E x \in {a, b} : \A y \in {a, b} : x <= y
  <2>1. CASE a <= b
    BY <2>1
  <2>2. CASE b <= a
    BY <2>2
  <2> QED
    BY <2>1, <2>2
<1>2. \E x \in {a, b} : \A y \in {a, b} : x >= y
  <2>1. CASE a >= b
    BY <2>1
  <2>2. CASE b >= a
    BY <2>2
  <2> QED
    BY <2>1, <2>2
<1>3. Min({a, b}) \in {a, b} /\ \A y \in {a, b} : Min({a, b}) <= y
  BY <1>1 DEF Min
<1>4. Max({a, b}) \in {a, b} /\ \A y \in {a, b} : Max({a, b}) >= y
  BY <1>2 DEF Max
<1> QED
  BY <1>3, <1>4

(* The weighted percentage of a step lies in the range of the step.        *)
LEMMA WeightedFacts ==
  ASSUME NEW m \in {"install", "backup"}, NEW k \in Steps[m], NEW p \in 0..100
  PROVE  weighted_progress(overall_range[m][k + 1], p) \in 0..100
<1>1. Min({p, 100}) = p
  BY MinMaxFacts
<1> DEFINE a == overall_range[m][k + 1][1]
           b == overall_range[m][k + 1][2]
<1>2. a \in 0..100 /\ b \in 0..100 /\ a <= b
  <2>1. CASE m = "install"
    <3>1. overall_range[m] = <<<<0, 3>>, <<3, 7>>, <<7, 82>>, <<82, 88>>, <<88, 92>>,
                <<92, 96>>, <<96, 98>>, <<98, 99>>, <<99, 100>>, <<100, 100>>>>
      BY <2>1 DEF overall_range
    <3>2. k \in {0, 1, 2, 3, 4, 5, 6, 7, 8, 9}
      BY <2>1 DEF Steps
    <3> QED
      BY <3>1, <3>2
  <2>2. CASE m = "backup"
    <3>1. overall_range[m] = <<<<0, 3>>, <<3, 93>>, <<93, 97>>, <<97, 99>>, <<99, 100>>,
                               <<100, 100>>>>
      BY <2>2 DEF overall_range
    <3>2. k \in {0, 1, 2, 3, 4, 5}
      BY <2>2 DEF Steps
    <3> QED
      BY <3>1, <3>2
  <2> QED
    BY <2>1, <2>2
<1>3. weighted_progress(overall_range[m][k + 1], p) = a + ((b - a) * p) \div 100
  BY <1>1 DEF weighted_progress
<1> HIDE DEF a, b
<1>4. (b - a) * p \in Nat /\ (b - a) * p <= (b - a) * 100
  BY <1>2, SMTT(30)
<1>5. ((b - a) * p) \div 100 \in 0..(b - a)
  <2> DEFINE n == (b - a) * p
  <2>1. n \in Nat /\ n <= (b - a) * 100
    BY <1>4
  <2> HIDE DEF n
  <2>2. n \div 100 \in 0..(b - a)
    BY <2>1, <1>2
  <2> QED
    BY <2>2 DEF n
<1> QED
  BY <1>2, <1>3, <1>5

(* What showing a percentage, a new step and the end make of the state.    *)
LEMMA StepProgressFacts ==
  ASSUME mode \in {"install", "backup", "expand"}, NEW s \in States(mode),
         s.step \in Steps[mode], NEW p \in Percent, NEW of \in Int
  PROVE  LET t == set_step_progress(s, p, of)
         IN  /\ t \in States(mode) /\ t.step = s.step /\ t.progressOf = of
             /\ t.status = s.status /\ t.statusOf = s.statusOf
             /\ t.is_completed = s.is_completed /\ t.is_failed = s.is_failed
             /\ mode # "expand" => t.overall >= s.overall
<1> DEFINE q == Min({p, 100})
           t == [s EXCEPT !.progress = q, !.progressOf = of]
<1>1. q \in 0..100
  <2>1. p \in Int /\ 100 \in Int /\ p >= 0
    BY DEF Percent
  <2>2. q \in {p, 100} /\ q <= 100
    BY <2>1, MinMaxFacts, Zenon
  <2> QED
    BY <2>1, <2>2
<1> HIDE DEF q
<1>2. /\ t \in States(mode) /\ t.step = s.step /\ t.progressOf = of /\ t.progress = q
      /\ t.status = s.status /\ t.statusOf = s.statusOf
      /\ t.is_completed = s.is_completed /\ t.is_failed = s.is_failed
      /\ t.overall = s.overall
  BY <1>1 DEF States
<1>3. set_step_progress(s, p, of) = IF mode = "expand" THEN [t EXCEPT !.overall = t.progress]
                                                   ELSE update_overall_progress(t)
  BY DEF set_step_progress, q
<1> HIDE DEF t
<1>4. CASE mode = "expand"
  BY <1>1, <1>2, <1>3, <1>4 DEF States
<1>5. CASE mode # "expand"
  <2> DEFINE w == weighted_progress(overall_range[mode][t.step + 1], t.progress)
             v == Max({t.overall, w})
  <2>1. w \in 0..100
    BY <1>1, <1>2, <1>5, WeightedFacts
  <2>2. v \in 0..100 /\ v >= t.overall
    <3>1. t.overall \in 0..100
      BY <1>2 DEF States
    <3>2. t.overall \in Int /\ w \in Int
      BY <2>1, <3>1
    <3>3. v \in {t.overall, w} /\ v >= t.overall
      BY <3>2, MinMaxFacts
    <3> QED
      BY <2>1, <3>1, <3>3
  <2>3. t.step # NoStep
    BY <1>2, <1>5 DEF Steps, NoStep
  <2>4. update_overall_progress(t) = [t EXCEPT !.overall = v]
    BY <2>3, <1>2 DEF update_overall_progress, States
  <2> HIDE DEF v
  <2> QED
    BY <1>2, <1>3, <1>5, <2>2, <2>4 DEF States
<1> QED
  BY <1>4, <1>5

LEMMA SetStepFacts ==
  ASSUME mode \in {"install", "backup"}, NEW s \in States(mode), NEW k \in Steps[mode]
  PROVE  LET t == set_step(s, k)
         IN  /\ t \in States(mode) /\ t.step = k /\ t.progressOf = k /\ t.status = FALSE
             /\ t.is_completed = s.is_completed /\ t.is_failed = s.is_failed
             /\ t.overall >= s.overall
<1> DEFINE t == [s EXCEPT !.step = k, !.progress = 0, !.progressOf = k, !.status = FALSE,
                          !.statusOf = NoStep]
           w == weighted_progress(overall_range[mode][k + 1], 0)
           v == Max({t.overall, w})
<1>a. k \in Int /\ k # NoStep /\ NoStep \in Int /\ 0 \in 0..100
  BY DEF Steps, NoStep
<1>1. /\ t \in States(mode) /\ t.step = k /\ t.progressOf = k /\ t.status = FALSE
      /\ t.is_completed = s.is_completed /\ t.is_failed = s.is_failed
      /\ t.overall = s.overall /\ t.progress = 0
  <2>1. t \in States(mode)
    BY <1>a, Zenon DEF States
  <2>2. t.step = k /\ t.progressOf = k
    BY DEF States
  <2>3. t.status = FALSE
    BY DEF States
  <2>4. t.is_completed = s.is_completed /\ t.is_failed = s.is_failed
    BY DEF States
  <2>5. t.overall = s.overall /\ t.progress = 0
    BY DEF States
  <2> QED
    BY <2>1, <2>2, <2>3, <2>4, <2>5
<1>2. set_step(s, k) = update_overall_progress(t)
  BY DEF set_step
<1> HIDE DEF t
<1>3. w \in 0..100
  <2>1. 0 \in 0..100
    OBVIOUS
  <2> QED
    BY <2>1, WeightedFacts, Zenon
<1> HIDE DEF w
<1>4. v \in 0..100 /\ v >= t.overall
  <2>1. t.overall \in 0..100
    BY <1>1 DEF States
  <2>2. t.overall \in Int /\ w \in Int
    BY <1>3, <2>1
  <2>3. v \in {t.overall, w} /\ v >= t.overall
    BY <2>2, MinMaxFacts
  <2> QED
    BY <1>3, <2>1, <2>3
<1>5. t.step # NoStep
  BY <1>a, <1>1
<1>6. update_overall_progress(t) = [t EXCEPT !.overall = v]
  BY <1>5, <1>1 DEF w, update_overall_progress, States
<1> HIDE DEF v
<1> QED
  BY <1>1, <1>2, <1>4, <1>6 DEF States

LEMMA CompletedFacts ==
  ASSUME mode \in {"install", "backup", "expand"}, NEW s \in States(mode),
         NEW warning \in BOOLEAN, StepOf[Last[mode]] \in Steps[mode]
  PROVE  LET t == mark_completed(s, warning)
         IN  /\ t \in States(mode) /\ t.step = StepOf[Last[mode]] /\ t.progressOf = t.step
             /\ t.status = s.status /\ t.statusOf = s.statusOf
             /\ t.is_completed = TRUE /\ t.is_failed = s.is_failed
             /\ t.overall >= s.overall
<1>1. StepOf[Last[mode]] \in Int
  BY DEF Steps, NoStep
<1> DEFINE t == mark_completed(s, warning)
<1>2. t \in States(mode)
  <2>1. 100 \in 0..100 /\ TRUE \in BOOLEAN
    OBVIOUS
  <2> QED
    BY <1>1, <2>1, Zenon DEF mark_completed, States
<1>3. t.step = StepOf[Last[mode]] /\ t.progressOf = t.step /\ t.overall = 100
  BY DEF mark_completed, States
<1>4. t.status = s.status /\ t.statusOf = s.statusOf
  BY DEF mark_completed, States
<1>5. t.is_completed = TRUE /\ t.is_failed = s.is_failed
  BY DEF mark_completed, States
<1>6. s.overall \in 0..100
  BY DEF States
<1> HIDE DEF t
<1>7. t.overall >= s.overall
  BY <1>3, <1>6
<1> QED
  BY <1>2, <1>3, <1>4, <1>5, <1>7 DEF t

LEMMA FailedFacts ==
  ASSUME NEW s \in States(mode)
  PROVE  LET t == mark_failed(s)
         IN  /\ t \in States(mode) /\ t.step = s.step /\ t.progressOf = s.progressOf
             /\ t.status = s.status /\ t.statusOf = s.statusOf
             /\ t.is_completed = s.is_completed /\ t.is_failed = TRUE
             /\ t.overall = s.overall
BY DEF mark_failed, States

(* Flushing what was coalesced keeps the step and shows nothing of another *)
(* one.                                                                    *)
LEMMA FlushFacts ==
  ASSUME TypeInv, PendingInv, ProgressBelongsToStep
  PROVE  LET t == flush_pending_worker_update(state, pending)
         IN  /\ t \in States(mode) /\ t.step = state.step /\ t.progressOf = t.step
             /\ t.status => t.statusOf = t.step
             /\ t.is_completed = state.is_completed /\ t.is_failed = state.is_failed
             /\ mode # "expand" => t.overall >= state.overall
<1> DEFINE s == IF pending.progress # None
                THEN set_step_progress(state, pending.progress, pending.progressOf) ELSE state
<1>1. /\ s \in States(mode) /\ s.step = state.step /\ s.progressOf = s.step
      /\ s.status => s.statusOf = s.step
      /\ s.is_completed = state.is_completed /\ s.is_failed = state.is_failed
      /\ mode # "expand" => s.overall >= state.overall
  <2>1. CASE pending.progress = None
    <3>1. s = state
      BY <2>1
    <3>2. state \in States(mode)
      BY DEF TypeInv
    <3>3. state.overall >= state.overall
      BY <3>2 DEF States
    <3> HIDE DEF s
    <3> QED
      BY <3>1, <3>2, <3>3 DEF ProgressBelongsToStep
  <2>2. CASE pending.progress # None
    <3>1. /\ pending.progress \in Percent /\ pending.progressOf \in Int
          /\ state.step \in Steps[mode] /\ state \in States(mode)
          /\ pending.progressOf = state.step /\ mode \in {"install", "backup", "expand"}
      BY <2>2 DEF TypeInv, Pendings, PendingInv
    <3>2. s = set_step_progress(state, pending.progress, pending.progressOf)
      BY <2>2
    <3> HIDE DEF s
    <3> QED
      BY <3>1, <3>2, StepProgressFacts DEF ProgressBelongsToStep
  <2> QED
    BY <2>1, <2>2
<1>2. flush_pending_worker_update(state, pending) =
        IF pending.status THEN [s EXCEPT !.status = TRUE, !.statusOf = pending.statusOf] ELSE s
  BY DEF flush_pending_worker_update
<1>3. pending.status => pending.statusOf = state.step
  BY DEF PendingInv
<1>4. pending.statusOf \in Int
  BY DEF TypeInv, Pendings
<1> HIDE DEF s
<1>5. CASE pending.status
  BY <1>1, <1>2, <1>3, <1>4, <1>5 DEF States
<1>6. CASE ~pending.status
  BY <1>1, <1>2, <1>6
<1> QED
  BY <1>5, <1>6

LEMMA EmptyFacts ==
  ASSUME NEW S, NEW q \in Seq(S)
  PROVE  q = <<>> <=> Len(q) = 0
OBVIOUS

(* A message sent joins the end of the stream.                             *)
LEMMA SendFacts ==
  ASSUME queue \in Seq(Messages(mode)), NEW m \in Messages(mode), Send(m)
  PROVE  /\ queue' \in Seq(Messages(mode)) /\ queue' # <<>>
         /\ Len(queue') = Len(queue) + 1 /\ queue'[Len(queue')] = m
         /\ \A i \in 1..Len(queue) : queue'[i] = queue[i]
BY DEF Send

LEMMA SendStream ==
  ASSUME TypeInv, StreamInv, NEW m \in Messages(mode), Send(m), UNCHANGED <<mode, state>>,
         sent = "none", m.kind = "sample" => m.step = Ahead,
         m.kind \in {"completed", "warning"} => Ahead = StepOf[Last[mode]],
         m.kind \in Terminals => sent' = m.kind, m.kind = "step" => mode # "expand"
  PROVE  (\A i \in 1..Len(queue) : StreamOk(i))' /\ Ahead' = m.step
<1>1. /\ queue \in Seq(Messages(mode)) /\ queue' # <<>> /\ Len(queue) \in Nat
      /\ Len(queue') = Len(queue) + 1 /\ queue'[Len(queue')] = m
      /\ \A i \in 1..Len(queue) : queue'[i] = queue[i]
  BY SendFacts DEF TypeInv
<1>2. Ahead' = m.step
  BY <1>1 DEF Ahead
<1>3. queue = <<>> <=> Len(queue) = 0
  BY <1>1
<1>4. \A i \in 1..Len(queue) : queue[i].kind \notin Terminals
  BY DEF StreamInv, StreamOk, Terminals
<1>5. ASSUME NEW i \in 1..Len(queue') PROVE StreamOk(i)'
  <2>1. CASE i \in 1..Len(queue)
    <3>1. StreamOk(i) /\ Before(i)' = Before(i) /\ queue'[i] = queue[i]
      BY <1>1, <2>1 DEF StreamInv, Before
    <3> QED
      BY <3>1, <1>4, <2>1 DEF StreamOk, Terminals
  <2>2. CASE i = Len(queue) + 1
    <3>1. Before(i)' = Ahead
      BY <1>1, <1>3, <2>2 DEF Before, Ahead
    <3> QED
      BY <1>1, <2>2, <3>1 DEF StreamOk
  <2> QED
    BY <1>1, <2>1, <2>2
<1> QED
  BY <1>2, <1>5

(* A message received leaves the rest of the stream in step with the state *)
(* that shows it.                                                          *)
LEMMA ReceiveFacts ==
  ASSUME queue \in Seq(Messages(mode)), queue # <<>>, queue' = Tail(queue)
  PROVE  /\ Head(queue) = queue[1] /\ queue[1] \in Messages(mode)
         /\ Len(queue) \in Nat \ {0} /\ queue' \in Seq(Messages(mode))
         /\ Len(queue') = Len(queue) - 1
         /\ \A i \in 1..Len(queue') : queue'[i] = queue[i + 1]
         /\ queue' = <<>> <=> Len(queue) = 1
<1>1. /\ Head(queue) = queue[1] /\ queue[1] \in Messages(mode) /\ Len(queue) \in Nat \ {0}
      /\ queue' \in Seq(Messages(mode)) /\ Len(queue') = Len(queue) - 1
  OBVIOUS
<1>2. \A i \in 1..Len(queue') : queue'[i] = queue[i + 1]
  OBVIOUS
<1>3. queue' = <<>> <=> Len(queue') = 0
  BY <1>1, EmptyFacts, Zenon
<1> QED
  BY <1>1, <1>2, <1>3

LEMMA ReceiveStream ==
  ASSUME TypeInv, StreamInv, queue # <<>>, queue' = Tail(queue), UNCHANGED <<mode, sent>>,
         queue[1].kind \notin Terminals => state'.step = queue[1].step
  PROVE  /\ (\A i \in 1..Len(queue) : StreamOk(i))'
         /\ queue[1].kind \in Terminals => queue' = <<>>
         /\ queue[1].kind \notin Terminals => Ahead' = Ahead
<1>1. /\ Len(queue) \in Nat \ {0} /\ queue \in Seq(Messages(mode))
      /\ Len(queue') = Len(queue) - 1
      /\ \A i \in 1..Len(queue') : queue'[i] = queue[i + 1]
      /\ queue' = <<>> <=> Len(queue) = 1
  BY ReceiveFacts DEF TypeInv
<1>2. queue[1].kind \in Terminals => queue' = <<>> /\ Len(queue') = 0
  <2>1. StreamOk(1)
    BY <1>1 DEF StreamInv
  <2> QED
    BY <1>1, <2>1 DEF StreamOk
<1>3. queue[1].kind \notin Terminals => Ahead' = Ahead
  <2>1. CASE Len(queue) = 1
    BY <1>1, <2>1 DEF Ahead
  <2>2. CASE Len(queue) > 1
    BY <1>1, <2>2 DEF Ahead
  <2> QED
    BY <1>1, <2>1, <2>2
<1>4. ASSUME NEW i \in 1..Len(queue') PROVE StreamOk(i)'
  <2>1. i + 1 \in 1..Len(queue) /\ StreamOk(i + 1) /\ queue'[i] = queue[i + 1]
    BY <1>1 DEF StreamInv
  <2>2. Before(i)' = Before(i + 1)
    <3>1. CASE i = 1
      BY <1>1, <1>2, <3>1 DEF Before
    <3>2. CASE i # 1
      BY <1>1, <3>2 DEF Before
    <3> QED
      BY <3>1, <3>2
  <2>3. i + 1 = Len(queue) <=> i = Len(queue')
    BY <1>1
  <2> QED
    BY <2>1, <2>2, <2>3 DEF StreamOk
<1> QED
  BY <1>2, <1>3, <1>4

(* What a received step or end makes of the state.                         *)
LEMMA TransitionFacts ==
  ASSUME IInv, ReceiveTransition
  PROVE  /\ queue[1] \in Messages(mode) /\ queue[1].kind \in Terminals \cup {"step"}
         /\ state' \in States(mode) /\ ProgressBelongsToStep'
         /\ queue[1].kind = "step" => state'.step = queue[1].step
         /\ state'.is_completed => queue[1].kind \in {"completed", "warning"}
         /\ state'.is_failed => queue[1].kind = "failed"
         /\ queue[1].kind \in Terminals => state'.is_completed \/ state'.is_failed
         /\ mode # "expand" => state'.overall >= state.overall
<1> DEFINE m == queue[1]
           s == flush_pending_worker_update(state, pending)
<1>1. m = Head(queue) /\ m \in Messages(mode) /\ StreamOk(1) /\ m.kind # "sample"
  <2>1. queue \in Seq(Messages(mode)) /\ queue # <<>> /\ queue' = Tail(queue)
    BY DEF IInv, TypeInv, ReceiveTransition
  <2>2. m = Head(queue) /\ m \in Messages(mode) /\ Len(queue) \in Nat \ {0}
    BY <2>1, ReceiveFacts
  <2>3. StreamOk(1)
    BY <2>2 DEF IInv, StreamInv
  <2> QED
    BY <2>2, <2>3 DEF ReceiveTransition
<1>2. /\ m.kind \in {"step", "completed", "warning", "failed"}
      /\ m.kind = "step" => m.step \in Steps[mode]
  BY <1>1 DEF Messages, Terminals
<1>3. /\ s \in States(mode) /\ s.step = state.step /\ s.progressOf = s.step
      /\ s.status => s.statusOf = s.step
      /\ s.is_completed = state.is_completed /\ s.is_failed = state.is_failed
      /\ mode # "expand" => s.overall >= state.overall
  BY FlushFacts DEF IInv
<1>4. ~state.is_completed /\ ~state.is_failed
  BY DEF IInv, SeenInv, ReceiveTransition
<1>5. state' = CASE m.kind = "step" -> set_step(s, m.step)
                 [] m.kind = "completed" -> mark_completed(s, FALSE)
                 [] m.kind = "warning" -> mark_completed(s, TRUE)
                 [] m.kind = "failed" -> mark_failed(s)
  BY <1>1 DEF ReceiveTransition
<1>6. mode \in {"install", "backup", "expand"} /\ state.overall \in Int /\ s.overall \in Int
  <2>1. mode \in {"install", "backup", "expand"} /\ state \in States(mode)
    BY DEF IInv, TypeInv
  <2>2. state.overall \in 0..100 /\ s.overall \in 0..100
    BY <1>3, <2>1 DEF States
  <2> QED
    BY <2>1, <2>2
<1>7. /\ m.kind \in {"completed", "warning"} => state.step = StepOf[Last[mode]]
      /\ m.kind = "step" => mode # "expand"
  BY <1>1 DEF StreamOk, Before
<1>8. StepOf[Last[mode]] \in Steps[mode]
  <2>1. First[mode] \in Script[mode]
    BY <1>6 DEF First, Script
  <2>2. Last[mode] \in Script[mode]
    BY <1>6, <2>1, ScriptFacts
  <2> QED
    BY <1>6, <2>2, ScriptFacts
<1> HIDE DEF m, s
<1>9. /\ state' \in States(mode) /\ ProgressBelongsToStep'
      /\ m.kind = "step" => state'.step = m.step
      /\ state'.is_completed => m.kind \in {"completed", "warning"}
      /\ state'.is_failed => m.kind = "failed"
      /\ m.kind # "step" => state'.is_completed \/ state'.is_failed
      /\ mode # "expand" => state'.overall >= state.overall
  <2>1. CASE m.kind = "step"
    <3>1. state' = set_step(s, m.step) /\ mode \in {"install", "backup"} /\ m.step \in Steps[mode]
      BY <1>2, <1>5, <1>6, <1>7, <2>1
    <3>2. /\ state' \in States(mode) /\ state'.step = m.step /\ state'.progressOf = m.step
          /\ state'.status = FALSE /\ state'.overall >= s.overall
          /\ state'.is_completed = s.is_completed /\ state'.is_failed = s.is_failed
      BY <1>3, <3>1, SetStepFacts
    <3>3. state'.overall \in Int
      BY <3>2 DEF States
    <3> QED
      BY <1>3, <1>4, <1>6, <2>1, <3>2, <3>3 DEF ProgressBelongsToStep
  <2>2. CASE m.kind \in {"completed", "warning"}
    <3>1. PICK warning \in BOOLEAN : state' = mark_completed(s, warning)
      <4>1. CASE m.kind = "completed"
        BY <1>5, <4>1
      <4>2. CASE m.kind = "warning"
        BY <1>5, <4>2
      <4> QED
        BY <2>2, <4>1, <4>2
    <3>2. /\ state' \in States(mode) /\ state'.step = StepOf[Last[mode]]
          /\ state'.progressOf = state'.step
          /\ state'.status = s.status /\ state'.statusOf = s.statusOf
          /\ state'.is_completed = TRUE /\ state'.is_failed = s.is_failed
          /\ state'.overall >= s.overall
      BY <1>3, <1>6, <1>8, <3>1, CompletedFacts
    <3>3. state'.overall \in Int
      BY <3>2 DEF States
    <3> QED
      BY <1>3, <1>4, <1>6, <1>7, <2>2, <3>2, <3>3 DEF ProgressBelongsToStep
  <2>3. CASE m.kind = "failed"
    <3>1. state' = mark_failed(s)
      BY <1>5, <2>3
    <3>2. /\ state' \in States(mode) /\ state'.step = s.step /\ state'.progressOf = s.progressOf
          /\ state'.status = s.status /\ state'.statusOf = s.statusOf
          /\ state'.is_completed = s.is_completed /\ state'.is_failed = TRUE
          /\ state'.overall = s.overall
      BY <1>3, <3>1, FailedFacts
    <3> QED
      BY <1>3, <1>4, <2>3, <3>2 DEF ProgressBelongsToStep
  <2> QED
    BY <1>2, <2>1, <2>2, <2>3
<1> QED
  BY <1>1, <1>2, <1>9 DEF m, Terminals

(* What the end of a poll makes of it.                                     *)
LEMMA DrainFacts ==
  ASSUME IInv, DrainYields \/ DrainEmpty \/ DrainDisconnected
  PROVE  /\ state' \in States(mode) /\ ProgressBelongsToStep' /\ state'.step = state.step
         /\ state'.is_completed = state.is_completed
         /\ state.is_failed => state'.is_failed
         /\ state'.is_failed => state.is_failed \/ (DrainDisconnected /\ ~terminal_message_seen)
         /\ DrainDisconnected /\ ~terminal_message_seen => state'.is_failed
         /\ mode # "expand" => state'.overall >= state.overall
         /\ pending' = NoPending
<1> DEFINE s == flush_pending_worker_update(state, pending)
<1>1. /\ s \in States(mode) /\ s.step = state.step /\ s.progressOf = s.step
      /\ s.status => s.statusOf = s.step
      /\ s.is_completed = state.is_completed /\ s.is_failed = state.is_failed
      /\ mode # "expand" => s.overall >= state.overall
  BY FlushFacts DEF IInv
<1>2. pending' = NoPending
  BY DEF DrainYields, DrainEmpty, DrainDisconnected
<1>3. /\ state' \in {s, mark_failed(s)}
      /\ ~(DrainDisconnected /\ ~terminal_message_seen) => state' = s
      /\ DrainDisconnected /\ ~terminal_message_seen => state' = mark_failed(s)
  <2>1. CASE DrainDisconnected
    BY <2>1 DEF DrainDisconnected
  <2>2. CASE ~DrainDisconnected
    BY <2>2 DEF DrainYields, DrainEmpty
  <2> QED
    BY <2>1, <2>2
<1> HIDE DEF s
<1>4. CASE state' = s
  <2>1. ~(DrainDisconnected /\ ~terminal_message_seen) \/ state' = mark_failed(s)
    BY <1>3
  <2>2. mark_failed(s).is_failed = TRUE
    BY <1>1, FailedFacts
  <2> QED
    BY <1>1, <1>2, <1>3, <1>4, <2>1, <2>2 DEF ProgressBelongsToStep
<1>5. CASE state' # s
  <2>1. state' = mark_failed(s) /\ DrainDisconnected /\ ~terminal_message_seen
    BY <1>3, <1>5
  <2>2. /\ state' \in States(mode) /\ state'.step = s.step /\ state'.progressOf = s.progressOf
        /\ state'.status = s.status /\ state'.statusOf = s.statusOf
        /\ state'.is_completed = s.is_completed /\ state'.is_failed = TRUE
        /\ state'.overall = s.overall
    BY <1>1, <2>1, FailedFacts
  <2> QED
    BY <1>1, <1>2, <2>1, <2>2 DEF ProgressBelongsToStep
<1> QED
  BY <1>4, <1>5

(* Opening and closing message boxes.                                      *)
LEMMA PromptFacts ==
  ASSUME NEW stack \in Seq(Boxes), FailurePrompt(stack)
  PROVE  /\ modals' \in Seq(Boxes)
         /\ \A i \in 1..Len(stack) : i \in 1..Len(modals') /\ modals'[i] = stack[i]
         /\ \/ /\ failure_log_prompt_shown' /\ ~failure_log_prompt_shown
               /\ prompts' = prompts + 1 /\ worker_finished' /\ terminal' = "Failed"
            \/ UNCHANGED <<failure_log_prompt_shown, prompts>>
<1> DEFINE box == [kind |-> "failure", changed |-> FALSE]
<1>1. box \in Boxes
  BY DEF Boxes
<1> HIDE DEF box
<1>2. /\ Append(stack, box) \in Seq(Boxes) /\ Len(stack) \in Nat
      /\ Len(Append(stack, box)) = Len(stack) + 1
      /\ \A i \in 1..Len(stack) : Append(stack, box)[i] = stack[i]
  BY <1>1
<1>3. CASE worker_finished' /\ terminal' = "Failed" /\ ~failure_log_prompt_shown
  <2>1. /\ failure_log_prompt_shown' /\ prompts' = prompts + 1
        /\ modals' = Append(stack, box)
    BY <1>3 DEF FailurePrompt, box
  <2>2. /\ modals' \in Seq(Boxes)
        /\ \A i \in 1..Len(stack) : i \in 1..Len(modals') /\ modals'[i] = stack[i]
    BY <1>2, <2>1
  <2> QED
    BY <1>3, <2>1, <2>2, Zenon
<1>4. CASE ~(worker_finished' /\ terminal' = "Failed" /\ ~failure_log_prompt_shown)
  <2>1. modals' = stack /\ UNCHANGED <<failure_log_prompt_shown, prompts>>
    BY <1>4 DEF FailurePrompt
  <2> QED
    BY <1>2, <2>1
<1> QED
  BY <1>3, <1>4

LEMMA DismissFacts ==
  ASSUME NEW Box, NEW stack \in Seq(Box), stack # <<>>,
         NEW rest, rest = SubSeq(stack, 1, Len(stack) - 1)
  PROVE  /\ Len(stack) \in Nat \ {0} /\ Len(rest) = Len(stack) - 1
         /\ rest \in Seq(Box)
         /\ \A i \in 1..Len(rest) : rest[i] = stack[i]
<1>1. Len(stack) \in Nat \ {0}
  BY EmptyFacts
<1>2. rest = [i \in 1..(Len(stack) - 1) |-> stack[i]]
  BY <1>1
<1>4. \A i \in 1..(Len(stack) - 1) : rest[i] = stack[i] /\ stack[i] \in Box
  BY <1>1, <1>2
<1>5. rest \in Seq(Box)
  BY <1>1, <1>2, <1>4
<1>6. Len(rest) = Len(stack) - 1
  <2> DEFINE n == Len(stack) - 1
  <2>1. n \in Nat /\ DOMAIN rest = 1..n
    BY <1>1, <1>2
  <2>2. Len(rest) \in Nat /\ DOMAIN rest = 1..Len(rest)
    BY <1>5
  <2> HIDE DEF n
  <2>3. Len(rest) = n
    BY <2>1, <2>2
  <2> QED
    BY <2>3 DEF n
<1> QED
  BY <1>1, <1>4, <1>5, <1>6

LEMMA AnnounceFacts ==
  ASSUME mode \in {"install", "backup", "expand"}, NEW s \in Script[mode]
  PROVE  /\ Announce(s) \in Messages(mode) /\ Announce(s).step = StepOf[s]
         /\ Announce(s).kind = IF mode = "expand" THEN "sample" ELSE "step"
<1>1. StepOf[s] \in Steps[mode] /\ (mode = "expand" => ReportedAt[s] \in Percent)
  BY ScriptFacts
<1>2. CASE mode = "expand"
  BY <1>1, <1>2 DEF Announce, Message, Messages, Steps
<1>3. CASE mode # "expand"
  BY <1>1, <1>3 DEF Announce, Message, Messages
<1> QED
  BY <1>2, <1>3

(* The messages of the two senders other than announcements.               *)
LEMMA MessageFacts ==
  ASSUME mode \in {"install", "backup", "expand"}, NEW k \in Steps[mode],
         NEW p \in Percents \cup {None}, NEW text \in BOOLEAN, NEW end \in Terminals
  PROVE  /\ Message("sample", k, p, text) \in Messages(mode)
         /\ Message("sample", k, p, text).step = k
         /\ Message("sample", k, p, text).kind = "sample"
         /\ Message(end, NoStep, None, FALSE) \in Messages(mode)
         /\ Message(end, NoStep, None, FALSE).step = NoStep
         /\ Message(end, NoStep, None, FALSE).kind = end
BY SessionAssumption DEF Message, Messages, Percent

(* An expansion has no steps: its messages and its state show none.        *)
LEMMA ExpandAhead ==
  ASSUME TypeInv, mode = "expand"
  PROVE  Ahead = NoStep /\ StepOf[stage] = NoStep
<1>1. StepOf[stage] = NoStep
  BY ScriptFacts DEF TypeInv, Steps
<1>2. state.step = NoStep
  BY DEF TypeInv, States, Steps
<1>3. ASSUME queue # <<>> PROVE queue[Len(queue)].step = NoStep
  <2>1. queue[Len(queue)] \in Messages(mode)
    BY <1>3 DEF TypeInv
  <2> QED
    BY <2>1 DEF Messages, Steps
<1> QED
  BY <1>1, <1>2, <1>3 DEF Ahead

LEMMA InitIInv == Init => IInv
<1> SUFFICES ASSUME Init PROVE IInv
  OBVIOUS
<1>1. TypeInv
  <2>1. mode \in {"install", "backup", "expand"} /\ stage \in Script[mode]
    BY SessionAssumption DEF Init, First, Script
  <2>2. state \in States(mode) /\ pending \in Pendings
    BY DEF Init, Pendings, States, NoPending, NoStep, None
  <2> QED
    BY <2>1, <2>2 DEF Init, TypeInv
<1>2. WorkerInv /\ StreamInv
  BY DEF Init, WorkerInv, StreamInv
<1>3. PendingInv /\ ProgressBelongsToStep
  BY DEF Init, PendingInv, NoPending, ProgressBelongsToStep
<1>4. SeenInv /\ WindowInv
  BY DEF Init, SeenInv, WindowInv
<1>5. ButtonInv /\ MenuInv
  BY DEF Init, ButtonInv, MenuInv, can_close
<1> QED
  BY <1>1, <1>2, <1>3, <1>4, <1>5 DEF IInv

LEMMA NextIInv == IInv /\ [Next]_vars => IInv'
<1> SUFFICES ASSUME IInv, [Next]_vars PROVE IInv'
  OBVIOUS
<1>0. /\ TypeInv /\ WorkerInv /\ StreamInv /\ PendingInv /\ ProgressBelongsToStep
      /\ SeenInv /\ WindowInv /\ ButtonInv /\ MenuInv
  BY DEF IInv
<1>1. CASE Begin
  <2>f. UNCHANGED <<mode, ui, state, pending, terminal_message_seen, window>>
    BY <1>1 DEF Begin, worker, session
  <2>m. /\ Send(Announce(stage)) /\ Announce(stage) \in Messages(mode)
        /\ Announce(stage).step = StepOf[stage] /\ sent = "none" /\ Senders
        /\ Announce(stage).kind = "sample" => Announce(stage).step = Ahead
        /\ Announce(stage).kind \notin Terminals \cup {"completed", "warning"}
        /\ Announce(stage).kind = "step" => mode # "expand"
    BY <1>1, <1>0, AnnounceFacts, ExpandAhead DEF Begin, TypeInv, WorkerInv, Senders, Terminals
  <2>s. (\A i \in 1..Len(queue) : StreamOk(i))' /\ Ahead' = Announce(stage).step
    BY <1>0, <2>f, <2>m, SendStream
  <2>q. /\ queue' \in Seq(Messages(mode)) /\ queue' # <<>> /\ queue'[Len(queue')] = Announce(stage)
    BY <1>0, <2>m, SendFacts DEF TypeInv
  <2>o. ~state.is_completed /\ ~state.is_failed
    BY <1>0, <2>m DEF SeenInv
  <2>1. TypeInv'
    BY <1>1, <1>0, <2>f, <2>m, <2>q DEF Begin, window, TypeInv, Terminals
  <2>2. WorkerInv'
    BY <1>1, <1>0, <2>f DEF Begin, WorkerInv
  <2>3. StreamInv'
    BY <1>1, <1>0, <2>f, <2>m, <2>s DEF Begin, WorkerInv, StreamInv
  <2>4. PendingInv'
    BY <1>0, <2>f DEF PendingInv
  <2>5. ProgressBelongsToStep'
    BY <1>0, <2>f DEF ProgressBelongsToStep
  <2>6. SeenInv'
    BY <1>1, <1>0, <2>f, <2>m, <2>o, <2>q DEF Begin, WorkerInv, SeenInv, Senders
  <2>7. WindowInv'
    BY <1>1, <1>0, <2>f DEF Begin, window, can_close, WindowInv
  <2>8. ButtonInv'
    BY <1>0, <2>f DEF window, can_close, ButtonInv
  <2>9. MenuInv'
    BY <1>0, <2>f DEF window, can_close, MenuInv
  <2> QED
    BY <2>1, <2>2, <2>3, <2>4, <2>5, <2>6, <2>7, <2>8, <2>9 DEF IInv
<1>2. CASE SpawnRelay
  <2>f. UNCHANGED <<mode, ui, state, pending, terminal_message_seen, window>>
    BY <1>2 DEF SpawnRelay, worker, session
  <2>1. TypeInv'
    BY <1>2, <1>0, <2>f DEF SpawnRelay, window, TypeInv
  <2>2. WorkerInv'
    BY <1>2, <1>0, <2>f DEF SpawnRelay, WorkerInv
  <2>3. StreamInv'
    BY <1>2, <1>0, <2>f DEF SpawnRelay, WorkerInv, StreamInv, StreamOk, Before, Ahead
  <2>4. PendingInv'
    BY <1>0, <2>f DEF PendingInv
  <2>5. ProgressBelongsToStep'
    BY <1>0, <2>f DEF ProgressBelongsToStep
  <2>6. SeenInv'
    BY <1>2, <1>0, <2>f DEF SpawnRelay, WorkerInv, SeenInv, Senders
  <2>7. WindowInv'
    BY <1>2, <1>0, <2>f DEF SpawnRelay, window, can_close, WindowInv
  <2>8. ButtonInv'
    BY <1>0, <2>f DEF window, can_close, ButtonInv
  <2>9. MenuInv'
    BY <1>0, <2>f DEF window, can_close, MenuInv
  <2> QED
    BY <2>1, <2>2, <2>3, <2>4, <2>5, <2>6, <2>7, <2>8, <2>9 DEF IInv
<1>3. CASE CallEngine
  <2>f. UNCHANGED <<mode, ui, state, pending, terminal_message_seen, window>>
    BY <1>3 DEF CallEngine, worker, session
  <2>1. TypeInv'
    BY <1>3, <1>0, <2>f DEF CallEngine, window, TypeInv
  <2>2. WorkerInv'
    BY <1>3, <1>0, <2>f DEF CallEngine, WorkerInv
  <2>3. StreamInv'
    BY <1>3, <1>0, <2>f DEF CallEngine, WorkerInv, StreamInv, StreamOk, Before, Ahead
  <2>4. PendingInv'
    BY <1>0, <2>f DEF PendingInv
  <2>5. ProgressBelongsToStep'
    BY <1>0, <2>f DEF ProgressBelongsToStep
  <2>6. SeenInv'
    BY <1>3, <1>0, <2>f DEF CallEngine, WorkerInv, SeenInv, Senders
  <2>7. WindowInv'
    BY <1>3, <1>0, <2>f DEF CallEngine, window, can_close, WindowInv
  <2>8. ButtonInv'
    BY <1>0, <2>f DEF window, can_close, ButtonInv
  <2>9. MenuInv'
    BY <1>0, <2>f DEF window, can_close, MenuInv
  <2> QED
    BY <2>1, <2>2, <2>3, <2>4, <2>5, <2>6, <2>7, <2>8, <2>9 DEF IInv
<1>4. CASE Join /\ failing
  <2>f. UNCHANGED <<mode, ui, state, pending, terminal_message_seen, window>>
    BY <1>4 DEF Join, worker, session
  <2> DEFINE m == Message("failed", NoStep, None, FALSE)
  <2>a. /\ StepOf[stage] \in Steps[mode] /\ None \in Percents \cup {None}
        /\ FALSE \in BOOLEAN /\ "failed" \in Terminals
    BY <1>0, ScriptFacts DEF TypeInv, Terminals
  <2>b. m \in Messages(mode) /\ m.step = NoStep /\ m.kind = "failed"
    BY <1>0, <2>a, MessageFacts DEF TypeInv
  <2>c. Send(m) /\ sent' = "failed" /\ pc' = "tail" /\ pc \notin {"tail", "dropped", "exited"}
    BY <1>4 DEF Join
  <2> HIDE DEF m
  <2>m. /\ Send(m) /\ m \in Messages(mode) /\ m.kind \in Terminals
        /\ sent = "none" /\ Senders /\ sent' = m.kind
        /\ m.kind # "sample" /\ m.kind # "step"
        /\ m.kind \in {"completed", "warning"} => Ahead = StepOf[Last[mode]]
    BY <1>0, <2>a, <2>b, <2>c DEF WorkerInv, StreamInv, Senders, Terminals
  <2>e. engine = <<>> /\ UNCHANGED <<stage, engine, relay>>
    BY <1>4, <1>0 DEF Join, WorkerInv
  <2>s. (\A i \in 1..Len(queue) : StreamOk(i))' /\ Ahead' = m.step
    BY <1>0, <2>f, <2>m, SendStream
  <2>q. /\ queue' \in Seq(Messages(mode)) /\ queue' # <<>> /\ queue'[Len(queue')] = m
    BY <1>0, <2>m, SendFacts DEF TypeInv
  <2>o. ~state.is_completed /\ ~state.is_failed
    BY <1>0, <2>m DEF SeenInv
  <2>1. TypeInv'
    BY <1>0, <2>a, <2>c, <2>e, <2>f, <2>q DEF window, TypeInv, Terminals
  <2>2. WorkerInv'
    BY <1>0, <2>c, <2>e DEF WorkerInv
  <2>3. StreamInv'
    BY <2>c, <2>e, <2>s DEF StreamInv
  <2>4. PendingInv'
    BY <1>0, <2>f DEF PendingInv
  <2>5. ProgressBelongsToStep'
    BY <1>0, <2>f DEF ProgressBelongsToStep
  <2>6. SeenInv'
    BY <1>0, <2>f, <2>c, <2>m, <2>o, <2>q DEF SeenInv
  <2>7. WindowInv'
    BY <1>4, <1>0, <2>f DEF Join, window, can_close, WindowInv
  <2>8. ButtonInv'
    BY <1>0, <2>f DEF window, can_close, ButtonInv
  <2>9. MenuInv'
    BY <1>0, <2>f DEF window, can_close, MenuInv
  <2> QED
    BY <2>1, <2>2, <2>3, <2>4, <2>5, <2>6, <2>7, <2>8, <2>9 DEF IInv
<1>5. CASE Join /\ ~failing
  <2>f. UNCHANGED <<mode, ui, state, pending, terminal_message_seen, window>>
    BY <1>5 DEF Join, worker, session
  <2>1. TypeInv'
    BY <1>5, <1>0, <2>f DEF Join, window, TypeInv
  <2>2. WorkerInv'
    BY <1>5, <1>0, <2>f DEF Join, WorkerInv
  <2>3. StreamInv'
    BY <1>5, <1>0, <2>f DEF Join, WorkerInv, StreamInv, StreamOk, Before, Ahead
  <2>4. PendingInv'
    BY <1>0, <2>f DEF PendingInv
  <2>5. ProgressBelongsToStep'
    BY <1>0, <2>f DEF ProgressBelongsToStep
  <2>6. SeenInv'
    BY <1>5, <1>0, <2>f DEF Join, WorkerInv, SeenInv, Senders
  <2>7. WindowInv'
    BY <1>5, <1>0, <2>f DEF Join, window, can_close, WindowInv
  <2>8. ButtonInv'
    BY <1>0, <2>f DEF window, can_close, ButtonInv
  <2>9. MenuInv'
    BY <1>0, <2>f DEF window, can_close, MenuInv
  <2> QED
    BY <2>1, <2>2, <2>3, <2>4, <2>5, <2>6, <2>7, <2>8, <2>9 DEF IInv
<1>6. CASE Fail
  <2>f. UNCHANGED <<mode, ui, state, pending, terminal_message_seen, window>>
    BY <1>6 DEF Fail, worker, session
  <2> DEFINE m == Message("failed", NoStep, None, FALSE)
  <2>a. /\ StepOf[stage] \in Steps[mode] /\ None \in Percents \cup {None}
        /\ FALSE \in BOOLEAN /\ "failed" \in Terminals
    BY <1>0, ScriptFacts DEF TypeInv, Terminals
  <2>b. m \in Messages(mode) /\ m.step = NoStep /\ m.kind = "failed"
    BY <1>0, <2>a, MessageFacts DEF TypeInv
  <2>c. Send(m) /\ sent' = "failed" /\ pc' = "tail" /\ pc \notin {"tail", "dropped", "exited"}
    BY <1>6 DEF Fail
  <2> HIDE DEF m
  <2>m. /\ Send(m) /\ m \in Messages(mode) /\ m.kind \in Terminals
        /\ sent = "none" /\ Senders /\ sent' = m.kind
        /\ m.kind # "sample" /\ m.kind # "step"
        /\ m.kind \in {"completed", "warning"} => Ahead = StepOf[Last[mode]]
    BY <1>0, <2>a, <2>b, <2>c DEF WorkerInv, StreamInv, Senders, Terminals
  <2>e. engine = <<>> /\ UNCHANGED <<stage, engine, relay>>
    BY <1>6, <1>0 DEF Fail, WorkerInv
  <2>s. (\A i \in 1..Len(queue) : StreamOk(i))' /\ Ahead' = m.step
    BY <1>0, <2>f, <2>m, SendStream
  <2>q. /\ queue' \in Seq(Messages(mode)) /\ queue' # <<>> /\ queue'[Len(queue')] = m
    BY <1>0, <2>m, SendFacts DEF TypeInv
  <2>o. ~state.is_completed /\ ~state.is_failed
    BY <1>0, <2>m DEF SeenInv
  <2>1. TypeInv'
    BY <1>0, <2>a, <2>c, <2>e, <2>f, <2>q DEF window, TypeInv, Terminals
  <2>2. WorkerInv'
    BY <1>0, <2>c, <2>e DEF WorkerInv
  <2>3. StreamInv'
    BY <2>c, <2>e, <2>s DEF StreamInv
  <2>4. PendingInv'
    BY <1>0, <2>f DEF PendingInv
  <2>5. ProgressBelongsToStep'
    BY <1>0, <2>f DEF ProgressBelongsToStep
  <2>6. SeenInv'
    BY <1>0, <2>f, <2>c, <2>m, <2>o, <2>q DEF SeenInv
  <2>7. WindowInv'
    BY <1>6, <1>0, <2>f DEF Fail, window, can_close, WindowInv
  <2>8. ButtonInv'
    BY <1>0, <2>f DEF window, can_close, ButtonInv
  <2>9. MenuInv'
    BY <1>0, <2>f DEF window, can_close, MenuInv
  <2> QED
    BY <2>1, <2>2, <2>3, <2>4, <2>5, <2>6, <2>7, <2>8, <2>9 DEF IInv
<1>7. CASE DropSenders
  <2>f. UNCHANGED <<mode, ui, state, pending, terminal_message_seen, window>>
    BY <1>7 DEF DropSenders, worker, session
  <2>1. TypeInv'
    BY <1>7, <1>0, <2>f DEF DropSenders, window, TypeInv
  <2>2. WorkerInv'
    BY <1>7, <1>0, <2>f DEF DropSenders, WorkerInv
  <2>3. StreamInv'
    BY <1>7, <1>0, <2>f DEF DropSenders, WorkerInv, StreamInv, StreamOk, Before, Ahead
  <2>4. PendingInv'
    BY <1>0, <2>f DEF PendingInv
  <2>5. ProgressBelongsToStep'
    BY <1>0, <2>f DEF ProgressBelongsToStep
  <2>6. SeenInv'
    BY <1>7, <1>0, <2>f DEF DropSenders, WorkerInv, SeenInv, Senders
  <2>7. WindowInv'
    BY <1>7, <1>0, <2>f DEF DropSenders, window, can_close, WindowInv
  <2>8. ButtonInv'
    BY <1>0, <2>f DEF window, can_close, ButtonInv
  <2>9. MenuInv'
    BY <1>0, <2>f DEF window, can_close, MenuInv
  <2> QED
    BY <2>1, <2>2, <2>3, <2>4, <2>5, <2>6, <2>7, <2>8, <2>9 DEF IInv
<1>8. CASE Panic
  <2>f. UNCHANGED <<mode, ui, state, pending, terminal_message_seen, window>>
    BY <1>8 DEF Panic, worker, session
  <2>1. TypeInv'
    BY <1>8, <1>0, <2>f DEF Panic, window, TypeInv
  <2>2. WorkerInv'
    BY <1>8, <1>0, <2>f DEF Panic, WorkerInv
  <2>3. StreamInv'
    BY <1>8, <1>0, <2>f DEF Panic, WorkerInv, StreamInv, StreamOk, Before, Ahead
  <2>4. PendingInv'
    BY <1>0, <2>f DEF PendingInv
  <2>5. ProgressBelongsToStep'
    BY <1>0, <2>f DEF ProgressBelongsToStep
  <2>6. SeenInv'
    BY <1>8, <1>0, <2>f DEF Panic, WorkerInv, SeenInv, Senders
  <2>7. WindowInv'
    BY <1>8, <1>0, <2>f DEF Panic, window, can_close, WindowInv
  <2>8. ButtonInv'
    BY <1>0, <2>f DEF window, can_close, ButtonInv
  <2>9. MenuInv'
    BY <1>0, <2>f DEF window, can_close, MenuInv
  <2> QED
    BY <2>1, <2>2, <2>3, <2>4, <2>5, <2>6, <2>7, <2>8, <2>9 DEF IInv
<1>9. CASE Exit
  <2>f. UNCHANGED <<mode, ui, state, pending, terminal_message_seen, window>>
    BY <1>9 DEF Exit, worker, session
  <2>1. TypeInv'
    BY <1>9, <1>0, <2>f DEF Exit, window, TypeInv
  <2>2. WorkerInv'
    BY <1>9, <1>0, <2>f DEF Exit, WorkerInv
  <2>3. StreamInv'
    BY <1>9, <1>0, <2>f DEF Exit, WorkerInv, StreamInv, StreamOk, Before, Ahead
  <2>4. PendingInv'
    BY <1>0, <2>f DEF PendingInv
  <2>5. ProgressBelongsToStep'
    BY <1>0, <2>f DEF ProgressBelongsToStep
  <2>6. SeenInv'
    BY <1>9, <1>0, <2>f DEF Exit, WorkerInv, SeenInv, Senders
  <2>7. WindowInv'
    BY <1>9, <1>0, <2>f DEF Exit, window, can_close, WindowInv
  <2>8. ButtonInv'
    BY <1>0, <2>f DEF window, can_close, ButtonInv
  <2>9. MenuInv'
    BY <1>0, <2>f DEF window, can_close, MenuInv
  <2> QED
    BY <2>1, <2>2, <2>3, <2>4, <2>5, <2>6, <2>7, <2>8, <2>9 DEF IInv
<1>10. ASSUME NEW s \in Stages, Advance(s) PROVE IInv'
  <2>f. UNCHANGED <<mode, ui, state, pending, terminal_message_seen, window>>
    BY <1>10 DEF Advance, worker, session
  <2>a. s \in Script[mode] /\ StepOf[s] \in Steps[mode]
    BY <1>10, <1>0, ScriptFacts DEF Advance, TypeInv
  <2>m. /\ Send(Announce(s)) /\ Announce(s) \in Messages(mode)
        /\ Announce(s).step = StepOf[s] /\ sent = "none" /\ Senders
        /\ Announce(s).kind = "sample" => Announce(s).step = Ahead
        /\ Announce(s).kind \notin Terminals \cup {"completed", "warning"}
        /\ Announce(s).kind = "step" => mode # "expand"
    BY <1>10, <1>0, <2>a, AnnounceFacts, ExpandAhead
    DEF Advance, TypeInv, WorkerInv, Senders, Terminals, Steps
  <2>s. (\A i \in 1..Len(queue) : StreamOk(i))' /\ Ahead' = Announce(s).step
    BY <1>0, <2>f, <2>m, SendStream
  <2>q. /\ queue' \in Seq(Messages(mode)) /\ queue' # <<>> /\ queue'[Len(queue')] = Announce(s)
    BY <1>0, <2>m, SendFacts DEF TypeInv
  <2>o. ~state.is_completed /\ ~state.is_failed
    BY <1>0, <2>m DEF SeenInv
  <2>1. TypeInv'
    BY <1>10, <1>0, <2>a, <2>f, <2>q DEF Advance, window, TypeInv
  <2>2. WorkerInv'
    BY <1>10, <1>0, <2>f DEF Advance, WorkerInv
  <2>3. StreamInv'
    BY <1>10, <1>0, <2>f, <2>m, <2>s DEF Advance, WorkerInv, StreamInv
  <2>4. PendingInv'
    BY <1>0, <2>f DEF PendingInv
  <2>5. ProgressBelongsToStep'
    BY <1>0, <2>f DEF ProgressBelongsToStep
  <2>6. SeenInv'
    BY <1>10, <1>0, <2>f, <2>m, <2>o, <2>q DEF Advance, WorkerInv, SeenInv, Senders
  <2>7. WindowInv'
    BY <1>10, <1>0, <2>f DEF Advance, window, can_close, WindowInv
  <2>8. ButtonInv'
    BY <1>0, <2>f DEF window, can_close, ButtonInv
  <2>9. MenuInv'
    BY <1>0, <2>f DEF window, can_close, MenuInv
  <2> QED
    BY <2>1, <2>2, <2>3, <2>4, <2>5, <2>6, <2>7, <2>8, <2>9 DEF IInv
<1>11. ASSUME NEW p \in Percents \cup {None}, NEW text \in BOOLEAN, Report(p, text) PROVE IInv'
  <2>f. UNCHANGED <<mode, ui, state, pending, terminal_message_seen, window>>
    BY <1>11 DEF Report, worker, session
  <2> DEFINE m == Message("sample", StepOf[stage], p, text)
  <2>a. StepOf[stage] \in Steps[mode] /\ "failed" \in Terminals
    BY <1>0, ScriptFacts DEF TypeInv, Terminals
  <2>b. m \in Messages(mode) /\ m.step = StepOf[stage] /\ m.kind = "sample"
    BY <2>a, SessionAssumption DEF Message, Messages, Percent
  <2>c. Send(m) /\ pc \in {"working", "engine"}
    BY <1>11 DEF Report
  <2> HIDE DEF m
  <2>m. /\ Send(m) /\ m \in Messages(mode)
        /\ m.step = StepOf[stage] /\ sent = "none" /\ Senders
        /\ m.kind = "sample" => m.step = Ahead
        /\ m.kind \notin Terminals \cup {"completed", "warning"} /\ m.kind # "step"
    BY <1>0, <2>b, <2>c DEF WorkerInv, StreamInv, Senders, Terminals
  <2>s. (\A i \in 1..Len(queue) : StreamOk(i))' /\ Ahead' = m.step
    BY <1>0, <2>f, <2>m, SendStream
  <2>q. /\ queue' \in Seq(Messages(mode)) /\ queue' # <<>> /\ queue'[Len(queue')] = m
    BY <1>0, <2>m, SendFacts DEF TypeInv
  <2>o. ~state.is_completed /\ ~state.is_failed
    BY <1>0, <2>m DEF SeenInv
  <2>1. TypeInv'
    BY <1>11, <1>0, <2>f, <2>m, <2>q DEF Report, window, TypeInv, Terminals
  <2>2. WorkerInv'
    BY <1>11, <1>0, <2>f DEF Report, WorkerInv
  <2>3. StreamInv'
    BY <1>11, <1>0, <2>f, <2>m, <2>s DEF Report, WorkerInv, StreamInv
  <2>4. PendingInv'
    BY <1>0, <2>f DEF PendingInv
  <2>5. ProgressBelongsToStep'
    BY <1>0, <2>f DEF ProgressBelongsToStep
  <2>6. SeenInv'
    BY <1>11, <1>0, <2>f, <2>m, <2>o, <2>q DEF Report, WorkerInv, SeenInv, Senders
  <2>7. WindowInv'
    BY <1>11, <1>0, <2>f DEF Report, window, can_close, WindowInv
  <2>8. ButtonInv'
    BY <1>0, <2>f DEF window, can_close, ButtonInv
  <2>9. MenuInv'
    BY <1>0, <2>f DEF window, can_close, MenuInv
  <2> QED
    BY <2>1, <2>2, <2>3, <2>4, <2>5, <2>6, <2>7, <2>8, <2>9 DEF IInv
<1>12. ASSUME NEW p \in Percents, EngineReports(p) PROVE IInv'
  <2>f. UNCHANGED <<mode, ui, state, pending, terminal_message_seen, window>>
    BY <1>12 DEF EngineReports, worker, session
  <2> DEFINE m == Message("sample", StepOf[stage], p, stage \notin {"ApplyImage", "CaptureImage"})
  <2>a. StepOf[stage] \in Steps[mode] /\ "failed" \in Terminals
    BY <1>0, ScriptFacts DEF TypeInv, Terminals
  <2>b. m \in Messages(mode) /\ m.step = StepOf[stage] /\ m.kind = "sample"
    BY <2>a, SessionAssumption DEF Message, Messages, Percent
  <2>c. /\ engine' = Append(engine, m) /\ pc = "engine" /\ engine \in Seq(Messages(mode))
        /\ UNCHANGED <<stage, pc, sent, relay, queue>>
    BY <1>12, <1>0 DEF EngineReports, TypeInv
  <2> HIDE DEF m
  <2>d. /\ engine' \in Seq(Messages(mode)) /\ Len(engine') = Len(engine) + 1
        /\ engine'[Len(engine) + 1] = m /\ Len(engine) \in Nat
        /\ \A i \in 1..Len(engine) : engine'[i] = engine[i]
    BY <2>b, <2>c
  <2>1. TypeInv'
    BY <1>0, <2>c, <2>d, <2>f DEF window, TypeInv
  <2>2. WorkerInv'
    <3>1. \A i \in 1..Len(engine') : engine'[i].kind = "sample" /\ engine'[i].step = StepOf[stage]
      BY <1>0, <2>b, <2>d DEF WorkerInv
    <3> QED
      BY <1>0, <2>c, <3>1 DEF WorkerInv
  <2>3. StreamInv'
    BY <1>12, <1>0, <2>f DEF EngineReports, WorkerInv, StreamInv, StreamOk, Before, Ahead
  <2>4. PendingInv'
    BY <1>0, <2>f DEF PendingInv
  <2>5. ProgressBelongsToStep'
    BY <1>0, <2>f DEF ProgressBelongsToStep
  <2>6. SeenInv'
    BY <1>12, <1>0, <2>f DEF EngineReports, WorkerInv, SeenInv, Senders
  <2>7. WindowInv'
    BY <1>12, <1>0, <2>f DEF EngineReports, window, can_close, WindowInv
  <2>8. ButtonInv'
    BY <1>0, <2>f DEF window, can_close, ButtonInv
  <2>9. MenuInv'
    BY <1>0, <2>f DEF window, can_close, MenuInv
  <2> QED
    BY <2>1, <2>2, <2>3, <2>4, <2>5, <2>6, <2>7, <2>8, <2>9 DEF IInv
<1>13. ASSUME NEW b \in BOOLEAN, EngineReturns(b) PROVE IInv'
  <2>f. UNCHANGED <<mode, ui, state, pending, terminal_message_seen, window>>
    BY <1>13 DEF EngineReturns, worker, session
  <2>1. TypeInv'
    BY <1>13, <1>0, <2>f DEF EngineReturns, window, TypeInv
  <2>2. WorkerInv'
    BY <1>13, <1>0, <2>f DEF EngineReturns, WorkerInv
  <2>3. StreamInv'
    BY <1>13, <1>0, <2>f DEF EngineReturns, WorkerInv, StreamInv, StreamOk, Before, Ahead
  <2>4. PendingInv'
    BY <1>0, <2>f DEF PendingInv
  <2>5. ProgressBelongsToStep'
    BY <1>0, <2>f DEF ProgressBelongsToStep
  <2>6. SeenInv'
    BY <1>13, <1>0, <2>f DEF EngineReturns, WorkerInv, SeenInv, Senders
  <2>7. WindowInv'
    BY <1>13, <1>0, <2>f DEF EngineReturns, window, can_close, WindowInv
  <2>8. ButtonInv'
    BY <1>0, <2>f DEF window, can_close, ButtonInv
  <2>9. MenuInv'
    BY <1>0, <2>f DEF window, can_close, MenuInv
  <2> QED
    BY <2>1, <2>2, <2>3, <2>4, <2>5, <2>6, <2>7, <2>8, <2>9 DEF IInv
<1>14. ASSUME NEW b \in BOOLEAN, Complete(b) PROVE IInv'
  <2>f. UNCHANGED <<mode, ui, state, pending, terminal_message_seen, window>>
    BY <1>14 DEF Complete, worker, session
  <2> DEFINE kind == IF b THEN "warning" ELSE "completed"
  <2> DEFINE m == Message(kind, NoStep, None, FALSE)
  <2>a. /\ StepOf[stage] \in Steps[mode] /\ None \in Percents \cup {None}
        /\ FALSE \in BOOLEAN /\ kind \in Terminals
    BY <1>0, ScriptFacts DEF TypeInv, Terminals
  <2>b. m \in Messages(mode) /\ m.step = NoStep /\ m.kind = kind
    BY <1>0, <2>a, MessageFacts DEF TypeInv
  <2>c. Send(m) /\ sent' = kind /\ pc' = "tail" /\ pc = "working" /\ stage = Last[mode]
    BY <1>14 DEF Complete
  <2> HIDE DEF m
  <2>m. /\ Send(m) /\ m \in Messages(mode) /\ m.kind \in Terminals
        /\ sent = "none" /\ Senders /\ sent' = m.kind
        /\ m.kind # "sample" /\ m.kind # "step"
        /\ m.kind \in {"completed", "warning"} => Ahead = StepOf[Last[mode]]
    BY <1>0, <2>a, <2>b, <2>c DEF WorkerInv, StreamInv, Senders, Terminals
  <2>e. engine = <<>> /\ UNCHANGED <<stage, engine, relay>>
    BY <1>14, <1>0 DEF Complete, WorkerInv
  <2>s. (\A i \in 1..Len(queue) : StreamOk(i))' /\ Ahead' = m.step
    BY <1>0, <2>f, <2>m, SendStream
  <2>q. /\ queue' \in Seq(Messages(mode)) /\ queue' # <<>> /\ queue'[Len(queue')] = m
    BY <1>0, <2>m, SendFacts DEF TypeInv
  <2>o. ~state.is_completed /\ ~state.is_failed
    BY <1>0, <2>m DEF SeenInv
  <2>1. TypeInv'
    BY <1>0, <2>a, <2>c, <2>e, <2>f, <2>q DEF window, TypeInv, Terminals
  <2>2. WorkerInv'
    BY <1>0, <2>c, <2>e DEF WorkerInv
  <2>3. StreamInv'
    BY <2>c, <2>e, <2>s DEF StreamInv
  <2>4. PendingInv'
    BY <1>0, <2>f DEF PendingInv
  <2>5. ProgressBelongsToStep'
    BY <1>0, <2>f DEF ProgressBelongsToStep
  <2>6. SeenInv'
    BY <1>0, <2>f, <2>c, <2>m, <2>o, <2>q DEF SeenInv
  <2>7. WindowInv'
    BY <1>14, <1>0, <2>f DEF Complete, window, can_close, WindowInv
  <2>8. ButtonInv'
    BY <1>0, <2>f DEF window, can_close, ButtonInv
  <2>9. MenuInv'
    BY <1>0, <2>f DEF window, can_close, MenuInv
  <2> QED
    BY <2>1, <2>2, <2>3, <2>4, <2>5, <2>6, <2>7, <2>8, <2>9 DEF IInv
<1>15. CASE RelayForwards
  <2>f. UNCHANGED <<mode, ui, state, pending, terminal_message_seen, window>>
    BY <1>15 DEF RelayForwards, worker, session
  <2>w. UNCHANGED <<stage, pc, sent, relay>>
    BY <1>15 DEF RelayForwards, worker
  <2>a. /\ relay /\ engine # <<>> /\ engine' = Tail(engine) /\ Send(Head(engine))
        /\ engine \in Seq(Messages(mode))
    BY <1>15, <1>0 DEF RelayForwards, TypeInv
  <2>b. /\ Head(engine) = engine[1] /\ engine[1] \in Messages(mode)
        /\ Len(engine) \in Nat \ {0} /\ engine' \in Seq(Messages(mode))
        /\ Len(engine') = Len(engine) - 1
    BY <2>a
  <2>c. \A i \in 1..Len(engine') : engine'[i] = engine[i + 1]
    BY <2>a
  <2>d. engine[1].kind = "sample" /\ engine[1].step = StepOf[stage]
    BY <1>0, <2>b DEF WorkerInv
  <2>m. /\ Send(engine[1]) /\ engine[1] \in Messages(mode)
        /\ engine[1].step = StepOf[stage] /\ sent = "none" /\ Senders
        /\ engine[1].kind = "sample" => engine[1].step = Ahead
        /\ engine[1].kind \notin Terminals \cup {"completed", "warning"}
        /\ engine[1].kind # "step"
    BY <1>0, <2>a, <2>b, <2>d DEF WorkerInv, StreamInv, Senders, Terminals
  <2>s. (\A i \in 1..Len(queue) : StreamOk(i))' /\ Ahead' = engine[1].step
    BY <1>0, <2>f, <2>m, SendStream
  <2>q. /\ queue' \in Seq(Messages(mode)) /\ queue' # <<>> /\ queue'[Len(queue')] = engine[1]
    BY <1>0, <2>m, SendFacts DEF TypeInv
  <2>o. ~state.is_completed /\ ~state.is_failed
    BY <1>0, <2>m DEF SeenInv
  <2>1. TypeInv'
    BY <1>0, <2>b, <2>f, <2>q, <2>w DEF window, TypeInv
  <2>2. WorkerInv'
    <3>1. \A i \in 1..Len(engine') : engine'[i].kind = "sample" /\ engine'[i].step = StepOf[stage]
      BY <1>0, <2>b, <2>c DEF WorkerInv
    <3> QED
      BY <1>0, <2>a, <2>m, <2>w, <3>1 DEF WorkerInv
  <2>3. StreamInv'
    BY <1>0, <2>d, <2>s, <2>w DEF StreamInv
  <2>4. PendingInv'
    BY <1>0, <2>f DEF PendingInv
  <2>5. ProgressBelongsToStep'
    BY <1>0, <2>f DEF ProgressBelongsToStep
  <2>6. SeenInv'
    BY <1>0, <2>f, <2>m, <2>o, <2>q, <2>w DEF SeenInv, Senders
  <2>7. WindowInv'
    BY <1>0, <2>f, <2>w DEF window, can_close, WindowInv
  <2>8. ButtonInv'
    BY <1>0, <2>f DEF window, can_close, ButtonInv
  <2>9. MenuInv'
    BY <1>0, <2>f DEF window, can_close, MenuInv
  <2> QED
    BY <2>1, <2>2, <2>3, <2>4, <2>5, <2>6, <2>7, <2>8, <2>9 DEF IInv
<1>16. CASE RelayEnds
  <2>f. UNCHANGED <<mode, ui, state, pending, terminal_message_seen, window>>
    BY <1>16 DEF RelayEnds, worker, session
  <2>w. /\ relay /\ ~relay' /\ engine = <<>> /\ pc \notin {"relayed", "engine"}
        /\ UNCHANGED <<stage, pc, sent, engine, queue>>
    BY <1>16 DEF RelayEnds, worker, EngineEndOpen
  <2>1. TypeInv'
    BY <1>0, <2>f, <2>w DEF window, TypeInv
  <2>2. WorkerInv'
    BY <1>0, <2>w DEF WorkerInv
  <2>3. StreamInv'
    BY <1>0, <2>f, <2>w DEF StreamInv, StreamOk, Before, Ahead
  <2>4. PendingInv'
    BY <1>0, <2>f DEF PendingInv
  <2>5. ProgressBelongsToStep'
    BY <1>0, <2>f DEF ProgressBelongsToStep
  <2>6. SeenInv'
    BY <1>0, <2>f, <2>w DEF SeenInv, Senders
  <2>7. WindowInv'
    BY <1>0, <2>f, <2>w DEF window, can_close, WindowInv
  <2>8. ButtonInv'
    BY <1>0, <2>f DEF window, can_close, ButtonInv
  <2>9. MenuInv'
    BY <1>0, <2>f DEF window, can_close, MenuInv
  <2> QED
    BY <2>1, <2>2, <2>3, <2>4, <2>5, <2>6, <2>7, <2>8, <2>9 DEF IInv
<1>17. CASE PollStarts
  <2>f. /\ UNCHANGED <<mode, stage, pc, sent, engine, relay, queue>>
        /\ UNCHANGED <<state, pending, terminal_message_seen>>
    BY <1>17 DEF PollStarts, worker, session, vars
  <2>1. TypeInv'
    BY <1>17, <1>0, <2>f DEF PollStarts, window, TypeInv
  <2>2. WorkerInv'
    BY <1>0, <2>f DEF WorkerInv
  <2>3. StreamInv'
    BY <1>0, <2>f DEF StreamInv, StreamOk, Before, Ahead
  <2>4. PendingInv'
    BY <1>0, <2>f DEF PendingInv
  <2>5. ProgressBelongsToStep'
    BY <1>0, <2>f DEF ProgressBelongsToStep
  <2>6. SeenInv'
    BY <1>0, <2>f DEF SeenInv, Senders
  <2>7. WindowInv'
    BY <1>17, <1>0, <2>f DEF PollStarts, window, can_close, WindowInv
  <2>8. ButtonInv'
    BY <1>17, <1>0, <2>f DEF PollStarts, window, can_close, ButtonInv
  <2>9. MenuInv'
    BY <1>17, <1>0, <2>f DEF PollStarts, window, can_close, MenuInv
  <2> QED
    BY <2>1, <2>2, <2>3, <2>4, <2>5, <2>6, <2>7, <2>8, <2>9 DEF IInv
<1>18. CASE ReceiveSample
  <2>f. UNCHANGED <<mode, stage, pc, sent, engine, relay, ui, window>>
    BY <1>18 DEF ReceiveSample, worker
  <2>a. queue # <<>> /\ queue' = Tail(queue) /\ UNCHANGED <<state, terminal_message_seen>>
    BY <1>18 DEF ReceiveSample
  <2> DEFINE m == queue[1]
  <2>b. /\ Head(queue) = m /\ m \in Messages(mode) /\ Len(queue) \in Nat \ {0}
        /\ queue' \in Seq(Messages(mode)) /\ Len(queue') = Len(queue) - 1
        /\ \A i \in 1..Len(queue') : queue'[i] = queue[i + 1]
        /\ queue' = <<>> <=> Len(queue) = 1
    BY <1>0, <2>a, ReceiveFacts DEF TypeInv
  <2>c. /\ m.kind = "sample" /\ m.kind \notin Terminals
        /\ m.step = state.step /\ m.step \in Steps[mode]
    <3>1. m.kind = "sample" /\ StreamOk(1)
      BY <1>18, <1>0, <2>b DEF ReceiveSample, StreamInv
    <3> QED
      BY <2>b, <3>1 DEF StreamOk, Before, Messages, Terminals
  <2> HIDE DEF m
  <2>s. (\A i \in 1..Len(queue) : StreamOk(i))' /\ Ahead' = Ahead
    BY <1>0, <2>a, <2>c, <2>f, ReceiveStream DEF m
  <2>d. /\ m.progress \in Percent \cup {None} /\ m.step \in Int
        /\ pending'.progress # None =>
             \/ pending'.progressOf = m.step
             \/ pending.progress # None /\ pending'.progressOf = pending.progressOf
        /\ pending'.status => \/ pending'.statusOf = m.step
                              \/ pending.status /\ pending'.statusOf = pending.statusOf
        /\ pending' \in Pendings
    <3>1. m.progress \in Percent \cup {None} /\ m.status \in BOOLEAN
      BY <2>b DEF Messages
    <3>2. m.step \in Int
      <4>1. mode \in {"install", "backup", "expand"}
        BY <1>0 DEF TypeInv
      <4> QED
        BY <2>c, <4>1 DEF Steps, NoStep
    <3> DEFINE p == IF m.progress # None
                    THEN [pending EXCEPT !.progress = m.progress, !.progressOf = m.step]
                    ELSE pending
    <3>3. /\ p \in Pendings
          /\ p.status = pending.status /\ p.statusOf = pending.statusOf
          /\ p.progress # None => \/ p.progressOf = m.step
                                  \/ pending.progress # None /\ p.progressOf = pending.progressOf
      BY <1>0, <3>1, <3>2 DEF TypeInv, Pendings
    <3>4. pending' = IF m.status THEN [p EXCEPT !.status = TRUE, !.statusOf = m.step] ELSE p
      BY <1>18, <2>b DEF ReceiveSample
    <3> HIDE DEF p
    <3>5. CASE m.status
      BY <3>1, <3>2, <3>3, <3>4, <3>5 DEF Pendings
    <3>6. CASE ~m.status
      BY <3>1, <3>2, <3>3, <3>4, <3>6
    <3> QED
      BY <3>5, <3>6
  <2>1. TypeInv'
    BY <1>0, <2>a, <2>b, <2>d, <2>f DEF window, TypeInv
  <2>2. WorkerInv'
    BY <1>0, <2>f DEF WorkerInv
  <2>3. StreamInv'
    BY <1>0, <2>f, <2>s DEF StreamInv
  <2>4. PendingInv'
    BY <1>0, <2>a, <2>c, <2>d, <2>f DEF PendingInv
  <2>5. ProgressBelongsToStep'
    BY <1>0, <2>a DEF ProgressBelongsToStep
  <2>6. SeenInv'
    <3>1. ~state.is_completed /\ ~state.is_failed /\ ~terminal_message_seen
      BY <1>0, <2>a DEF SeenInv
    <3>2. ASSUME sent # "none" PROVE queue' # <<>> /\ queue'[Len(queue')] = queue[Len(queue)]
      <4>1. queue[Len(queue)].kind = sent /\ sent \in Terminals
        BY <1>0, <3>1, <3>2 DEF SeenInv, TypeInv
      <4>2. Len(queue) # 1
        BY <2>c, <4>1 DEF m
      <4> QED
        BY <2>b, <4>2
    <3> QED
      BY <1>0, <2>a, <2>f, <3>1, <3>2 DEF SeenInv
  <2>7. WindowInv'
    BY <1>0, <2>a, <2>f DEF window, can_close, WindowInv
  <2>8. ButtonInv'
    BY <1>0, <2>f DEF window, can_close, ButtonInv
  <2>9. MenuInv'
    BY <1>0, <2>f DEF window, can_close, MenuInv
  <2> QED
    BY <2>1, <2>2, <2>3, <2>4, <2>5, <2>6, <2>7, <2>8, <2>9 DEF IInv
<1>19. CASE ReceiveTransition
  <2>f. UNCHANGED <<mode, stage, pc, sent, engine, relay, ui, window>>
    BY <1>19 DEF ReceiveTransition, worker
  <2>a. /\ queue # <<>> /\ queue' = Tail(queue) /\ pending' = NoPending
        /\ Head(queue) = queue[1]
        /\ terminal_message_seen' = (terminal_message_seen \/ queue[1].kind \in Terminals)
    BY <1>19, <1>0, ReceiveFacts DEF ReceiveTransition, TypeInv
  <2>b. /\ Len(queue) \in Nat \ {0} /\ queue' \in Seq(Messages(mode))
        /\ Len(queue') = Len(queue) - 1
        /\ \A i \in 1..Len(queue') : queue'[i] = queue[i + 1]
        /\ queue' = <<>> <=> Len(queue) = 1
    BY <1>0, <2>a, ReceiveFacts DEF TypeInv
  <2> DEFINE m == queue[1]
  <2>c. /\ m \in Messages(mode) /\ m.kind \in Terminals \cup {"step"}
        /\ state' \in States(mode) /\ ProgressBelongsToStep'
        /\ m.kind = "step" => state'.step = m.step
        /\ state'.is_completed => m.kind \in {"completed", "warning"}
        /\ state'.is_failed => m.kind = "failed"
        /\ m.kind \in Terminals => state'.is_completed \/ state'.is_failed
    BY <1>19, TransitionFacts
  <2>s. /\ (\A i \in 1..Len(queue) : StreamOk(i))'
        /\ m.kind \in Terminals => queue' = <<>>
        /\ m.kind \notin Terminals => Ahead' = Ahead
    BY <1>0, <2>a, <2>c, <2>f, ReceiveStream
  <2>d. m.kind \in Terminals => sent = m.kind
    BY <1>0, <2>b DEF StreamInv, StreamOk
  <2>o. ~state.is_completed /\ ~state.is_failed /\ ~terminal_message_seen
    BY <1>0, <2>a DEF SeenInv
  <2> HIDE DEF m
  <2>1. TypeInv'
    <3>1. pending' \in Pendings
      BY <2>a DEF Pendings, NoPending, NoStep
    <3> QED
      BY <1>0, <2>b, <2>c, <2>f, <3>1 DEF window, TypeInv
  <2>2. WorkerInv'
    BY <1>0, <2>f DEF WorkerInv
  <2>3. StreamInv'
    <3>1. CASE m.kind \in Terminals
      <4>1. sent # "none"
        BY <2>d, <3>1 DEF Terminals
      <4> QED
        BY <1>0, <2>f, <2>s, <4>1 DEF StreamInv, WorkerInv
    <3>2. CASE m.kind \notin Terminals
      BY <1>0, <2>f, <2>s, <3>2 DEF StreamInv
    <3> QED
      BY <3>1, <3>2
  <2>4. PendingInv'
    BY <2>a DEF PendingInv, NoPending
  <2>5. ProgressBelongsToStep'
    BY <2>c
  <2>6. SeenInv'
    <3>1. CASE m.kind \in Terminals
      BY <1>0, <2>a, <2>c, <2>d, <2>f, <2>s, <3>1 DEF SeenInv, m
    <3>2. CASE m.kind \notin Terminals
      <4>1. ~state'.is_completed /\ ~state'.is_failed /\ ~terminal_message_seen'
        BY <2>a, <2>c, <2>o, <3>2 DEF Terminals, m
      <4>2. ASSUME sent # "none" PROVE queue' # <<>> /\ queue'[Len(queue')].kind = sent
        <5>1. queue[Len(queue)].kind = sent /\ sent \in Terminals
          BY <1>0, <2>o, <4>2 DEF SeenInv, TypeInv
        <5>2. Len(queue) # 1
          BY <3>2, <5>1 DEF m
        <5> QED
          BY <2>b, <5>1, <5>2
      <4> QED
        BY <2>f, <4>1, <4>2 DEF SeenInv
    <3> QED
      BY <3>1, <3>2
  <2>7. WindowInv'
    BY <1>0, <2>f, <2>o DEF window, can_close, WindowInv
  <2>8. ButtonInv'
    BY <1>0, <2>f DEF window, can_close, ButtonInv
  <2>9. MenuInv'
    BY <1>0, <2>f DEF window, can_close, MenuInv
  <2> QED
    BY <2>1, <2>2, <2>3, <2>4, <2>5, <2>6, <2>7, <2>8, <2>9 DEF IInv
<1>20. CASE DrainYields
  <2>f. UNCHANGED <<mode, stage, pc, sent, engine, relay, queue, window>> /\ ui' = "present"
    BY <1>20 DEF DrainYields, worker
  <2>a. /\ state' \in States(mode) /\ ProgressBelongsToStep' /\ state'.step = state.step
        /\ state'.is_completed = state.is_completed
        /\ state.is_failed => state'.is_failed
        /\ state'.is_failed => state.is_failed \/ (DrainDisconnected /\ ~terminal_message_seen)
        /\ DrainDisconnected /\ ~terminal_message_seen => state'.is_failed
        /\ pending' = NoPending
    BY <1>20, DrainFacts
  <2>b. /\ terminal_message_seen' = terminal_message_seen
        /\ ~(DrainDisconnected /\ ~terminal_message_seen)
    BY <1>20 DEF DrainYields, DrainDisconnected
  <2>1. TypeInv'
    <3>1. pending' \in Pendings
      BY <2>a DEF Pendings, NoPending, NoStep
    <3> QED
      BY <1>0, <2>a, <2>f, <3>1 DEF window, TypeInv
  <2>2. WorkerInv'
    BY <1>0, <2>f DEF WorkerInv
  <2>3. StreamInv'
    BY <1>0, <2>a, <2>f DEF StreamInv, StreamOk, Before, Ahead
  <2>4. PendingInv'
    BY <2>a DEF PendingInv, NoPending
  <2>5. ProgressBelongsToStep'
    BY <2>a
  <2>6. SeenInv'
    BY <1>0, <2>a, <2>b, <2>f DEF SeenInv, Senders
  <2>7. WindowInv'
    BY <1>0, <2>a, <2>f DEF window, can_close, WindowInv
  <2>8. ButtonInv'
    BY <1>0, <2>f DEF window, can_close, ButtonInv
  <2>9. MenuInv'
    BY <1>0, <2>f DEF window, can_close, MenuInv
  <2> QED
    BY <2>1, <2>2, <2>3, <2>4, <2>5, <2>6, <2>7, <2>8, <2>9 DEF IInv
<1>21. CASE DrainEmpty
  <2>f. UNCHANGED <<mode, stage, pc, sent, engine, relay, queue, window>> /\ ui' = "present"
    BY <1>21 DEF DrainEmpty, worker
  <2>a. /\ state' \in States(mode) /\ ProgressBelongsToStep' /\ state'.step = state.step
        /\ state'.is_completed = state.is_completed
        /\ state.is_failed => state'.is_failed
        /\ state'.is_failed => state.is_failed \/ (DrainDisconnected /\ ~terminal_message_seen)
        /\ DrainDisconnected /\ ~terminal_message_seen => state'.is_failed
        /\ pending' = NoPending
    BY <1>21, DrainFacts
  <2>b. /\ terminal_message_seen' = terminal_message_seen
        /\ ~(DrainDisconnected /\ ~terminal_message_seen)
    BY <1>21 DEF DrainEmpty, DrainDisconnected
  <2>1. TypeInv'
    <3>1. pending' \in Pendings
      BY <2>a DEF Pendings, NoPending, NoStep
    <3> QED
      BY <1>0, <2>a, <2>f, <3>1 DEF window, TypeInv
  <2>2. WorkerInv'
    BY <1>0, <2>f DEF WorkerInv
  <2>3. StreamInv'
    BY <1>0, <2>a, <2>f DEF StreamInv, StreamOk, Before, Ahead
  <2>4. PendingInv'
    BY <2>a DEF PendingInv, NoPending
  <2>5. ProgressBelongsToStep'
    BY <2>a
  <2>6. SeenInv'
    BY <1>0, <2>a, <2>b, <2>f DEF SeenInv, Senders
  <2>7. WindowInv'
    BY <1>0, <2>a, <2>f DEF window, can_close, WindowInv
  <2>8. ButtonInv'
    BY <1>0, <2>f DEF window, can_close, ButtonInv
  <2>9. MenuInv'
    BY <1>0, <2>f DEF window, can_close, MenuInv
  <2> QED
    BY <2>1, <2>2, <2>3, <2>4, <2>5, <2>6, <2>7, <2>8, <2>9 DEF IInv
<1>22. CASE DrainDisconnected
  <2>f. UNCHANGED <<mode, stage, pc, sent, engine, relay, queue, window>> /\ ui' = "present"
    BY <1>22 DEF DrainDisconnected, worker
  <2>a. /\ state' \in States(mode) /\ ProgressBelongsToStep' /\ state'.step = state.step
        /\ state'.is_completed = state.is_completed
        /\ state.is_failed => state'.is_failed
        /\ state'.is_failed => state.is_failed \/ (DrainDisconnected /\ ~terminal_message_seen)
        /\ DrainDisconnected /\ ~terminal_message_seen => state'.is_failed
        /\ pending' = NoPending
    BY <1>22, DrainFacts
  <2>b. terminal_message_seen' /\ queue = <<>> /\ ~Senders
    BY <1>22 DEF DrainDisconnected
  <2>1. TypeInv'
    <3>1. pending' \in Pendings
      BY <2>a DEF Pendings, NoPending, NoStep
    <3> QED
      BY <1>0, <2>a, <2>f, <3>1 DEF window, TypeInv
  <2>2. WorkerInv'
    BY <1>0, <2>f DEF WorkerInv
  <2>3. StreamInv'
    BY <1>0, <2>a, <2>f DEF StreamInv, StreamOk, Before, Ahead
  <2>4. PendingInv'
    BY <2>a DEF PendingInv, NoPending
  <2>5. ProgressBelongsToStep'
    BY <2>a
  <2>6. SeenInv'
    BY <1>22, <1>0, <2>a, <2>b, <2>f DEF SeenInv, Senders
  <2>7. WindowInv'
    BY <1>0, <2>a, <2>f DEF window, can_close, WindowInv
  <2>8. ButtonInv'
    BY <1>0, <2>f DEF window, can_close, ButtonInv
  <2>9. MenuInv'
    BY <1>0, <2>f DEF window, can_close, MenuInv
  <2> QED
    BY <2>1, <2>2, <2>3, <2>4, <2>5, <2>6, <2>7, <2>8, <2>9 DEF IInv
<1>23. CASE Present
  <2>f. /\ UNCHANGED <<mode, stage, pc, sent, engine, relay, queue>>
        /\ UNCHANGED <<state, pending, terminal_message_seen>>
    BY <1>23 DEF Present, worker, session, vars
  <2> DEFINE changed == worker_finished' # worker_finished
             terminal_changed == terminal' # terminal
             warn == /\ terminal_changed /\ terminal' = "Completed"
                     /\ ~completion_warning_shown /\ state.warned
             box == [kind |-> "warning", changed |-> changed]
  <2>a. /\ ui' = "idle" /\ worker_finished' = (worker_finished \/ pc = "exited")
        /\ terminal' = TerminalOf(state)
    BY <1>23 DEF Present, reap_worker_if_finished
  <2>b. warn => /\ closeButton' = can_close' /\ modals' = Append(modals, box)
                /\ UNCHANGED <<closeMenu, failure_log_prompt_shown, prompts>>
    BY <1>23 DEF Present, Affordance
  <2>c. ~warn => /\ closeButton' =
                      (IF terminal_changed \/ changed THEN can_close' ELSE closeButton)
                 /\ closeMenu' = (IF terminal_changed \/ changed THEN can_close' ELSE closeMenu)
                 /\ FailurePrompt(modals)
    BY <1>23 DEF Present, Affordance
  <2>d. ~terminal_changed /\ ~changed => can_close' = can_close
    BY DEF can_close
  <2>e. /\ modals \in Seq(Boxes) /\ box \in Boxes
    BY <1>0 DEF TypeInv, Boxes
  <2> HIDE DEF box, changed, terminal_changed
  <2>g. /\ Len(modals) \in Nat /\ Append(modals, box) \in Seq(Boxes)
        /\ Len(Append(modals, box)) = Len(modals) + 1
        /\ Append(modals, box)[Len(modals) + 1] = box
    BY <2>e
  <2>h. ~warn => /\ modals' \in Seq(Boxes)
                 /\ \A i \in 1..Len(modals) : i \in 1..Len(modals') /\ modals'[i] = modals[i]
                 /\ \/ /\ failure_log_prompt_shown' /\ ~failure_log_prompt_shown
                       /\ prompts' = prompts + 1 /\ worker_finished' /\ terminal' = "Failed"
                    \/ UNCHANGED <<failure_log_prompt_shown, prompts>>
    BY <2>c, <2>e, PromptFacts
  <2> HIDE DEF warn
  <2>1. TypeInv'
    <3>1. modals' \in Seq(Boxes)
      BY <2>b, <2>g, <2>h
    <3>2. prompts' \in {prompts, prompts + 1}
      BY <2>b, <2>h
    <3> QED
      BY <1>0, <2>f, <3>1, <3>2 DEF TypeInv
  <2>2. WorkerInv'
    BY <1>0, <2>f DEF WorkerInv
  <2>3. StreamInv'
    BY <1>0, <2>f DEF StreamInv, StreamOk, Before, Ahead
  <2>4. PendingInv'
    BY <1>0, <2>f DEF PendingInv
  <2>5. ProgressBelongsToStep'
    BY <1>0, <2>f DEF ProgressBelongsToStep
  <2>6. SeenInv'
    BY <1>0, <2>f DEF SeenInv, Senders
  <2>7. WindowInv'
    <3>1. /\ worker_finished' => pc = "exited"
          /\ terminal' = "Failed" => state.is_failed
          /\ worker_finished => worker_finished'
          /\ terminal = "Failed" => terminal' = "Failed"
      BY <1>0, <2>a DEF WindowInv, TerminalOf
    <3>2. \/ /\ failure_log_prompt_shown' /\ ~failure_log_prompt_shown
             /\ prompts' = prompts + 1 /\ worker_finished' /\ terminal' = "Failed"
          \/ UNCHANGED <<failure_log_prompt_shown, prompts>>
      BY <2>b, <2>h
    <3> QED
      BY <1>0, <2>a, <2>f, <3>1, <3>2 DEF WindowInv
  <2>8. ButtonInv'
    BY <1>0, <2>b, <2>c, <2>d DEF ButtonInv
  <2>9. MenuInv'
    <3>1. CASE warn
      <4>1. modals'[Len(modals')].kind = "warning" /\ Len(modals') \in 1..Len(modals')
        BY <2>b, <2>g, <3>1 DEF box
      <4> QED
        BY <4>1 DEF MenuInv
    <3>2. CASE ~warn
      <4> SUFFICES ASSUME \A i \in 1..Len(modals') : modals'[i].kind # "warning"
                   PROVE  closeMenu' = can_close'
        BY DEF MenuInv
      <4>1. closeMenu = can_close
        BY <1>0, <2>h, <3>2 DEF MenuInv
      <4> QED
        BY <2>c, <2>d, <3>2, <4>1
    <3> QED
      BY <3>1, <3>2
  <2> QED
    BY <2>1, <2>2, <2>3, <2>4, <2>5, <2>6, <2>7, <2>8, <2>9 DEF IInv
<1>24. CASE WarningDismissed
  <2>f. /\ UNCHANGED <<mode, stage, pc, sent, engine, relay, queue>>
        /\ UNCHANGED <<state, pending, terminal_message_seen>>
    BY <1>24 DEF WarningDismissed, worker, session, vars
  <2> DEFINE rest == SubSeq(modals, 1, Len(modals) - 1)
  <2>a. /\ Len(modals) \in Nat \ {0} /\ Len(rest) = Len(modals) - 1 /\ rest \in Seq(Boxes)
        /\ \A i \in 1..Len(rest) : rest[i] = modals[i]
    <3>1. modals \in Seq(Boxes) /\ modals # <<>>
      BY <1>24, <1>0 DEF WarningDismissed, TypeInv
    <3> HIDE DEF rest
    <3> QED
      BY <3>1, DismissFacts DEF rest
  <2>b. /\ UNCHANGED <<ui, worker_finished, terminal>>
        /\ closeMenu' = can_close'
        /\ closeButton' = (IF modals[Len(modals)].changed THEN can_close' ELSE closeButton)
        /\ FailurePrompt(rest)
    BY <1>24 DEF WarningDismissed, Affordance
  <2>c. can_close' = can_close
    BY <2>b DEF can_close
  <2> HIDE DEF rest
  <2>h. /\ modals' \in Seq(Boxes)
        /\ \/ /\ failure_log_prompt_shown' /\ ~failure_log_prompt_shown
              /\ prompts' = prompts + 1 /\ worker_finished' /\ terminal' = "Failed"
           \/ UNCHANGED <<failure_log_prompt_shown, prompts>>
    BY <2>a, <2>b, PromptFacts
  <2>1. TypeInv'
    <3>1. prompts' \in Nat /\ modals' \in Seq(Boxes)
      BY <1>0, <2>h DEF TypeInv
    <3> QED
      BY <1>0, <2>f, <3>1 DEF TypeInv
  <2>2. WorkerInv'
    BY <1>0, <2>f DEF WorkerInv
  <2>3. StreamInv'
    BY <1>0, <2>f DEF StreamInv, StreamOk, Before, Ahead
  <2>4. PendingInv'
    BY <1>0, <2>f DEF PendingInv
  <2>5. ProgressBelongsToStep'
    BY <1>0, <2>f DEF ProgressBelongsToStep
  <2>6. SeenInv'
    BY <1>0, <2>f DEF SeenInv, Senders
  <2>7. WindowInv'
    BY <1>0, <2>b, <2>c, <2>f, <2>h DEF WindowInv
  <2>8. ButtonInv'
    BY <1>0, <2>b, <2>c DEF ButtonInv
  <2>9. MenuInv'
    BY <2>b DEF MenuInv
  <2> QED
    BY <2>1, <2>2, <2>3, <2>4, <2>5, <2>6, <2>7, <2>8, <2>9 DEF IInv
<1>25. CASE PromptDismissed
  <2>f. /\ UNCHANGED <<mode, stage, pc, sent, engine, relay, queue>>
        /\ UNCHANGED <<state, pending, terminal_message_seen>>
    BY <1>25 DEF PromptDismissed, worker, session, vars
  <2> DEFINE rest == SubSeq(modals, 1, Len(modals) - 1)
  <2>a. /\ Len(modals) \in Nat \ {0} /\ Len(rest) = Len(modals) - 1 /\ rest \in Seq(Boxes)
        /\ \A i \in 1..Len(rest) : rest[i] = modals[i]
    <3>1. modals \in Seq(Boxes) /\ modals # <<>>
      BY <1>25, <1>0 DEF PromptDismissed, TypeInv
    <3> HIDE DEF rest
    <3> QED
      BY <3>1, DismissFacts DEF rest
  <2>b. /\ UNCHANGED <<ui, worker_finished, terminal, closeButton, closeMenu, prompts>>
        /\ UNCHANGED failure_log_prompt_shown
        /\ modals' = rest /\ modals[Len(modals)].kind = "failure"
    BY <1>25 DEF PromptDismissed
  <2> HIDE DEF rest
  <2>1. TypeInv'
    <3>1. prompts' \in Nat /\ modals' \in Seq(Boxes)
      BY <1>0, <2>a, <2>b DEF TypeInv
    <3> QED
      BY <1>0, <2>f, <3>1 DEF TypeInv
  <2>2. WorkerInv'
    BY <1>0, <2>f DEF WorkerInv
  <2>3. StreamInv'
    BY <1>0, <2>f DEF StreamInv, StreamOk, Before, Ahead
  <2>4. PendingInv'
    BY <1>0, <2>f DEF PendingInv
  <2>5. ProgressBelongsToStep'
    BY <1>0, <2>f DEF ProgressBelongsToStep
  <2>6. SeenInv'
    BY <1>0, <2>f DEF SeenInv, Senders
  <2>7. WindowInv'
    BY <1>0, <2>b, <2>f DEF can_close, WindowInv
  <2>8. ButtonInv'
    BY <1>0, <2>b DEF can_close, ButtonInv
  <2>9. MenuInv'
    <3> SUFFICES ASSUME \A i \in 1..Len(modals') : modals'[i].kind # "warning"
                 PROVE  closeMenu' = can_close'
      BY DEF MenuInv
    <3>1. \A i \in 1..Len(modals) : modals[i].kind # "warning"
      BY <2>a, <2>b
    <3> QED
      BY <1>0, <2>b, <3>1 DEF MenuInv, can_close
  <2> QED
    BY <2>1, <2>2, <2>3, <2>4, <2>5, <2>6, <2>7, <2>8, <2>9 DEF IInv
<1>26. CASE UserCloses
  <2>f. /\ UNCHANGED <<mode, stage, pc, sent, engine, relay, queue>>
        /\ UNCHANGED <<state, pending, terminal_message_seen>>
    BY <1>26 DEF UserCloses, worker, session, vars
  <2>1. TypeInv'
    BY <1>26, <1>0, <2>f DEF UserCloses, window, TypeInv
  <2>2. WorkerInv'
    BY <1>0, <2>f DEF WorkerInv
  <2>3. StreamInv'
    BY <1>0, <2>f DEF StreamInv, StreamOk, Before, Ahead
  <2>4. PendingInv'
    BY <1>0, <2>f DEF PendingInv
  <2>5. ProgressBelongsToStep'
    BY <1>0, <2>f DEF ProgressBelongsToStep
  <2>6. SeenInv'
    BY <1>0, <2>f DEF SeenInv, Senders
  <2>7. WindowInv'
    BY <1>26, <1>0, <2>f DEF UserCloses, window, can_close, WindowInv
  <2>8. ButtonInv'
    BY <1>26, <1>0, <2>f DEF UserCloses, window, can_close, ButtonInv
  <2>9. MenuInv'
    BY <1>26, <1>0, <2>f DEF UserCloses, window, can_close, MenuInv
  <2> QED
    BY <2>1, <2>2, <2>3, <2>4, <2>5, <2>6, <2>7, <2>8, <2>9 DEF IInv
<1>27. CASE UNCHANGED vars
  <2>1. UNCHANGED <<worker, engine, relay, queue, ui, session, window>>
    BY <1>27 DEF vars
  <2>2. TypeInv' /\ WorkerInv' /\ StreamInv'
    BY <1>0, <2>1 DEF worker, session, window, TypeInv, WorkerInv, StreamInv, StreamOk, Before,
        Ahead
  <2>3. PendingInv' /\ ProgressBelongsToStep' /\ SeenInv'
    BY <1>0, <2>1 DEF worker, session, PendingInv, ProgressBelongsToStep, SeenInv, Senders
  <2>4. WindowInv' /\ ButtonInv' /\ MenuInv'
    BY <1>0, <2>1 DEF worker, session, window, WindowInv, ButtonInv, MenuInv, can_close
  <2> QED
    BY <2>2, <2>3, <2>4 DEF IInv
<1> QED
  BY <1>1, <1>2, <1>3, <1>4, <1>5, <1>6, <1>7, <1>8, <1>9, <1>10, <1>11, <1>12, <1>13, <1>14,
     <1>15, <1>16, <1>17, <1>18, <1>19, <1>20, <1>21, <1>22, <1>23, <1>24, <1>25, <1>26, <1>27
  DEF Next, Worker, Relay, Poll, User, Closed

----------------------------------------------------------------------------

LEMMA Invariance == Spec => []IInv
BY InitIInv, NextIInv, PTL DEF Spec

(* The percentage and the text shown always belong to the step shown.      *)
THEOREM ProgressBelongsToStepHolds == Spec => []ProgressBelongsToStep
<1>1. IInv => ProgressBelongsToStep
  BY DEF IInv
<1> QED
  BY <1>1, Invariance, PTL

(* The window reports the end the worker reported, nothing is sent behind  *)
(* it, and the failure prompt opens at most once, behind a failed worker.  *)
THEOREM TruthfulTerminalHolds == Spec => []TruthfulTerminal
<1>1. IInv => TruthfulTerminal
  <2> SUFFICES ASSUME IInv PROVE TruthfulTerminal
    OBVIOUS
  <2>1. \A i \in DOMAIN queue : queue[i].kind \in Terminals => i = Len(queue)
    BY DEF IInv, TypeInv, StreamInv, StreamOk
  <2>2. prompts <= 1 /\ (prompts = 1 => terminal = "Failed" /\ pc = "exited")
    BY DEF IInv, WindowInv
  <2>3. /\ state.is_completed \/ state.is_failed => queue = <<>>
        /\ ~(state.is_completed /\ state.is_failed)
        /\ state.is_completed => sent \in {"completed", "warning"}
        /\ state.is_failed => sent = "failed" \/ (sent = "none" /\ ~Senders)
    BY DEF IInv, SeenInv
  <2> QED
    BY <2>1, <2>2, <2>3 DEF TruthfulTerminal
<1> QED
  BY <1>1, Invariance, PTL

(* The window closes only behind its worker, and between polls the button  *)
(* and the menu say so.                                                    *)
THEOREM CloseAfterWorkHolds == Spec => []CloseAfterWork
<1>1. IInv => CloseAfterWork
  <2> SUFFICES ASSUME IInv PROVE CloseAfterWork
    OBVIOUS
  <2>1. can_close \/ ui = "closed" => pc = "exited"
    BY DEF IInv, WindowInv, can_close
  <2>2. closeButton = can_close
    BY DEF IInv, ButtonInv
  <2>3. (\A i \in DOMAIN modals : modals[i].kind # "warning") => closeMenu = can_close
    <3>1. DOMAIN modals = 1..Len(modals)
      BY DEF IInv, TypeInv
    <3> QED
      BY <3>1 DEF IInv, MenuInv
  <2> QED
    BY <2>1, <2>2, <2>3 DEF CloseAfterWork
<1> QED
  BY <1>1, Invariance, PTL

(* No step of any thread moves the weighted bar of an installation or a    *)
(* backup backwards.                                                       *)
THEOREM WeightedNeverBackwardsHolds == Spec => WeightedNeverBackwards
<1>1. ASSUME IInv, [Next]_vars, mode # "expand" PROVE state'.overall >= state.overall
  <2>1. state.overall >= state.overall
    <3>1. state \in States(mode)
      BY <1>1 DEF IInv, TypeInv
    <3> QED
      BY <3>1 DEF States
  <2>2. CASE ReceiveTransition
    BY <1>1, <2>2, TransitionFacts
  <2>3. CASE DrainYields \/ DrainEmpty \/ DrainDisconnected
    BY <1>1, <2>3, DrainFacts
  <2>4. CASE Worker
    <3>1. UNCHANGED session
      BY <2>4 DEF Worker, Begin, SpawnRelay, CallEngine, Join, Fail, DropSenders, Panic, Exit,
        Advance, Report, EngineReports, EngineReturns, Complete
    <3> QED
      BY <2>1, <3>1 DEF session
  <2>5. CASE Relay \/ User \/ Closed \/ Present \/ UNCHANGED vars
    <3>1. UNCHANGED session
      BY <2>5 DEF Relay, RelayForwards, RelayEnds, User, WarningDismissed, PromptDismissed,
        UserCloses, Closed, Present, vars
    <3> QED
      BY <2>1, <3>1 DEF session
  <2>6. CASE PollStarts \/ ReceiveSample
    <3>1. UNCHANGED state
      BY <2>6 DEF PollStarts, ReceiveSample
    <3> QED
      BY <2>1, <3>1
  <2> QED
    BY <1>1, <2>2, <2>3, <2>4, <2>5, <2>6 DEF Next, Poll
<1>2. IInv /\ [Next]_vars => [mode # "expand" => state'.overall >= state.overall]_vars
  BY <1>1
<1> QED
  BY <1>2, Invariance, PTL DEF Spec, WeightedNeverBackwards

=============================================================================
