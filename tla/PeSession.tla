------------------------------ MODULE PeSession ------------------------------
(***************************************************************************)
(* One WinPE task as its user sees it: the worker thread that runs the     *)
(* install, backup or expand workflow, the relay thread it spawns around   *)
(* each image-engine call, the channel both send on, WorkflowSession of    *)
(* PE端/src/app.rs that drains the channel in bounded slices, and the      *)
(* progress window of PE端/src/native_ui/progress.rs that polls the        *)
(* session from a timer.  A message box pumps the message queue, so the    *)
(* timer polls again while one is open; modals is the stack of open boxes. *)
(*                                                                         *)
(* Messages carry the step they report on where the code has a percentage  *)
(* or a text; nothing in the code reads it.  A stage is a place of the     *)
(* worker's script: a step of the install or backup list, or a point where *)
(* expand_c_drive reports a percentage.                                    *)
(***************************************************************************)
EXTENDS Integers, Sequences, FiniteSetsExt

CONSTANTS
  Modes,       \* operation types to run, of "install", "backup", "expand"
  Percents,    \* percentages the tools report
  Budget,      \* MAX_WORKER_MESSAGES_PER_POLL
  MaxQueue,    \* bound: messages waiting in a channel
  MaxReports   \* bound: progress reports of one task

ASSUME SessionAssumption ==
  /\ Modes \subseteq {"install", "backup", "expand"}
  /\ Percents \subseteq 0..255
  /\ Budget \in Nat \ {0} /\ MaxQueue \in Nat \ {0} /\ MaxReports \in Nat

NoStep == -1
None == -1

(***************************************************************************)
(* The scripts of execute_install_workflow, run_backup_workflow and        *)
(* execute_expand_workflow.                                                *)
(***************************************************************************)
First == [install |-> "Authenticate", backup |-> "ReadConfig", expand |-> "Accept"]
Last == [install |-> "Complete", backup |-> "BackupComplete", expand |-> "Cleaned"]

Follows == [
  Authenticate |-> {"VerifyImage", "FormatPartition"},
  VerifyImage |-> {"FormatPartition"},
  FormatPartition |-> {"ApplyImage"},
  ApplyImage |-> {"ImportDrivers", "Cleanup"},
  ImportDrivers |-> {"InstallCabPackages"},
  InstallCabPackages |-> {"RepairBoot"},
  RepairBoot |-> {"ApplyAdvancedOptions"},
  ApplyAdvancedOptions |-> {"GenerateUnattend"},
  GenerateUnattend |-> {"Cleanup"},
  Cleanup |-> {"Complete"},
  Complete |-> {},
  ReadConfig |-> {"CaptureImage"},
  CaptureImage |-> {"VerifyBackup"},
  VerifyBackup |-> {"BackupCleanup"},
  BackupCleanup |-> {"BackupComplete"},
  BackupComplete |-> {},
  Accept |-> {"Shrink", "Expanded"},
  Shrink |-> {"MoveStarts"},
  MoveStarts |-> {"MoveEnds"},
  MoveEnds |-> {"Recreate"},
  Recreate |-> {"CarryStarts", "Extend"},
  CarryStarts |-> {"CarryEnds"},
  CarryEnds |-> {"CarryStarts", "Extend"},
  Extend |-> {"Expanded"},
  Expanded |-> {"Cleaned"},
  Cleaned |-> {}]

Stages == DOMAIN Follows

(* InstallStep::index and BackupStep::index of the step a stage announces. *)
StepOf == [s \in Stages |->
  CASE s \in {"Authenticate", "VerifyImage", "ReadConfig"} -> 0
    [] s \in {"FormatPartition", "CaptureImage"} -> 1
    [] s \in {"ApplyImage", "VerifyBackup"} -> 2
    [] s = "ImportDrivers" -> 3
    [] s \in {"InstallCabPackages", "BackupCleanup"} -> 4
    [] s \in {"RepairBoot", "BackupComplete"} -> 5
    [] s = "ApplyAdvancedOptions" -> 6
    [] s = "GenerateUnattend" -> 7
    [] s = "Cleanup" -> 8
    [] s = "Complete" -> 9
    [] OTHER -> NoStep]

(* The percentage an expand stage reports. *)
ReportedAt == [
  Accept |-> 30, Shrink |-> 32, MoveStarts |-> 35, MoveEnds |-> 85, Recreate |-> 86,
  CarryStarts |-> 35, CarryEnds |-> 85, Extend |-> 88, Expanded |-> 90, Cleaned |-> 100]

(* Stages whose image-engine call is followed by a relay thread, and those *)
(* where an error of the call ends the workflow.                           *)
Relayed == {"VerifyImage", "ApplyImage", "ImportDrivers", "InstallCabPackages", "CaptureImage"}
EngineFatal == {"VerifyImage", "ApplyImage", "CaptureImage"}

(* Stages in which the worker may give up outside an engine call. *)
MayFail == Stages \ {"ImportDrivers", "Cleanup", "Complete", "BackupComplete", "Cleaned"}

overall_range == [
  install |-> <<<<0, 3>>, <<3, 7>>, <<7, 82>>, <<82, 88>>, <<88, 92>>,
                <<92, 96>>, <<96, 98>>, <<98, 99>>, <<99, 100>>, <<100, 100>>>>,
  backup |-> <<<<0, 3>>, <<3, 93>>, <<93, 97>>, <<97, 99>>, <<99, 100>>, <<100, 100>>>>]

VARIABLES
  mode,          \* the operation type
  stage,         \* where the worker is in its script
  pc,            \* "start", "working", "relayed", "engine", "joining", "tail", "dropped", "exited"
  failing,       \* the engine call that is being joined returned an error
  sent,          \* terminal message the worker has sent, or "none"
  engine,        \* channel from the engine call to the relay
  relay,         \* the relay thread is alive
  queue,         \* channel to the session
  reports,       \* progress reports so far
  ui,            \* "idle", "drain", "present" or "closed"
  processed,     \* messages received in this poll
  pending,       \* coalesced progress and status not shown yet
  state,         \* ProgressState
  terminal_message_seen,
  worker_finished,
  terminal,      \* presentation.terminal
  closeButton,   \* the close button is enabled
  closeMenu,     \* the system menu's close item is enabled
  completion_warning_shown,
  failure_log_prompt_shown,
  prompts,       \* failure prompts opened
  modals         \* open message boxes, the innermost last

worker == <<mode, stage, pc, failing, sent, reports>>
session == <<processed, pending, state, terminal_message_seen>>
window == <<worker_finished, terminal, closeButton, closeMenu, completion_warning_shown,
            failure_log_prompt_shown, prompts, modals>>
vars == <<worker, engine, relay, queue, ui, session, window>>

Terminals == {"completed", "warning", "failed"}
Message(kind, step, progress, status) ==
  [kind |-> kind, step |-> step, progress |-> progress, status |-> status]

NoPending == [progress |-> None, progressOf |-> NoStep, status |-> FALSE, statusOf |-> NoStep]

Init ==
  /\ mode \in Modes /\ stage = First[mode]
  /\ pc = "start" /\ failing = FALSE /\ sent = "none"
  /\ engine = <<>> /\ relay = FALSE /\ queue = <<>> /\ reports = 0
  /\ ui = "idle" /\ processed = 0 /\ pending = NoPending
  /\ state = [step |-> NoStep, progress |-> 0, progressOf |-> NoStep, status |-> FALSE,
              statusOf |-> NoStep, overall |-> 0, is_completed |-> FALSE,
              is_failed |-> FALSE, warned |-> FALSE]
  /\ terminal_message_seen = FALSE /\ worker_finished = FALSE
  /\ terminal = "Running" /\ closeButton = FALSE /\ closeMenu = FALSE
  /\ completion_warning_shown = FALSE /\ failure_log_prompt_shown = FALSE
  /\ prompts = 0 /\ modals = <<>>

Send(m) == Len(queue) < MaxQueue /\ queue' = Append(queue, m)

(***************************************************************************)
(* The worker thread.                                                      *)
(***************************************************************************)

(* The first message of a stage: SetInstallStep or SetBackupStep, or the   *)
(* percentage and text of an expand stage.                                 *)
Announce(s) ==
  IF mode = "expand" THEN Message("sample", NoStep, ReportedAt[s], TRUE)
                     ELSE Message("step", StepOf[s], None, FALSE)

Begin ==
  /\ pc = "start" /\ pc' = "working"
  /\ Send(Announce(stage))
  /\ UNCHANGED <<mode, stage, failing, sent, reports, engine, relay, ui, session, window>>

Advance(s) ==
  /\ pc = "working" /\ s \in Follows[stage]
  /\ stage' = s
  /\ Send(Announce(s))
  /\ UNCHANGED <<mode, pc, failing, sent, reports, engine, relay, ui, session, window>>

(* SetProgress, SetStatus or SetProgressStatus sent by the worker itself;  *)
(* it also announces an attempt of the apply ladder, with the relay alive. *)
Report(p, text) ==
  /\ \/ pc = "working" /\ mode # "expand"
     \/ pc = "engine" /\ stage = "ApplyImage" /\ p = None
  /\ reports < MaxReports
  /\ p # None \/ text
  /\ reports' = reports + 1
  /\ Send(Message("sample", StepOf[stage], p, text))
  /\ UNCHANGED <<mode, stage, pc, failing, sent, engine, relay, ui, session, window>>

SpawnRelay ==
  /\ pc = "working" /\ stage \in Relayed
  /\ pc' = "relayed" /\ relay' = TRUE
  /\ UNCHANGED <<mode, stage, failing, sent, reports, engine, queue, ui, session, window>>

CallEngine ==
  /\ pc = "relayed" /\ pc' = "engine"
  /\ UNCHANGED <<mode, stage, failing, sent, reports, engine, relay, queue, ui, session, window>>

(* A sample of the engine; the relays of apply and capture forward its     *)
(* percentage, the others its text too.                                    *)
EngineReports(p) ==
  /\ pc = "engine" /\ reports < MaxReports /\ Len(engine) < MaxQueue
  /\ reports' = reports + 1
  /\ engine' = Append(engine, Message("sample", StepOf[stage], p,
                                      stage \notin {"ApplyImage", "CaptureImage"}))
  /\ UNCHANGED <<mode, stage, pc, failing, sent, relay, queue, ui, session, window>>

(* The engine call returns and drops its end of the relay's channel. *)
EngineReturns(error) ==
  /\ pc = "engine" /\ pc' = "joining" /\ failing' = (error /\ stage \in EngineFatal)
  /\ UNCHANGED <<mode, stage, sent, reports, engine, relay, queue, ui, session, window>>

(* relay.join(), and the return with Failed when the call was fatal. *)
Join ==
  /\ pc = "joining" /\ ~relay
  /\ IF failing THEN /\ pc' = "tail" /\ sent' = "failed"
                     /\ Send(Message("failed", NoStep, None, FALSE))
                ELSE pc' = "working" /\ UNCHANGED <<sent, queue>>
  /\ failing' = FALSE
  /\ UNCHANGED <<mode, stage, reports, engine, relay, ui, session, window>>

(* Failed and return: at a stage's own checks, before the first step of a  *)
(* backup or an expansion, or between the relay and the engine call of     *)
(* ApplyImage (the target changed), where the relay is not joined.         *)
Fail ==
  /\ \/ pc = "working" /\ stage \in MayFail
     \/ pc = "start" /\ mode # "install"
     \/ pc = "relayed" /\ stage = "ApplyImage"
  /\ pc' = "tail" /\ sent' = "failed"
  /\ Send(Message("failed", NoStep, None, FALSE))
  /\ UNCHANGED <<mode, stage, failing, reports, engine, relay, ui, session, window>>

(* Completed, or CompletedWithWarning of an installation. *)
Complete(warning) ==
  /\ pc = "working" /\ stage = Last[mode]
  /\ warning => mode = "install"
  /\ pc' = "tail" /\ sent' = IF warning THEN "warning" ELSE "completed"
  /\ Send(Message(sent', NoStep, None, FALSE))
  /\ UNCHANGED <<mode, stage, failing, reports, engine, relay, ui, session, window>>

(* The closure returns after the delay and the reboot request, or unwinds  *)
(* from a panic: its senders are dropped, then the thread is finished.     *)
DropSenders ==
  /\ pc = "tail" /\ pc' = "dropped"
  /\ UNCHANGED <<mode, stage, failing, sent, reports, engine, relay, queue, ui, session, window>>

Panic ==
  /\ pc \in {"start", "working", "relayed", "engine", "joining"} /\ pc' = "dropped"
  /\ failing' = FALSE
  /\ UNCHANGED <<mode, stage, sent, reports, engine, relay, queue, ui, session, window>>

Exit ==
  /\ pc = "dropped" /\ pc' = "exited"
  /\ UNCHANGED <<mode, stage, failing, sent, reports, engine, relay, queue, ui, session, window>>

(***************************************************************************)
(* The relay thread: forward until the engine's end is dropped.            *)
(***************************************************************************)
EngineEndOpen == pc \in {"relayed", "engine"}

RelayForwards ==
  /\ relay /\ engine # <<>>
  /\ Send(Head(engine)) /\ engine' = Tail(engine)
  /\ UNCHANGED <<worker, relay, ui, session, window>>

RelayEnds ==
  /\ relay /\ engine = <<>> /\ ~EngineEndOpen
  /\ relay' = FALSE
  /\ UNCHANGED <<worker, engine, queue, ui, session, window>>

(***************************************************************************)
(* ProgressState.                                                          *)
(***************************************************************************)
weighted_progress(range, p) ==
  range[1] + ((range[2] - range[1]) * Min({p, 100})) \div 100

update_overall_progress_NoMax(s) ==
  IF s.step = NoStep THEN [s EXCEPT !.overall = 0]
  ELSE [s EXCEPT !.overall = weighted_progress(overall_range[mode][s.step + 1], s.progress)]

update_overall_progress(s) ==
  IF s.step = NoStep THEN [s EXCEPT !.overall = 0]
  ELSE [s EXCEPT !.overall =
          Max({@, weighted_progress(overall_range[mode][s.step + 1], s.progress)})]

set_step(s, k) ==
  update_overall_progress(
    [s EXCEPT !.step = k, !.progress = 0, !.progressOf = k, !.status = FALSE, !.statusOf = NoStep])

set_step_progress(s, p, of) ==
  LET t == [s EXCEPT !.progress = Min({p, 100}), !.progressOf = of]
  IN  IF mode = "expand" THEN [t EXCEPT !.overall = t.progress] ELSE update_overall_progress(t)

mark_completed(s, warning) ==
  LET last == StepOf[Last[mode]]
  IN  [s EXCEPT !.is_completed = TRUE, !.warned = warning, !.overall = 100,
                !.progress = 100, !.step = last, !.progressOf = last]

mark_failed(s) == [s EXCEPT !.is_failed = TRUE]

flush_pending_worker_update(s, p) ==
  LET t == IF p.progress # None THEN set_step_progress(s, p.progress, p.progressOf) ELSE s
  IN  IF p.status THEN [t EXCEPT !.status = TRUE, !.statusOf = p.statusOf] ELSE t

(***************************************************************************)
(* process_messages, one received message at a time.                       *)
(***************************************************************************)
PollStarts ==
  /\ ui = "idle" /\ ui' = "drain"
  /\ processed' = 0
  /\ UNCHANGED <<worker, engine, relay, queue, pending, state, terminal_message_seen, window>>

ReceiveSample ==
  /\ ui = "drain" /\ processed < Budget
  /\ queue # <<>> /\ Head(queue).kind = "sample"
  /\ LET m == Head(queue)
         p == IF m.progress # None
              THEN [pending EXCEPT !.progress = m.progress, !.progressOf = m.step] ELSE pending
     IN  pending' = IF m.status THEN [p EXCEPT !.status = TRUE, !.statusOf = m.step] ELSE p
  /\ queue' = Tail(queue) /\ processed' = processed + 1
  /\ UNCHANGED <<worker, engine, relay, ui, state, terminal_message_seen, window>>

ReceiveTransition_NoFlush ==
  /\ ui = "drain" /\ processed < Budget
  /\ queue # <<>> /\ Head(queue).kind # "sample"
  /\ LET m == Head(queue)
     IN  /\ state' = CASE m.kind = "step" -> set_step(state, m.step)
                       [] m.kind = "completed" -> mark_completed(state, FALSE)
                       [] m.kind = "warning" -> mark_completed(state, TRUE)
                       [] m.kind = "failed" -> mark_failed(state)
         /\ terminal_message_seen' = (terminal_message_seen \/ m.kind \in Terminals)
  /\ queue' = Tail(queue) /\ processed' = processed + 1
  /\ UNCHANGED <<worker, engine, relay, ui, pending, window>>

ReceiveTransition ==
  /\ ui = "drain" /\ processed < Budget
  /\ queue # <<>> /\ Head(queue).kind # "sample"
  /\ LET m == Head(queue)
         s == flush_pending_worker_update(state, pending)
     IN  /\ state' = CASE m.kind = "step" -> set_step(s, m.step)
                       [] m.kind = "completed" -> mark_completed(s, FALSE)
                       [] m.kind = "warning" -> mark_completed(s, TRUE)
                       [] m.kind = "failed" -> mark_failed(s)
         /\ terminal_message_seen' = (terminal_message_seen \/ m.kind \in Terminals)
  /\ pending' = NoPending
  /\ queue' = Tail(queue) /\ processed' = processed + 1
  /\ UNCHANGED <<worker, engine, relay, ui, window>>

(* The loop breaks at the message budget or at the time slice. *)
DrainYields ==
  /\ ui = "drain" /\ processed > 0 /\ ui' = "present"
  /\ state' = flush_pending_worker_update(state, pending) /\ pending' = NoPending
  /\ UNCHANGED <<worker, engine, relay, queue, processed, terminal_message_seen, window>>

Senders == pc \notin {"dropped", "exited"} \/ relay

DrainEmpty ==
  /\ ui = "drain" /\ processed < Budget /\ queue = <<>> /\ Senders
  /\ ui' = "present"
  /\ state' = flush_pending_worker_update(state, pending) /\ pending' = NoPending
  /\ UNCHANGED <<worker, engine, relay, queue, processed, terminal_message_seen, window>>

(* TryRecvError::Disconnected: a worker that never sent a terminal message *)
(* has died; channel_failure_reported is set together with                 *)
(* terminal_message_seen and adds nothing to it.                           *)
DrainDisconnected_Always ==
  /\ ui = "drain" /\ processed < Budget /\ queue = <<>> /\ ~Senders
  /\ ui' = "present"
  /\ state' = mark_failed(flush_pending_worker_update(state, pending))
  /\ pending' = NoPending /\ terminal_message_seen' = TRUE
  /\ UNCHANGED <<worker, engine, relay, queue, processed, window>>

DrainDisconnected_Silent ==
  /\ ui = "drain" /\ processed < Budget /\ queue = <<>> /\ ~Senders
  /\ ui' = "present"
  /\ state' = flush_pending_worker_update(state, pending)
  /\ pending' = NoPending /\ terminal_message_seen' = TRUE
  /\ UNCHANGED <<worker, engine, relay, queue, processed, window>>

DrainDisconnected ==
  /\ ui = "drain" /\ processed < Budget /\ queue = <<>> /\ ~Senders
  /\ ui' = "present"
  /\ LET s == flush_pending_worker_update(state, pending)
     IN  state' = IF terminal_message_seen THEN s ELSE mark_failed(s)
  /\ pending' = NoPending /\ terminal_message_seen' = TRUE
  /\ UNCHANGED <<worker, engine, relay, queue, processed, window>>

(***************************************************************************)
(* poll_worker after process_messages: snapshot, reap, apply_presentation, *)
(* the affordances, the failure prompt.                                    *)
(***************************************************************************)
reap_worker_if_finished == worker_finished \/ pc = "exited"

TerminalOf(s) ==
  IF s.is_failed THEN "Failed" ELSE IF s.is_completed THEN "Completed" ELSE "Running"

can_close_TerminalOnly == terminal # "Running"

can_close == terminal # "Running" /\ worker_finished

(* should_show_failure_log_prompt, and the prompt opened on top of stack. *)
FailurePrompt(stack) ==
  IF worker_finished' /\ terminal' = "Failed" /\ ~failure_log_prompt_shown
  THEN /\ failure_log_prompt_shown' = TRUE /\ prompts' = prompts + 1
       /\ modals' = Append(stack, [kind |-> "failure", changed |-> FALSE])
  ELSE modals' = stack /\ UNCHANGED <<failure_log_prompt_shown, prompts>>

(* Enabled state of the close button after apply_presentation and, unless  *)
(* a message box is still open, of the button and the menu after poll.     *)
Affordance(before, terminal_changed, worker_changed) ==
  IF terminal_changed \/ worker_changed THEN can_close' ELSE before

Present ==
  /\ ui = "present" /\ ui' = "idle"
  /\ worker_finished' = reap_worker_if_finished
  /\ terminal' = TerminalOf(state)
  /\ LET changed == worker_finished' # worker_finished
         terminal_changed == terminal' # terminal
         completed == terminal_changed /\ terminal' = "Completed"
         warn == completed /\ ~completion_warning_shown /\ state.warned
     IN  /\ completion_warning_shown' = (completion_warning_shown \/ warn)
         /\ IF warn
            THEN /\ closeButton' = Affordance(closeButton, terminal_changed, FALSE)
                 /\ modals' = Append(modals, [kind |-> "warning", changed |-> changed])
                 /\ UNCHANGED <<closeMenu, failure_log_prompt_shown, prompts>>
            ELSE /\ closeButton' = Affordance(closeButton, terminal_changed, changed)
                 /\ closeMenu' = Affordance(closeMenu, terminal_changed, changed)
                 /\ FailurePrompt(modals)
  /\ UNCHANGED <<worker, engine, relay, queue, session>>

(* MessageBoxW returns in apply_presentation; the rest of it and of        *)
(* poll_worker runs with the values the nested polls left.                 *)
WarningDismissed ==
  /\ ui = "idle" /\ modals # <<>> /\ modals[Len(modals)].kind = "warning"
  /\ UNCHANGED <<ui, worker_finished, terminal, completion_warning_shown>>
  /\ closeMenu' = Affordance(closeMenu, TRUE, FALSE)
  /\ closeButton' = Affordance(closeButton, FALSE, modals[Len(modals)].changed)
  /\ FailurePrompt(SubSeq(modals, 1, Len(modals) - 1))
  /\ UNCHANGED <<worker, engine, relay, queue, session>>

PromptDismissed ==
  /\ ui = "idle" /\ modals # <<>> /\ modals[Len(modals)].kind = "failure"
  /\ modals' = SubSeq(modals, 1, Len(modals) - 1)
  /\ UNCHANGED <<ui, worker_finished, terminal, closeButton, closeMenu, completion_warning_shown,
                 failure_log_prompt_shown, prompts>>
  /\ UNCHANGED <<worker, engine, relay, queue, session>>

(* The close button or WM_CLOSE: a message box disables its owner. *)
UserCloses ==
  /\ ui = "idle" /\ modals = <<>> /\ can_close
  /\ ui' = "closed"
  /\ UNCHANGED <<worker, engine, relay, queue, session, window>>

Closed ==
  /\ ui = "closed"
  /\ UNCHANGED vars

Worker ==
  \/ Begin \/ SpawnRelay \/ CallEngine \/ Join \/ Fail \/ DropSenders \/ Panic \/ Exit
  \/ \E s \in Stages : Advance(s)
  \/ \E p \in Percents \cup {None}, text \in BOOLEAN : Report(p, text)
  \/ \E p \in Percents : EngineReports(p)
  \/ \E b \in BOOLEAN : EngineReturns(b) \/ Complete(b)

Relay == RelayForwards \/ RelayEnds

Poll ==
  \/ PollStarts \/ ReceiveSample \/ ReceiveTransition
  \/ DrainYields \/ DrainEmpty \/ DrainDisconnected \/ Present

User == WarningDismissed \/ PromptDismissed \/ UserCloses

Next == Worker \/ Relay \/ Poll \/ User \/ Closed

Spec == Init /\ [][Next]_vars

(* The timer keeps firing while the window exists, and a thread that can   *)
(* run is run; nothing is assumed of the worker, the engine or the user.   *)
FairSpec == Spec /\ WF_vars(Poll) /\ WF_vars(Relay)

(***************************************************************************)
(* Properties.                                                             *)
(***************************************************************************)

(* The percentage and the text shown belong to the step shown: no sample   *)
(* of one step is ever shown under another, although samples travel        *)
(* through a relay thread and are coalesced by the session.                *)
ProgressBelongsToStep ==
  /\ state.progressOf = state.step
  /\ state.status => state.statusOf = state.step

(* What the window shows as the end is what the worker reported; Failed    *)
(* without a report means every sender is gone.  No relay or worker        *)
(* reports behind the terminal message, and the failure prompt opens at    *)
(* most once, although its own message loop keeps polling, and only for a  *)
(* failed task whose worker has ended.                                     *)
TruthfulTerminal ==
  /\ \A i \in DOMAIN queue : queue[i].kind \in Terminals => i = Len(queue)
  /\ state.is_completed \/ state.is_failed => queue = <<>>
  /\ prompts <= 1 /\ (prompts = 1 => terminal = "Failed" /\ pc = "exited")
  /\ ~(state.is_completed /\ state.is_failed)
  /\ state.is_completed => sent \in {"completed", "warning"}
  /\ state.is_failed => sent = "failed" \/ (sent = "none" /\ ~Senders)

(* The window can be closed only when the worker thread, with its cleanup, *)
(* delay and reboot request, has ended.  Between polls the close button    *)
(* shows it, and so does the menu item unless a message box is open.       *)
CloseAfterWork ==
  /\ can_close \/ ui = "closed" => pc = "exited"
  /\ ui \in {"idle", "drain"} =>
       /\ closeButton = can_close
       /\ (\A i \in DOMAIN modals : modals[i].kind # "warning") => closeMenu = can_close

(* The weighted overall bar of an installation or a backup never moves     *)
(* backwards, although every step resets the step bar and a verification   *)
(* announces its step twice.                                               *)
WeightedNeverBackwards == [][mode # "expand" => state'.overall >= state.overall]_vars

(* Once the worker thread has ended the window becomes closable; a task    *)
(* that ended without success brings the failure prompt, also when the     *)
(* worker died without a message, and a completion warning is shown.       *)
EventuallyClosable ==
  /\ pc = "exited" ~> can_close
  /\ pc = "exited" /\ sent \in {"none", "failed"} ~> prompts = 1
  /\ sent = "warning" ~> completion_warning_shown

=============================================================================
