----------------------------- MODULE FirstLogon -----------------------------
(***************************************************************************)
(* The first logons of a reinstalled Windows whose personal files are to   *)
(* be restored before the desktop appears (lr-core/src/first_logon.rs).    *)
(*                                                                         *)
(* The first logon arms a gate: it saves the Winlogon Shell value, puts    *)
(* its own progress window in its place, registers a logon task and        *)
(* restarts.  At the next logon Winlogon shows the window, which only      *)
(* reads marker files; the task starts the fixed launcher, whose script    *)
(* runs the privileged worker: it restores the files, writes a receipt,    *)
(* gives the Shell value back, starts Explorer and leaves a receipt for    *)
(* each.  A failed attempt leaves a marker and is repeated at the next     *)
(* logon.  Meanwhile a scheduled task sweeps the staging directory when it *)
(* finds the work done.  PersonalFiles models the restoration itself; here *)
(* it is two steps, the merge of the profiles and the removal of the root. *)
(***************************************************************************)
EXTENDS Naturals

CONSTANTS
    MaxGateFaults, \* failing calls and power losses in a behaviour
    MaxSweeps      \* times the scheduled sweep runs in a behaviour

ASSUME GateBoundAssumption == MaxGateFaults \in Nat /\ MaxSweeps \in Nat

VARIABLES
    builtin,     \* OOBE ran under a temporary account, the second logon is Administrator's
    kept,        \* the preservation root: "full", "stripped" of its profiles, or "none"
    staged,      \* the scripts of the staging directory
    helper,      \* the helper program there, which is both worker and window
    launcher,    \* the launcher in the root of the volume
    files,       \* the marker files of the staging directory
    shell,       \* the Winlogon Shell value: "original" or "gate"
    autologon,   \* the one-shot automatic logon values
    task,        \* the logon task
    sweepTask,   \* the scheduled sweep
    session,     \* "booted" (nobody logged on), "first" or "later" logon
    window,      \* the progress window: "none", "open", "closed"; "missing" if it cannot start
    explorer,    \* this session has a desktop
    gatePc,      \* where the launcher, its script and the worker are
    gateFaults, sweeps

gateVars == <<builtin, kept, staged, helper, launcher, files, shell, autologon, task, sweepTask,
              session, window, explorer, gatePc, gateFaults, sweeps>>

Marker == {"pending", "completed", "gate", "released", "verified", "failed", "transition"}

Arming == {"capture", "setShell", "clearStale", "mark", "register", "autologon", "restart"}
Worker == {"authorize", "merge", "removeRoot", "receipt", "unpend", "reset", "retireLogon",
           "release", "dropTask", "explorer", "verify"}
Script == {"begin", "after", "retire", "await", "catch"}
Running == Arming \cup Worker \cup Script \cup {"launch", "decide"}

GateInit ==
    /\ builtin \in BOOLEAN
    /\ kept = "full"
    /\ staged = TRUE /\ helper = TRUE /\ launcher = TRUE
    /\ files = {"pending"}
    /\ shell = "original" /\ autologon = FALSE
    /\ task = FALSE /\ sweepTask = FALSE
    /\ session = "first" /\ window = "none" /\ explorer = FALSE
    /\ gatePc = "launch"
    /\ gateFaults = 0 /\ sweeps = 0

GateFault == gateFaults < MaxGateFaults /\ gateFaults' = gateFaults + 1

world   == <<builtin, launcher, session, window, sweeps>>
staging == <<staged, helper>>

(* Go from one step to the next.                                           *)
Step(from, to) == gatePc = from /\ gatePc' = to
Quiet == UNCHANGED <<world, staging, gateFaults>>

----------------------------------------------------------------------------
(* The launcher and its script.                                            *)

(* The launcher needs the script.  The script arms the gate at the first   *)
(* logon, and wherever the gate state is missing; otherwise it restores.   *)
Launch ==
    /\ gatePc = "launch"
    /\ gatePc' = IF ~staged THEN "exited" ELSE "begin"
    /\ UNCHANGED <<kept, files, shell, autologon, task, sweepTask, explorer>> /\ Quiet

Begin ==
    /\ gatePc = "begin"
    /\ gatePc' = IF \/ builtin /\ session = "first"
                    \/ ~builtin /\ "gate" \notin files
                 THEN IF helper THEN "capture" ELSE "catch"
                 ELSE IF helper /\ "gate" \in files THEN "authorize" ELSE "catch"
    /\ UNCHANGED <<kept, files, shell, autologon, task, sweepTask, explorer>> /\ Quiet

(* activate_personal_restore_shell_gate: the original value is saved       *)
(* before it is replaced.                                                  *)
CaptureShell ==
    /\ Step("capture", "setShell")
    /\ files' = files \cup {"gate"}
    /\ UNCHANGED <<kept, shell, autologon, task, sweepTask, explorer>> /\ Quiet

SetShell ==
    /\ Step("setShell", "clearStale")
    /\ shell' = "gate"
    /\ UNCHANGED <<kept, files, autologon, task, sweepTask, explorer>> /\ Quiet

ClearStale ==
    /\ Step("clearStale", IF builtin THEN "mark" ELSE "register")
    /\ files' = files \ {"released", "verified", "failed"}
    /\ UNCHANGED <<kept, shell, autologon, task, sweepTask, explorer>> /\ Quiet

(* begin_builtin_administrator_transition_with_personal_restore: a marker  *)
(* that is removed when the second account has taken over.                 *)
MarkTransition ==
    /\ Step("mark", "register")
    /\ files' = files \cup {"transition"}
    /\ UNCHANGED <<kept, shell, autologon, task, sweepTask, explorer>> /\ Quiet

RegisterTask ==
    /\ Step("register", "autologon")
    /\ task' = TRUE
    /\ UNCHANGED <<kept, files, shell, autologon, sweepTask, explorer>> /\ Quiet

ArmAutologon ==
    /\ Step("autologon", "restart")
    /\ autologon' = TRUE
    /\ UNCHANGED <<kept, files, shell, task, sweepTask, explorer>> /\ Quiet

(* The restart is immediate; the launcher may or may not get to register   *)
(* the sweep before it.                                                    *)
ScheduledRestart ==
    /\ gatePc = "restart"
    /\ gatePc' = "none" /\ session' = "booted" /\ explorer' = FALSE
    /\ sweepTask' \in {sweepTask, TRUE}
    /\ UNCHANGED <<builtin, kept, staging, launcher, files, shell, autologon, task,
                   window, gateFaults, sweeps>>

(* The script's handler: rearm_personal_restore_before_shell leaves the    *)
(* failure marker if the task can start another attempt.                   *)
Catch ==
    /\ Step("catch", "exited")
    /\ files' = IF "gate" \in files /\ "released" \notin files /\ helper /\ task
                  THEN files \cup {"failed"} ELSE files
    /\ UNCHANGED <<kept, shell, autologon, task, sweepTask, explorer>> /\ Quiet

----------------------------------------------------------------------------
(* The worker: restore_personal_files_before_shell.                        *)

(* Mutant: an attempt marked as failed is not tried again.                 *)
Authorize_NoRetry ==
    /\ gatePc = "authorize"
    /\ gatePc' = CASE "failed" \in files -> "workerFailed"
                   [] "failed" \notin files /\ "completed" \in files -> "unpend"
                   [] "failed" \notin files /\ "completed" \notin files /\ kept = "full" -> "merge"
                   [] OTHER -> "workerFailed"
    /\ UNCHANGED <<kept, files, shell, autologon, task, sweepTask, explorer>> /\ Quiet

(* Either marker authorizes the work; the receipt makes it clean-up only.  *)
Authorize ==
    /\ gatePc = "authorize"
    /\ gatePc' = CASE "completed" \in files -> "unpend"
                   [] "pending" \in files /\ "completed" \notin files /\ kept = "full" -> "merge"
                   [] OTHER -> "workerFailed"
    /\ UNCHANGED <<kept, files, shell, autologon, task, sweepTask, explorer>> /\ Quiet

MergeProfiles ==
    /\ Step("merge", "removeRoot")
    /\ kept' = "stripped"
    /\ UNCHANGED <<files, shell, autologon, task, sweepTask, explorer>> /\ Quiet

RemoveKeptRoot ==
    /\ Step("removeRoot", "receipt")
    /\ kept' = "none"
    /\ UNCHANGED <<files, shell, autologon, task, sweepTask, explorer>> /\ Quiet

WriteReceipt ==
    /\ Step("receipt", "unpend") /\ staged
    /\ files' = files \cup {"completed"}
    /\ UNCHANGED <<kept, shell, autologon, task, sweepTask, explorer>> /\ Quiet

RemovePending ==
    /\ Step("unpend", "reset")
    /\ files' = files \ {"pending"}
    /\ UNCHANGED <<kept, shell, autologon, task, sweepTask, explorer>> /\ Quiet

(* Mutant: the release is recorded with the automatic logon still armed.   *)
ResetShell_KeepLogon ==
    /\ Step("reset", "release")
    /\ "gate" \in files
    /\ shell' = "original"
    /\ UNCHANGED <<kept, files, autologon, task, sweepTask, explorer>> /\ Quiet

(* release_personal_restore_shell_gate: the saved value is written back,   *)
(* the automatic logon retired, and only then the release recorded.        *)
ResetShell ==
    /\ Step("reset", "retireLogon")
    /\ "gate" \in files
    /\ shell' = "original"
    /\ UNCHANGED <<kept, files, autologon, task, sweepTask, explorer>> /\ Quiet

RetireLogon ==
    /\ Step("retireLogon", "release")
    /\ autologon' = FALSE
    /\ UNCHANGED <<kept, files, shell, task, sweepTask, explorer>> /\ Quiet

RecordRelease ==
    /\ Step("release", "dropTask") /\ staged
    /\ files' = files \cup {"released"}
    /\ UNCHANGED <<kept, shell, autologon, task, sweepTask, explorer>> /\ Quiet

(* A task that cannot be deleted is only logged.                           *)
DropTask ==
    /\ Step("dropTask", "explorer")
    /\ \/ task' = FALSE /\ UNCHANGED gateFaults
       \/ GateFault /\ UNCHANGED task
    /\ UNCHANGED <<kept, files, shell, autologon, sweepTask, explorer, world, staging>>

(* start_personal_restore_explorer: both receipts, then a stable Shell     *)
(* window of this session within a minute.                                 *)
StartExplorer ==
    /\ Step("explorer", "verify")
    /\ {"completed", "released"} \subseteq files
    /\ explorer' = TRUE
    /\ UNCHANGED <<kept, files, shell, autologon, task, sweepTask>> /\ Quiet

RecordVerified ==
    /\ Step("verify", "after") /\ staged
    /\ files' = files \cup {"verified"}
    /\ UNCHANGED <<kept, shell, autologon, task, sweepTask, explorer>> /\ Quiet

(* A missing file of the staging directory fails the step that needs it,   *)
(* and any call may fail.                                                  *)
NeedsMissing ==
    \/ gatePc \in {"receipt", "release", "verify"} /\ ~staged
    \/ gatePc = "reset" /\ "gate" \notin files
    \/ gatePc = "explorer" /\ ~({"completed", "released"} \subseteq files)

WorkerError ==
    /\ gatePc \in Worker
    /\ \/ NeedsMissing /\ UNCHANGED gateFaults
       \/ ~NeedsMissing /\ GateFault
    /\ gatePc' = "workerFailed"
    /\ UNCHANGED <<kept, files, shell, autologon, task, sweepTask, explorer, world, staging>>

(* The worker marks its failure, if it still can, and the script throws.   *)
WorkerFailed ==
    /\ Step("workerFailed", "catch")
    /\ files' = IF staged THEN files \cup {"failed"} ELSE files
    /\ UNCHANGED <<kept, shell, autologon, task, sweepTask, explorer>> /\ Quiet

----------------------------------------------------------------------------
(* The rest of the script: optional software and maintenance, the          *)
(* retirement of the transition, the wait for the desktop.                 *)

After ==
    /\ gatePc = "after"
    /\ gatePc' = IF "released" \notin files THEN "catch" ELSE IF builtin THEN "retire" ELSE "await"
    /\ UNCHANGED <<kept, files, shell, autologon, task, sweepTask, explorer>> /\ Quiet

RetireTransition ==
    /\ Step("retire", "await")
    /\ autologon' = FALSE
    /\ files' = files \ {"transition"}
    /\ UNCHANGED <<kept, shell, task, sweepTask, explorer>> /\ Quiet

AwaitVerified ==
    /\ gatePc = "await"
    /\ gatePc' = IF "verified" \in files THEN "decide" ELSE "catch"
    /\ UNCHANGED <<kept, files, shell, autologon, task, sweepTask, explorer>> /\ Quiet

ScriptError ==
    /\ gatePc \in Arming \cup {"begin", "after", "retire"}
    /\ GateFault
    /\ gatePc' = "catch"
    /\ UNCHANGED <<kept, files, shell, autologon, task, sweepTask, explorer, world, staging>>

(* rd /s /q removes what is not a running program.                         *)
HelperRuns == window = "open" \/ gatePc \in Worker \cup Arming \cup {"workerFailed"}
RemoveStaging ==
    /\ files' = {} /\ staged' = FALSE
    /\ helper' = (helper /\ HelperRuns)

(* The launcher after a successful script: staging that is still needed is *)
(* left to the sweep, otherwise it is removed with the launcher itself.    *)
Deferred ==
    \/ "transition" \in files
    \/ "pending" \in files
    \/ "gate" \in files /\ ~({"completed", "verified"} \subseteq files)

Decide ==
    /\ gatePc = "decide" /\ gatePc' = "exited"
    /\ IF Deferred
         THEN sweepTask' = TRUE /\ UNCHANGED <<files, staged, helper, launcher>>
         ELSE /\ RemoveStaging
              /\ IF helper' THEN sweepTask' = TRUE /\ UNCHANGED launcher
                            ELSE launcher' = FALSE /\ UNCHANGED sweepTask
    /\ UNCHANGED <<builtin, kept, shell, autologon, task, session, window,
                   explorer, gateFaults, sweeps>>

Finalizer ==
    \/ Launch \/ Begin \/ CaptureShell \/ SetShell \/ ClearStale \/ MarkTransition
    \/ RegisterTask \/ ArmAutologon \/ ScheduledRestart \/ Catch
    \/ Authorize \/ MergeProfiles \/ RemoveKeptRoot \/ WriteReceipt \/ RemovePending
    \/ ResetShell \/ RetireLogon \/ RecordRelease \/ DropTask \/ StartExplorer
    \/ RecordVerified \/ WorkerError \/ WorkerFailed \/ After \/ RetireTransition
    \/ AwaitVerified \/ ScriptError \/ Decide

----------------------------------------------------------------------------
(* Mutant: the sweep ignores the pending marker.                           *)
SweepAllowed_Pending ==
    /\ "transition" \notin files
    /\ "failed" \in files \/ ~("gate" \in files /\ "completed" \notin files)

(* The scheduled sweep: it keeps away from unfinished work, or from what   *)
(* it takes for that.                                                      *)
SweepAllowed ==
    /\ "transition" \notin files
    /\ "pending" \notin files
    /\ "failed" \in files \/ ~("gate" \in files /\ "completed" \notin files)

Sweep ==
    /\ sweepTask /\ launcher /\ sweeps < MaxSweeps
    /\ sweeps' = sweeps + 1
    /\ SweepAllowed
    /\ RemoveStaging
    /\ IF helper' THEN UNCHANGED <<launcher, sweepTask>>
                  ELSE launcher' = FALSE /\ sweepTask' = FALSE
    /\ UNCHANGED <<builtin, kept, shell, autologon, task, session, window,
                   explorer, gatePc, gateFaults>>

(* The progress window closes when it reads all three receipts; a failure  *)
(* marker comes first and is never taken back.                             *)
Poll ==
    /\ window = "open"
    /\ "failed" \notin files
    /\ {"completed", "released", "verified"} \subseteq files
    /\ window' = "closed"
    /\ UNCHANGED <<builtin, kept, staging, launcher, files, shell, autologon, task, sweepTask,
                   session, explorer, gatePc, gateFaults, sweeps>>

----------------------------------------------------------------------------
(* Winlogon starts the Shell value and the logon task.                     *)
Logon ==
    /\ session = "booted" /\ session' = "later"
    /\ explorer' = (shell = "original")
    /\ window' = CASE shell = "original" -> "none"
                   [] shell = "gate" /\ helper /\ "gate" \in files -> "open"
                   [] OTHER -> "missing"
    /\ gatePc' = IF task /\ launcher THEN "launch" ELSE "none"
    /\ UNCHANGED <<builtin, kept, staging, launcher, files, shell, autologon, task,
                   sweepTask, gateFaults, sweeps>>

Reboot ==
    /\ session' = "booted" /\ window' = "none" /\ explorer' = FALSE /\ gatePc' = "none"
    /\ UNCHANGED <<builtin, kept, staging, launcher, files, shell, autologon, task,
                   sweepTask, sweeps>>

GatePowerLoss == session # "booted" /\ GateFault /\ Reboot

(* The failure page asks for a restart; the first session ends some day.   *)
UserRestarts ==
    /\ session # "booted" /\ gatePc = "exited" /\ ~explorer
    /\ Reboot
    /\ UNCHANGED gateFaults

GateNext == Finalizer \/ Sweep \/ Poll \/ Logon \/ GatePowerLoss \/ UserRestarts

(* Programs that run go on, the window's timer ticks, and somebody logs on *)
(* and restarts when asked to.  The sweep and the faults are not assumed.  *)
Fairness ==
    /\ WF_gateVars(Finalizer) /\ WF_gateVars(Poll)
    /\ WF_gateVars(Logon) /\ WF_gateVars(UserRestarts)
GateSpec == GateInit /\ [][GateNext]_gateVars /\ Fairness

----------------------------------------------------------------------------

(* Every receipt is true whatever failed before it: the completion receipt *)
(* means that the preservation root is gone, the release that the Shell    *)
(* value and the automatic logon are back to normal, and the verification  *)
(* comes after both.  Behind the gate nobody sees a desktop before the     *)
(* files are restored.                                                     *)
ReceiptsTruthful ==
    /\ "completed" \in files => kept = "none"
    /\ "released" \in files => "completed" \in files /\ shell = "original" /\ ~autologon
    /\ "verified" \in files => "released" \in files
    /\ window # "none" /\ explorer => kept = "none"

(* While files are preserved, the launcher, the scripts, the helper and    *)
(* the pending marker that restore them stay: neither the launcher's       *)
(* clean-up nor the sweep removes them, however attempts fail.  For the    *)
(* built-in Administrator the saved Shell value is there as long as the    *)
(* gate is in place: the transition marker keeps the sweep away.           *)
MachineryKept ==
    /\ kept = "full" => staged /\ helper /\ launcher /\ "pending" \in files
    /\ builtin /\ shell = "gate" => "gate" \in files /\ helper

(* Once the logon task exists, the files of the old profiles get back,     *)
(* however often an attempt fails or power is lost.                        *)
FilesGetBack == (task /\ kept = "full") ~> (kept # "full")

=============================================================================
