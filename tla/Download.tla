------------------------------ MODULE Download ------------------------------
(***************************************************************************)
(* A download on the Windows side, from the click to what is started with  *)
(* the file: the main window (native_ui/window.rs), the worker thread      *)
(* (core/native_download_executor.rs) and the aria2 daemon it starts       *)
(* (download/aria2.rs).                                                    *)
(*                                                                         *)
(* The window sends a cancellation through one channel, the worker reads   *)
(* it once per round of its polling loop and answers through another; the  *)
(* window reads the answers on a timer.  A download may carry an intent    *)
(* (an installation, say) that the window starts when the answer is        *)
(* Completed.  Closing the window during a download only asks for a        *)
(* cancellation; the window goes once nothing runs any more.               *)
(*                                                                         *)
(* Pause and Resume, which the worker understands, are never sent, and a   *)
(* progress message changes nothing that is modelled here.                 *)
(***************************************************************************)
EXTENDS Naturals, Sequences, SequencesExt

CONSTANTS
    MaxDownloads,      \* downloads in a behaviour
    MaxStatusErrors    \* 8 in the code

ASSUME BoundAssumption == MaxDownloads \in Nat \ {0} /\ MaxStatusErrors \in Nat \ {0}

None == 0
Id   == 1..MaxDownloads

VARIABLES
    \* the worker threads and their daemons
    pc,          \* where each worker is
    cancelSent,  \* a Cancel waits in its command channel
    messages,    \* its message channel
    errors,      \* status_errors
    daemon,      \* its aria2 process runs
    transfer,    \* "none", "active", "complete" or "error"
    file,        \* "absent", "partial", "good", or "bad": not what the hash promises
    required,    \* the plan has a hash
    \* the window
    count,       \* downloads started; the last one is shown
    current,     \* download_worker
    status,      \* of the progress page, "none" when it is not shown
    cancellable,
    pending,     \* the download whose completion starts an intent
    followUp,    \* the download whose file is offered to the user
    job,         \* the download whose intent runs
    used,        \* downloads whose file was opened or installed from
    closing,     \* close_after_task
    window,      \* "open" or "closed"
    \* history
    cancelled,   \* downloads the user asked to cancel
    started      \* downloads whose intent the window started by itself

worker == <<pc, cancelSent, messages, errors, daemon, transfer, file, required>>
page   == <<count, current, status, cancellable, pending, followUp>>
task   == <<job, used, closing, window, started>>
vars   == <<worker, page, task, cancelled>>

Init ==
    /\ pc = [d \in Id |-> "idle"] /\ cancelSent = [d \in Id |-> FALSE]
    /\ messages = [d \in Id |-> <<>>] /\ errors = [d \in Id |-> 0]
    /\ daemon = [d \in Id |-> FALSE] /\ transfer = [d \in Id |-> "none"]
    /\ file = [d \in Id |-> "absent"] /\ required = [d \in Id |-> FALSE]
    /\ count = 0 /\ current = None /\ status = "none" /\ cancellable = FALSE
    /\ pending = None /\ followUp = None
    /\ job = None /\ used = {} /\ closing = FALSE /\ window = "open"
    /\ cancelled = {} /\ started = {}

----------------------------------------------------------------------------
(* The worker                                                              *)

To(d, l)   == pc' = [pc EXCEPT ![d] = l]
Send(d, m) == messages' = [messages EXCEPT ![d] = Append(@, m)]
Kill(d)    == daemon' = [daemon EXCEPT ![d] = FALSE]
Quiet      == UNCHANGED <<page, task, cancelled>>

(* All daemons listen on one port with secrets of their own: while another *)
(* one runs, this one is not reached.  A daemon that was started but could *)
(* not be reached is not killed.                                           *)
Begin(d) ==
    /\ pc[d] = "begin"
    /\ \/ /\ \A e \in Id : ~daemon[e]
          /\ daemon' = [daemon EXCEPT ![d] = TRUE]
          /\ To(d, "add") /\ UNCHANGED messages
       \/ /\ daemon' \in {daemon, [daemon EXCEPT ![d] = TRUE]}
          /\ To(d, "done") /\ Send(d, "Failed")
    /\ UNCHANGED <<cancelSent, errors, transfer, file, required>> /\ Quiet

AddDownload(d) ==
    /\ pc[d] = "add"
    /\ \/ /\ transfer' = [transfer EXCEPT ![d] = "active"]
          /\ file' = [file EXCEPT ![d] = "partial"]
          /\ To(d, "commands") /\ UNCHANGED messages
       \/ Send(d, "Failed") /\ To(d, "shutdown") /\ UNCHANGED <<transfer, file>>
    /\ UNCHANGED <<cancelSent, errors, daemon, required>> /\ Quiet

(* A cancellation ends the daemon first and is answered then.              *)
ReadCommands(d) ==
    /\ pc[d] = "commands"
    /\ IF cancelSent[d]
         THEN /\ cancelSent' = [cancelSent EXCEPT ![d] = FALSE]
              /\ Kill(d) /\ Send(d, "Cancelled") /\ To(d, "done")
         ELSE To(d, "status") /\ UNCHANGED <<cancelSent, daemon, messages>>
    /\ UNCHANGED <<errors, transfer, file, required>> /\ Quiet

(* Mutant: the count does not survive a round of the loop.                 *)
StatusError_Reset(d) ==
    /\ pc[d] = "status"
    /\ errors' = [errors EXCEPT ![d] = 1]
    /\ To(d, "commands")
    /\ UNCHANGED <<cancelSent, messages, daemon, transfer, file, required>> /\ Quiet

(* A query that fails, as it always does once the daemon is gone, is       *)
(* counted; a success starts the count again.                              *)
StatusError(d) ==
    /\ pc[d] = "status"
    /\ errors' = [errors EXCEPT ![d] = @ + 1]
    /\ IF errors'[d] >= MaxStatusErrors
         THEN Send(d, "Failed") /\ To(d, "shutdown")
         ELSE To(d, "commands") /\ UNCHANGED messages
    /\ UNCHANGED <<cancelSent, daemon, transfer, file, required>> /\ Quiet

StatusOk(d) ==
    /\ pc[d] = "status" /\ daemon[d]
    /\ errors' = [errors EXCEPT ![d] = 0]
    /\ CASE transfer[d] = "error"    -> Send(d, "Failed") /\ To(d, "shutdown") /\ UNCHANGED daemon
         [] transfer[d] = "complete" -> Kill(d) /\ To(d, "finish") /\ UNCHANGED messages
         [] OTHER                    -> To(d, "commands") /\ UNCHANGED <<daemon, messages>>
    /\ UNCHANGED <<cancelSent, transfer, file, required>> /\ Quiet

Shutdown(d) ==
    /\ pc[d] = "shutdown"
    /\ Kill(d) /\ To(d, "done")
    /\ UNCHANGED <<cancelSent, messages, errors, transfer, file, required>> /\ Quiet

Finish(d) ==
    /\ pc[d] = "finish"
    /\ IF required[d] THEN Send(d, "Verifying") /\ To(d, "verify")
                      ELSE Send(d, "Completed") /\ To(d, "done")
    /\ UNCHANGED <<cancelSent, errors, daemon, transfer, file, required>> /\ Quiet

(* Mutant: a rejected file is removed, but the download counts as complete. *)
Verify_Ignore(d) ==
    /\ pc[d] = "verify"
    /\ file' \in {file, [file EXCEPT ![d] = "absent"]}
    /\ Send(d, "Completed") /\ To(d, "done")
    /\ UNCHANGED <<cancelSent, errors, daemon, transfer, required>> /\ Quiet

(* A file that does not match or cannot be read is removed, if possible.   *)
Verify(d) ==
    /\ pc[d] = "verify"
    /\ \/ file[d] = "good" /\ Send(d, "Completed") /\ UNCHANGED file
       \/ file' \in {file, [file EXCEPT ![d] = "absent"]} /\ Send(d, "Failed")
    /\ To(d, "done")
    /\ UNCHANGED <<cancelSent, errors, daemon, transfer, required>> /\ Quiet

----------------------------------------------------------------------------
(* aria2                                                                   *)

Transfer(d) ==
    /\ daemon[d] /\ transfer[d] = "active"
    /\ \/ transfer' = [transfer EXCEPT ![d] = "complete"]
          /\ \E c \in {"good", "bad"} : file' = [file EXCEPT ![d] = c]
       \/ transfer' = [transfer EXCEPT ![d] = "error"] /\ UNCHANGED file
    /\ UNCHANGED <<pc, cancelSent, messages, errors, daemon, required>> /\ Quiet

DaemonDies(d) ==
    /\ daemon[d] /\ Kill(d)
    /\ UNCHANGED <<pc, cancelSent, messages, errors, transfer, file, required>> /\ Quiet

----------------------------------------------------------------------------
(* The window                                                              *)

Busy == current # None \/ job # None      \* has_active_long_task

(* The intent is recorded once the worker runs; a plain download leaves    *)
(* whatever is recorded alone.                                             *)
StartDownload ==
    /\ window = "open" /\ ~Busy /\ status = "none" /\ count < MaxDownloads
    /\ count' = count + 1 /\ current' = count'
    /\ status' = "Running" /\ cancellable' = TRUE
    /\ pending' \in {pending, count'}
    /\ \E r \in BOOLEAN : required' = [required EXCEPT ![count'] = r]
    /\ To(count', "begin")
    /\ UNCHANGED <<cancelSent, messages, errors, daemon, transfer, file, followUp, task, cancelled>>

AskCancel ==
    /\ cancelSent' = [cancelSent EXCEPT ![current] = TRUE]
    /\ cancelled' = cancelled \cup {current}

PressCancel ==
    /\ window = "open" /\ current # None /\ cancellable
    /\ AskCancel
    /\ status' = "Cancelling" /\ cancellable' = FALSE
    /\ UNCHANGED <<pc, messages, errors, daemon, transfer, file, required,
                   count, current, pending, followUp, task>>

(* Mutant: closing waits for the download instead of cancelling it.        *)
CloseWindow_NoCancel ==
    /\ window = "open" /\ ~closing /\ Busy
    /\ closing' = TRUE /\ cancellable' = FALSE
    /\ UNCHANGED <<worker, count, current, status, pending, followUp,
                   job, used, started, window, cancelled>>

(* WM_CLOSE; request_safe_close asks once.                                 *)
CloseWindow ==
    /\ window = "open" /\ ~closing
    /\ IF Busy
         THEN /\ closing' = TRUE /\ UNCHANGED window
              /\ IF current # None THEN AskCancel ELSE UNCHANGED <<cancelSent, cancelled>>
              /\ status' = IF cancellable THEN "Cancelling" ELSE status
              /\ cancellable' = FALSE
         ELSE window' = "closed" /\ UNCHANGED <<closing, cancelSent, cancelled, status, cancellable>>
    /\ UNCHANGED <<pc, messages, errors, daemon, transfer, file, required,
                   count, current, pending, followUp, job, used, started>>

(* The check at the end of every timer message.                            *)
CloseIfIdle(busy) == window' = IF closing /\ ~busy THEN "closed" ELSE window

(* Mutant: a failed download keeps its intent.                             *)
Poll_KeepIntent ==
    /\ window = "open" /\ current # None /\ messages[current] # <<>>
    /\ messages' = [messages EXCEPT ![current] = <<>>]
    /\ status' = Last(messages[current]) /\ current' = None
    /\ cancellable' = FALSE /\ followUp' = None /\ CloseIfIdle(FALSE)
    /\ UNCHANGED <<pc, cancelSent, errors, daemon, transfer, file, required,
                   count, pending, job, used, closing, started, cancelled>>

(* poll_download_messages: the timer reads the whole channel, up to an     *)
(* answer that ends the download.  Completion starts the intent, which may *)
(* be refused, or offers the file; every other end forgets the intent.     *)
Poll ==
    /\ window = "open" /\ current # None /\ messages[current] # <<>>
    /\ messages' = [messages EXCEPT ![current] = <<>>]
    /\ LET answer == Last(messages[current])
       IN  IF answer = "Verifying"
             THEN cancellable' = FALSE
                  /\ UNCHANGED <<current, status, pending, followUp, job, used, started, window>>
             ELSE /\ status' = IF answer = "Completed" THEN "Succeeded" ELSE answer
                  /\ cancellable' = FALSE /\ current' = None /\ pending' = None
                  /\ IF answer = "Completed" /\ pending # None
                       THEN \/ job' = pending /\ started' = started \cup {pending}
                               /\ used' = used \cup {current}
                            \/ UNCHANGED <<job, started, used>>
                       ELSE UNCHANGED <<job, started, used>>
                  /\ followUp' \in (IF answer = "Completed" /\ job' = None THEN {current, None} ELSE {None})
                  /\ CloseIfIdle(job' # None)
    /\ UNCHANGED <<pc, cancelSent, errors, daemon, transfer, file, required, count, closing, cancelled>>

(* The user goes on with the file that is offered, or leaves the page.     *)
LeavePage ==
    /\ window = "open" /\ ~Busy /\ status \in {"Succeeded", "Cancelled", "Failed"}
    /\ \/ followUp # None /\ used' = used \cup {followUp}
       \/ UNCHANGED used
    /\ status' = "none" /\ followUp' = None
    /\ UNCHANGED <<worker, count, current, cancellable, pending, job, closing, window, started, cancelled>>

(* The installation, backup or expansion that was started ends.            *)
JobEnds ==
    /\ window = "open" /\ job # None
    /\ job' = None /\ CloseIfIdle(FALSE)
    /\ UNCHANGED <<worker, page, used, closing, started, cancelled>>

----------------------------------------------------------------------------

(* The process, and with it every worker, ends with the window.            *)
Work(d) ==
    /\ window = "open"
    /\ \/ Begin(d) \/ AddDownload(d) \/ ReadCommands(d) \/ StatusError(d) \/ StatusOk(d)
       \/ Shutdown(d) \/ Finish(d) \/ Verify(d)

Next ==
    \/ \E d \in Id : Work(d) \/ (window = "open" /\ (Transfer(d) \/ DaemonDies(d)))
    \/ StartDownload \/ PressCancel \/ CloseWindow \/ Poll \/ LeavePage \/ JobEnds

(* Threads are scheduled, the timer fires and calls into aria2 time out; a *)
(* started job ends.  Nothing is assumed of transfers or of the user.      *)
Fairness == (\A d \in Id : WF_vars(Work(d))) /\ WF_vars(Poll) /\ WF_vars(JobEnds)

Spec == Init /\ [][Next]_vars /\ Fairness

----------------------------------------------------------------------------
(* Properties                                                              *)

(* What the page says at the end is true: success means a complete file    *)
(* that matches its hash if there is one; after a cancellation or failure  *)
(* nothing was opened or installed from it ("未执行下载后的安装或打开操作"). *)
OutcomeTruthful ==
    /\ status = "Succeeded" =>
          file[count] \in {"good", "bad"} /\ (required[count] => file[count] = "good")
    /\ status \in {"Cancelled", "Failed"} => count \notin used /\ job # count
    /\ \A d \in used : required[d] => file[d] = "good"

(* An intent never outlives its download: a later, unrelated download that *)
(* completes cannot start an installation whose own download had failed or *)
(* had been cancelled.                                                     *)
IntentOfItsDownload ==
    /\ pending # None => pending = current
    /\ started \subseteq used

(* A download that the user cancelled, or whose aria2 process died, comes  *)
(* to an end that the window shows, however queries fail in between.       *)
SessionEnds ==
    \A d \in Id : (d \in cancelled \/ (transfer[d] # "none" /\ ~daemon[d])) ~> current # d

(* After the user asked to close it, the window closes.                    *)
WindowCloses == closing ~> (window = "closed")
=============================================================================
