--------------------------- MODULE DownloadProofs ---------------------------
(***************************************************************************)
(* Proofs about downloads: for any number of them and any limit of status  *)
(* errors the page tells the truth about the file, and an intent belongs   *)
(* to the download that is running.                                        *)
(***************************************************************************)
EXTENDS Download, TLAPS

Message == {"Verifying", "Completed", "Failed", "Cancelled"}
Point   == {"idle", "begin", "add", "commands", "status", "shutdown", "finish", "verify", "done"}

TypeInv ==
    /\ pc \in [Id -> Point]
    /\ messages \in [Id -> Seq(Message)]
    /\ transfer \in [Id -> {"none", "active", "complete", "error"}]
    /\ file \in [Id -> {"absent", "partial", "good", "bad"}]
    /\ required \in [Id -> BOOLEAN]
    /\ count \in 0..MaxDownloads
    /\ current \in {None, count}
    /\ status \in {"none", "Running", "Cancelling", "Succeeded", "Failed", "Cancelled"}

(* The download's file is whole, and nothing touches it any more.          *)
Delivered(d) ==
    /\ d \in 1..count
    /\ pc[d] = "done" /\ transfer[d] = "complete"
    /\ file[d] \in {"good", "bad"} /\ (required[d] => file[d] = "good")

(* What a worker says is so.                                               *)
WorkerOk(d) ==
    /\ d > count => pc[d] = "idle" /\ messages[d] = <<>>
    /\ pc[d] \in {"finish", "verify"} => transfer[d] = "complete"
    /\ transfer[d] = "complete" /\ pc[d] # "done" => file[d] \in {"good", "bad"}
    /\ messages[d] # <<>> /\ Last(messages[d]) = "Completed" => Delivered(d)

WorkerInv == \A d \in Id : WorkerOk(d)

(* What the window has made of it.                                         *)
WindowInv ==
    /\ status = "Succeeded" => Delivered(count)
    /\ followUp # None => followUp = count /\ status = "Succeeded"
    /\ \A d \in used : Delivered(d)
    /\ job # None => job \in used
    /\ current # None \/ status \in {"Cancelled", "Failed"} => count \notin used
    /\ cancellable => current # None
    /\ current # None => status \in {"Running", "Cancelling"}
    /\ status # "none" => count # 0

IInv == TypeInv /\ WorkerInv /\ WindowInv /\ IntentOfItsDownload

----------------------------------------------------------------------------

(* A message sent is the last one in its channel.                          *)
LEMMA SendFacts ==
    ASSUME messages \in [Id -> Seq(Message)], NEW d \in Id, NEW m \in Message, Send(d, m)
    PROVE  /\ messages' \in [Id -> Seq(Message)]
           /\ messages'[d] # <<>> /\ Last(messages'[d]) = m
           /\ \A e \in Id : e # d => messages'[e] = messages[e]
<1>1. messages'[d] = Append(messages[d], m)
  BY DEF Send
<1>2. /\ Append(messages[d], m) \in Seq(Message)
      /\ Len(Append(messages[d], m)) = Len(messages[d]) + 1
      /\ Append(messages[d], m)[Len(messages[d]) + 1] = m
      /\ Len(messages[d]) \in Nat
  OBVIOUS
<1>3. messages'[d] # <<>>
  BY <1>1, <1>2
<1>4. Last(messages'[d]) = m
  BY <1>1, <1>2 DEF Last
<1> QED
  BY <1>1, <1>2, <1>3, <1>4 DEF Send

(* The last message of a channel that is not empty.                        *)
LEMMA LastFacts ==
    ASSUME NEW s \in Seq(Message), s # <<>>
    PROVE  Last(s) \in Message
  BY DEF Last

(* Nothing has been downloaded yet.                                        *)
LEMMA InitIInv == Init => IInv
  BY BoundAssumption DEF Init, IInv, TypeInv, WorkerInv, WorkerOk, WindowInv,
      IntentOfItsDownload, Delivered,
         Message, Point, Id, None

(* Every step of a worker, of aria2, of the window and of the user         *)
(* preserves the invariant.                                                *)
LEMMA NextIInv == IInv /\ [Next]_vars => IInv'
<1> SUFFICES ASSUME IInv, [Next]_vars PROVE IInv'
  OBVIOUS
<1> USE DEF IInv, worker, page, task, None, Id
<1>1. ASSUME NEW d \in Id, Begin(d) PROVE IInv'
  <2>a. ASSUME NEW m \in Message, Send(d, m)
        PROVE  /\ messages' \in [Id -> Seq(Message)]
               /\ messages'[d] # <<>> /\ Last(messages'[d]) = m
               /\ \A e \in Id : e # d => messages'[e] = messages[e]
    BY <2>a, SendFacts DEF TypeInv
  <2>c. pc[d] \notin {"idle", "done"} /\ d <= count
    BY <1>1, BoundAssumption DEF Begin, TypeInv, WorkerInv, WorkerOk
  <2>e. \A e \in Id : e # d => messages'[e] = messages[e] /\ pc'[e] = pc[e]
    BY <1>1 DEF Begin, To, Kill, Quiet, Send, TypeInv
  <2>f. /\ count' = count /\ required' = required
        /\ \A e \in Id : e # d => transfer'[e] = transfer[e] /\ file'[e] = file[e]
    BY <1>1 DEF Begin, Quiet, TypeInv
  <2>g. \A e : Delivered(e) => Delivered(e)'
    BY <2>c, <2>e, <2>f, BoundAssumption DEF TypeInv, Delivered
  <2>1. TypeInv'
    BY <1>1, BoundAssumption, <2>a DEF Begin, To, Kill, Quiet, TypeInv, Message, Point
  <2>2. WorkerInv'
    <3> SUFFICES ASSUME NEW e \in Id PROVE WorkerOk(e)'
      BY DEF WorkerInv
    <3>1. CASE e # d
      BY <3>1, <2>e, <2>f, <2>g DEF WorkerInv, WorkerOk
    <3>2. CASE e = d
      BY <1>1, <3>2, <2>a, <2>c, <2>f, <2>g, BoundAssumption
      DEF Begin, To, Kill, Quiet, Message, TypeInv, WorkerInv, WorkerOk, Delivered
    <3> QED
      BY <3>1, <3>2
  <2>3. WindowInv'
    BY <1>1, <2>g DEF Begin, To, Kill, Quiet, WindowInv
  <2>4. IntentOfItsDownload'
    BY <1>1, BoundAssumption, <2>a DEF Begin, To, Kill, Quiet, TypeInv, WindowInv,
        IntentOfItsDownload
  <2> QED
    BY <2>1, <2>2, <2>3, <2>4 DEF IInv
<1>2. ASSUME NEW d \in Id, AddDownload(d) PROVE IInv'
  <2>a. ASSUME NEW m \in Message, Send(d, m)
        PROVE  /\ messages' \in [Id -> Seq(Message)]
               /\ messages'[d] # <<>> /\ Last(messages'[d]) = m
               /\ \A e \in Id : e # d => messages'[e] = messages[e]
    BY <2>a, SendFacts DEF TypeInv
  <2>c. pc[d] \notin {"idle", "done"} /\ d <= count
    BY <1>2, BoundAssumption DEF AddDownload, TypeInv, WorkerInv, WorkerOk
  <2>e. \A e \in Id : e # d => messages'[e] = messages[e] /\ pc'[e] = pc[e]
    BY <1>2 DEF AddDownload, To, Kill, Quiet, Send, TypeInv
  <2>f. /\ count' = count /\ required' = required
        /\ \A e \in Id : e # d => transfer'[e] = transfer[e] /\ file'[e] = file[e]
    BY <1>2 DEF AddDownload, Quiet, TypeInv
  <2>g. \A e : Delivered(e) => Delivered(e)'
    BY <2>c, <2>e, <2>f, BoundAssumption DEF TypeInv, Delivered
  <2>1. TypeInv'
    BY <1>2, BoundAssumption, <2>a DEF AddDownload, To, Kill, Quiet, TypeInv, Message, Point
  <2>2. WorkerInv'
    <3> SUFFICES ASSUME NEW e \in Id PROVE WorkerOk(e)'
      BY DEF WorkerInv
    <3>1. CASE e # d
      BY <3>1, <2>e, <2>f, <2>g DEF WorkerInv, WorkerOk
    <3>2. CASE e = d
      <4>1. CASE transfer' = [transfer EXCEPT ![d] = "active"] /\ To(d, "commands") /\ UNCHANGED messages
        BY <3>2, <4>1, <2>c, <2>f, <2>g DEF To, TypeInv, WorkerInv, WorkerOk
      <4>2. CASE Send(d, "Failed") /\ To(d, "shutdown") /\ UNCHANGED <<transfer, file>>
        BY <3>2, <4>2, <2>a, <2>c, <2>f DEF To, Message, TypeInv, WorkerInv, WorkerOk
      <4> QED
        BY <1>2, <4>1, <4>2 DEF AddDownload
    <3> QED
      BY <3>1, <3>2
  <2>3. WindowInv'
    BY <1>2, <2>g DEF AddDownload, To, Kill, Quiet, WindowInv
  <2>4. IntentOfItsDownload'
    BY <1>2, BoundAssumption, <2>a DEF AddDownload, To, Kill, Quiet, TypeInv, WindowInv,
        IntentOfItsDownload
  <2> QED
    BY <2>1, <2>2, <2>3, <2>4 DEF IInv
<1>3. ASSUME NEW d \in Id, ReadCommands(d) PROVE IInv'
  <2>a. ASSUME NEW m \in Message, Send(d, m)
        PROVE  /\ messages' \in [Id -> Seq(Message)]
               /\ messages'[d] # <<>> /\ Last(messages'[d]) = m
               /\ \A e \in Id : e # d => messages'[e] = messages[e]
    BY <2>a, SendFacts DEF TypeInv
  <2>c. pc[d] \notin {"idle", "done"} /\ d <= count
    BY <1>3, BoundAssumption DEF ReadCommands, TypeInv, WorkerInv, WorkerOk
  <2>e. \A e \in Id : e # d => messages'[e] = messages[e] /\ pc'[e] = pc[e]
    BY <1>3 DEF ReadCommands, To, Kill, Quiet, Send, TypeInv
  <2>f. /\ count' = count /\ required' = required
        /\ \A e \in Id : e # d => transfer'[e] = transfer[e] /\ file'[e] = file[e]
    BY <1>3 DEF ReadCommands, Quiet, TypeInv
  <2>g. \A e : Delivered(e) => Delivered(e)'
    BY <2>c, <2>e, <2>f, BoundAssumption DEF TypeInv, Delivered
  <2>1. TypeInv'
    BY <1>3, BoundAssumption, <2>a DEF ReadCommands, To, Kill, Quiet, TypeInv, Message, Point
  <2>2. WorkerInv'
    <3> SUFFICES ASSUME NEW e \in Id PROVE WorkerOk(e)'
      BY DEF WorkerInv
    <3>1. CASE e # d
      BY <3>1, <2>e, <2>f, <2>g DEF WorkerInv, WorkerOk
    <3>2. CASE e = d
      BY <1>3, <3>2, <2>a, <2>c, <2>f, <2>g, BoundAssumption
      DEF ReadCommands, To, Kill, Quiet, Message, TypeInv, WorkerInv, WorkerOk, Delivered
    <3> QED
      BY <3>1, <3>2
  <2>3. WindowInv'
    BY <1>3, <2>g DEF ReadCommands, To, Kill, Quiet, WindowInv
  <2>4. IntentOfItsDownload'
    BY <1>3, BoundAssumption, <2>a DEF ReadCommands, To, Kill, Quiet, TypeInv, WindowInv,
        IntentOfItsDownload
  <2> QED
    BY <2>1, <2>2, <2>3, <2>4 DEF IInv
<1>4. ASSUME NEW d \in Id, StatusError(d) PROVE IInv'
  <2>a. ASSUME NEW m \in Message, Send(d, m)
        PROVE  /\ messages' \in [Id -> Seq(Message)]
               /\ messages'[d] # <<>> /\ Last(messages'[d]) = m
               /\ \A e \in Id : e # d => messages'[e] = messages[e]
    BY <2>a, SendFacts DEF TypeInv
  <2>c. pc[d] \notin {"idle", "done"} /\ d <= count
    BY <1>4, BoundAssumption DEF StatusError, TypeInv, WorkerInv, WorkerOk
  <2>e. \A e \in Id : e # d => messages'[e] = messages[e] /\ pc'[e] = pc[e]
    BY <1>4 DEF StatusError, To, Kill, Quiet, Send, TypeInv
  <2>f. /\ count' = count /\ required' = required
        /\ \A e \in Id : e # d => transfer'[e] = transfer[e] /\ file'[e] = file[e]
    BY <1>4 DEF StatusError, Quiet, TypeInv
  <2>g. \A e : Delivered(e) => Delivered(e)'
    BY <2>c, <2>e, <2>f, BoundAssumption DEF TypeInv, Delivered
  <2>1. TypeInv'
    BY <1>4, BoundAssumption, <2>a DEF StatusError, To, Kill, Quiet, TypeInv, Message, Point
  <2>2. WorkerInv'
    <3> SUFFICES ASSUME NEW e \in Id PROVE WorkerOk(e)'
      BY DEF WorkerInv
    <3>1. CASE e # d
      BY <3>1, <2>e, <2>f, <2>g DEF WorkerInv, WorkerOk
    <3>2. CASE e = d
      BY <1>4, <3>2, <2>a, <2>c, <2>f, <2>g, BoundAssumption
      DEF StatusError, To, Kill, Quiet, Message, TypeInv, WorkerInv, WorkerOk, Delivered
    <3> QED
      BY <3>1, <3>2
  <2>3. WindowInv'
    BY <1>4, <2>g DEF StatusError, To, Kill, Quiet, WindowInv
  <2>4. IntentOfItsDownload'
    BY <1>4, BoundAssumption, <2>a DEF StatusError, To, Kill, Quiet, TypeInv, WindowInv,
        IntentOfItsDownload
  <2> QED
    BY <2>1, <2>2, <2>3, <2>4 DEF IInv
<1>5. ASSUME NEW d \in Id, StatusOk(d) PROVE IInv'
  <2>a. ASSUME NEW m \in Message, Send(d, m)
        PROVE  /\ messages' \in [Id -> Seq(Message)]
               /\ messages'[d] # <<>> /\ Last(messages'[d]) = m
               /\ \A e \in Id : e # d => messages'[e] = messages[e]
    BY <2>a, SendFacts DEF TypeInv
  <2>c. pc[d] \notin {"idle", "done"} /\ d <= count
    BY <1>5, BoundAssumption DEF StatusOk, TypeInv, WorkerInv, WorkerOk
  <2>e. \A e \in Id : e # d => messages'[e] = messages[e] /\ pc'[e] = pc[e]
    BY <1>5 DEF StatusOk, To, Kill, Quiet, Send, TypeInv
  <2>f. /\ count' = count /\ required' = required
        /\ \A e \in Id : e # d => transfer'[e] = transfer[e] /\ file'[e] = file[e]
    BY <1>5 DEF StatusOk, Quiet, TypeInv
  <2>g. \A e : Delivered(e) => Delivered(e)'
    BY <2>c, <2>e, <2>f, BoundAssumption DEF TypeInv, Delivered
  <2>1. TypeInv'
    BY <1>5, BoundAssumption, <2>a DEF StatusOk, To, Kill, Quiet, TypeInv, Message, Point
  <2>2. WorkerInv'
    <3> SUFFICES ASSUME NEW e \in Id PROVE WorkerOk(e)'
      BY DEF WorkerInv
    <3>1. CASE e # d
      BY <3>1, <2>e, <2>f, <2>g DEF WorkerInv, WorkerOk
    <3>2. CASE e = d
      <4>1. CASE transfer[d] = "error"
        <5>1. Send(d, "Failed") /\ To(d, "shutdown") /\ UNCHANGED <<transfer, file>>
          BY <1>5, <4>1 DEF StatusOk
        <5> QED
          BY <3>2, <4>1, <5>1, <2>a, <2>c, <2>f DEF To, Message, TypeInv, WorkerOk
      <4>2. CASE transfer[d] = "complete"
        <5>1. To(d, "finish") /\ UNCHANGED <<messages, transfer, file>>
          BY <1>5, <4>2 DEF StatusOk
        <5> QED
          BY <3>2, <4>2, <5>1, <2>c, <2>f, <2>g DEF To, TypeInv, WorkerInv, WorkerOk
      <4>3. CASE transfer[d] \notin {"error", "complete"}
        <5>1. To(d, "commands") /\ UNCHANGED <<messages, transfer, file>>
          BY <1>5, <4>3 DEF StatusOk
        <5> QED
          BY <3>2, <5>1, <2>c, <2>f, <2>g DEF To, TypeInv, WorkerInv, WorkerOk
      <4> QED
        BY <4>1, <4>2, <4>3
    <3> QED
      BY <3>1, <3>2
  <2>3. WindowInv'
    BY <1>5, <2>g DEF StatusOk, To, Kill, Quiet, WindowInv
  <2>4. IntentOfItsDownload'
    BY <1>5, BoundAssumption, <2>a DEF StatusOk, To, Kill, Quiet, TypeInv, WindowInv,
        IntentOfItsDownload
  <2> QED
    BY <2>1, <2>2, <2>3, <2>4 DEF IInv
<1>6. ASSUME NEW d \in Id, Shutdown(d) PROVE IInv'
  <2>c. pc[d] \notin {"idle", "done"} /\ d <= count
    BY <1>6, BoundAssumption DEF Shutdown, TypeInv, WorkerInv, WorkerOk
  <2>e. \A e \in Id : e # d => messages'[e] = messages[e] /\ pc'[e] = pc[e]
    BY <1>6 DEF Shutdown, To, Kill, Quiet, Send, TypeInv
  <2>f. /\ count' = count /\ required' = required
        /\ \A e \in Id : e # d => transfer'[e] = transfer[e] /\ file'[e] = file[e]
    BY <1>6 DEF Shutdown, Quiet, TypeInv
  <2>g. \A e : Delivered(e) => Delivered(e)'
    BY <2>c, <2>e, <2>f, BoundAssumption DEF TypeInv, Delivered
  <2>1. TypeInv'
    BY <1>6, BoundAssumption DEF Shutdown, To, Kill, Quiet, TypeInv, Message, Point
  <2>2. WorkerInv'
    <3> SUFFICES ASSUME NEW e \in Id PROVE WorkerOk(e)'
      BY DEF WorkerInv
    <3>1. CASE e # d
      BY <3>1, <2>e, <2>f, <2>g DEF WorkerInv, WorkerOk
    <3>2. CASE e = d
      BY <1>6, <3>2, <2>c, <2>f, <2>g, BoundAssumption
      DEF Shutdown, To, Kill, Quiet, Message, TypeInv, WorkerInv, WorkerOk, Delivered
    <3> QED
      BY <3>1, <3>2
  <2>3. WindowInv'
    BY <1>6, <2>g DEF Shutdown, To, Kill, Quiet, WindowInv
  <2>4. IntentOfItsDownload'
    BY <1>6, BoundAssumption DEF Shutdown, To, Kill, Quiet, TypeInv, WindowInv,
        IntentOfItsDownload
  <2> QED
    BY <2>1, <2>2, <2>3, <2>4 DEF IInv
<1>7. ASSUME NEW d \in Id, Finish(d) PROVE IInv'
  <2>a. ASSUME NEW m \in Message, Send(d, m)
        PROVE  /\ messages' \in [Id -> Seq(Message)]
               /\ messages'[d] # <<>> /\ Last(messages'[d]) = m
               /\ \A e \in Id : e # d => messages'[e] = messages[e]
    BY <2>a, SendFacts DEF TypeInv
  <2>c. pc[d] \notin {"idle", "done"} /\ d <= count
    BY <1>7, BoundAssumption DEF Finish, TypeInv, WorkerInv, WorkerOk
  <2>e. \A e \in Id : e # d => messages'[e] = messages[e] /\ pc'[e] = pc[e]
    BY <1>7 DEF Finish, To, Kill, Quiet, Send, TypeInv
  <2>f. /\ count' = count /\ required' = required
        /\ \A e \in Id : e # d => transfer'[e] = transfer[e] /\ file'[e] = file[e]
    BY <1>7 DEF Finish, Quiet, TypeInv
  <2>g. \A e : Delivered(e) => Delivered(e)'
    BY <2>c, <2>e, <2>f, BoundAssumption DEF TypeInv, Delivered
  <2>1. TypeInv'
    BY <1>7, BoundAssumption, <2>a DEF Finish, To, Kill, Quiet, TypeInv, Message, Point
  <2>2. WorkerInv'
    <3> SUFFICES ASSUME NEW e \in Id PROVE WorkerOk(e)'
      BY DEF WorkerInv
    <3>1. CASE e # d
      BY <3>1, <2>e, <2>f, <2>g DEF WorkerInv, WorkerOk
    <3>2. CASE e = d
      BY <1>7, <3>2, <2>a, <2>c, <2>f, <2>g, BoundAssumption
      DEF Finish, To, Kill, Quiet, Message, TypeInv, WorkerInv, WorkerOk, Delivered
    <3> QED
      BY <3>1, <3>2
  <2>3. WindowInv'
    BY <1>7, <2>g DEF Finish, To, Kill, Quiet, WindowInv
  <2>4. IntentOfItsDownload'
    BY <1>7, BoundAssumption, <2>a DEF Finish, To, Kill, Quiet, TypeInv, WindowInv,
        IntentOfItsDownload
  <2> QED
    BY <2>1, <2>2, <2>3, <2>4 DEF IInv
<1>8. ASSUME NEW d \in Id, Verify(d) PROVE IInv'
  <2>a. ASSUME NEW m \in Message, Send(d, m)
        PROVE  /\ messages' \in [Id -> Seq(Message)]
               /\ messages'[d] # <<>> /\ Last(messages'[d]) = m
               /\ \A e \in Id : e # d => messages'[e] = messages[e]
    BY <2>a, SendFacts DEF TypeInv
  <2>c. pc[d] \notin {"idle", "done"} /\ d <= count
    BY <1>8, BoundAssumption DEF Verify, TypeInv, WorkerInv, WorkerOk
  <2>e. \A e \in Id : e # d => messages'[e] = messages[e] /\ pc'[e] = pc[e]
    BY <1>8 DEF Verify, To, Kill, Quiet, Send, TypeInv
  <2>f. /\ count' = count /\ required' = required
        /\ \A e \in Id : e # d => transfer'[e] = transfer[e] /\ file'[e] = file[e]
    BY <1>8 DEF Verify, Quiet, TypeInv
  <2>g. \A e : Delivered(e) => Delivered(e)'
    BY <2>c, <2>e, <2>f, BoundAssumption DEF TypeInv, Delivered
  <2>1. TypeInv'
    BY <1>8, BoundAssumption, <2>a DEF Verify, To, Kill, Quiet, TypeInv, Message, Point
  <2>2. WorkerInv'
    <3> SUFFICES ASSUME NEW e \in Id PROVE WorkerOk(e)'
      BY DEF WorkerInv
    <3>1. CASE e # d
      BY <3>1, <2>e, <2>f, <2>g DEF WorkerInv, WorkerOk
    <3>2. CASE e = d
      BY <1>8, <3>2, <2>a, <2>c, <2>f, <2>g, BoundAssumption
      DEF Verify, To, Kill, Quiet, Message, TypeInv, WorkerInv, WorkerOk, Delivered
    <3> QED
      BY <3>1, <3>2
  <2>3. WindowInv'
    BY <1>8, <2>g DEF Verify, To, Kill, Quiet, WindowInv
  <2>4. IntentOfItsDownload'
    BY <1>8, BoundAssumption, <2>a DEF Verify, To, Kill, Quiet, TypeInv, WindowInv,
        IntentOfItsDownload
  <2> QED
    BY <2>1, <2>2, <2>3, <2>4 DEF IInv
<1>9. ASSUME NEW d \in Id, Transfer(d) PROVE IInv'
  <2>f. /\ count' = count /\ required' = required /\ pc' = pc /\ messages' = messages
        /\ \A e \in Id : e # d => transfer'[e] = transfer[e] /\ file'[e] = file[e]
        /\ ~Delivered(d)
    BY <1>9 DEF Transfer, Quiet, TypeInv, Delivered
  <2>g. \A e : Delivered(e) => Delivered(e)'
    BY <2>f, BoundAssumption DEF TypeInv, Delivered
  <2>1. TypeInv'
    BY <1>9, BoundAssumption DEF Transfer, Quiet, TypeInv, Message, Point
  <2>2. WorkerInv'
    BY <1>9, BoundAssumption DEF Transfer, Quiet, TypeInv, Message, Point, WorkerInv, WorkerOk,
        Delivered
  <2>3. WindowInv'
    BY <1>9, <2>g DEF Transfer, Quiet, WindowInv
  <2>4. IntentOfItsDownload'
    BY <1>9, BoundAssumption DEF Transfer, Quiet, TypeInv, WindowInv, IntentOfItsDownload
  <2> QED
    BY <2>1, <2>2, <2>3, <2>4 DEF IInv
<1>10. ASSUME NEW d \in Id, DaemonDies(d) PROVE IInv'
  <2>g. \A e : Delivered(e) => Delivered(e)'
    BY <1>10 DEF DaemonDies, Quiet, Delivered
  <2>1. TypeInv'
    BY <1>10, BoundAssumption DEF DaemonDies, Kill, Quiet, TypeInv, Message, Point
  <2>2. WorkerInv'
    BY <1>10, BoundAssumption DEF DaemonDies, Kill, Quiet, TypeInv, Message, Point, WorkerInv,
        WorkerOk, Delivered
  <2>3. WindowInv'
    BY <1>10, <2>g DEF DaemonDies, Kill, Quiet, WindowInv
  <2>4. IntentOfItsDownload'
    BY <1>10, BoundAssumption DEF DaemonDies, Kill, Quiet, TypeInv, WindowInv, IntentOfItsDownload
  <2> QED
    BY <2>1, <2>2, <2>3, <2>4 DEF IInv
<1>11. CASE StartDownload
  <2>a. /\ count + 1 \in Id /\ count \in Nat
        /\ count' = count + 1 /\ current' = count + 1 /\ status' = "Running"
        /\ UNCHANGED <<messages, transfer, file>>
        /\ \A e \in Id : e # count + 1 => pc'[e] = pc[e] /\ required'[e] = required[e]
        /\ pc'[count + 1] = "begin"
    BY <1>11, BoundAssumption DEF StartDownload, To, TypeInv
  <2>g. \A e : Delivered(e) => Delivered(e)'
    BY <2>a, BoundAssumption DEF Delivered
  <2>1. TypeInv'
    BY <1>11, BoundAssumption, <2>a DEF StartDownload, To, Busy, TypeInv, Message, Point
  <2>2. WorkerInv'
    <3> SUFFICES ASSUME NEW e \in Id PROVE WorkerOk(e)'
      BY DEF WorkerInv
    <3>1. CASE e # count + 1
      BY <3>1, <2>a, <2>g, BoundAssumption DEF WorkerInv, WorkerOk
    <3>2. CASE e = count + 1
      BY <3>2, <2>a, BoundAssumption DEF WorkerInv, WorkerOk
    <3> QED
      BY <3>1, <3>2
  <2>3. WindowInv'
    <3>1. count + 1 \notin used /\ followUp = None /\ UNCHANGED <<followUp, used, job>>
      BY <1>11, <2>a DEF StartDownload, task, WindowInv, Delivered
    <3> QED
      BY <2>a, <2>g, <3>1 DEF WindowInv
  <2>4. IntentOfItsDownload'
    BY <1>11, BoundAssumption, <2>a DEF StartDownload, To, Busy, TypeInv, WindowInv,
        IntentOfItsDownload
  <2> QED
    BY <2>1, <2>2, <2>3, <2>4 DEF IInv
<1>12. CASE PressCancel
  <2>1. TypeInv'
    BY <1>12, BoundAssumption DEF PressCancel, AskCancel, TypeInv, Message, Point
  <2>2. WorkerInv'
    BY <1>12, BoundAssumption DEF PressCancel, AskCancel, TypeInv, Message, Point, WorkerInv,
        WorkerOk, Delivered
  <2>3. WindowInv'
    BY <1>12, BoundAssumption DEF PressCancel, AskCancel, TypeInv, WorkerInv, WorkerOk,
        WindowInv, IntentOfItsDownload, Delivered
  <2>4. IntentOfItsDownload'
    BY <1>12, BoundAssumption DEF PressCancel, AskCancel, TypeInv, WindowInv, IntentOfItsDownload
  <2> QED
    BY <2>1, <2>2, <2>3, <2>4 DEF IInv
<1>13. CASE CloseWindow
  <2>g. /\ \A e : Delivered(e) => Delivered(e)'
        /\ UNCHANGED <<count, current, followUp, used, job>>
    BY <1>13 DEF CloseWindow, Delivered
  <2>1. TypeInv'
    BY <1>13, BoundAssumption DEF CloseWindow, AskCancel, Busy, TypeInv, Message, Point
  <2>2. WorkerInv'
    BY <1>13, BoundAssumption DEF CloseWindow, AskCancel, Busy, TypeInv, Message, Point,
        WorkerInv, WorkerOk, Delivered
  <2>3. WindowInv'
    BY <1>13, <2>g DEF CloseWindow, Busy, TypeInv, WindowInv
  <2>4. IntentOfItsDownload'
    BY <1>13, BoundAssumption DEF CloseWindow, AskCancel, Busy, TypeInv, WindowInv,
        IntentOfItsDownload
  <2> QED
    BY <2>1, <2>2, <2>3, <2>4 DEF IInv
<1>14. CASE Poll
  <2> DEFINE answer == Last(messages[current])
  <2>a. current = count /\ count \in Id /\ answer \in Message
    BY <1>14, LastFacts, BoundAssumption DEF Poll, TypeInv
  <2>b. UNCHANGED <<pc, transfer, file, required, count>>
    BY <1>14 DEF Poll
  <2>c. \A e : Delivered(e) => Delivered(e)'
    BY <2>b DEF Delivered
  <2>1. TypeInv'
    BY <1>14, <2>a, <2>b DEF Poll, TypeInv, Message, Point
  <2>2. WorkerInv'
    BY <1>14, BoundAssumption, <2>a DEF Poll, CloseIfIdle, TypeInv, Message, Point, WorkerInv,
        WorkerOk, Delivered
  <2>3. WindowInv'
    <3>1. CASE answer = "Verifying"
      BY <1>14, <2>b, <2>c, <3>1 DEF Poll, WindowInv
    <3>2. CASE answer = "Completed"
      <4>1. Delivered(count)'
        BY <1>14, <2>a, <2>c, <3>2 DEF Poll, WorkerInv, WorkerOk
      <4>2. /\ status' = "Succeeded" /\ current' = None /\ ~cancellable'
            /\ followUp' \in {count, None} /\ count' = count
            /\ \/ used' = used /\ job' = job
               \/ used' = used \cup {count} /\ job' = count
        BY <1>14, <2>a, <2>b, <3>2 DEF Poll, IntentOfItsDownload
      <4> QED
        BY <2>a, <2>c, <4>1, <4>2 DEF WindowInv
    <3>3. CASE answer \in {"Failed", "Cancelled"}
      <4>1. /\ status' = answer /\ current' = None /\ ~cancellable' /\ followUp' = None
            /\ UNCHANGED <<count, used, job>>
        BY <1>14, <2>b, <3>3 DEF Poll
      <4> QED
        BY <1>14, <2>a, <2>c, <3>3, <4>1 DEF Poll, WindowInv
    <3> QED
      BY <2>a, <3>1, <3>2, <3>3 DEF Message
  <2>4. IntentOfItsDownload'
    BY <1>14, BoundAssumption, <2>a DEF Poll, CloseIfIdle, TypeInv, WindowInv, IntentOfItsDownload
  <2> QED
    BY <2>1, <2>2, <2>3, <2>4 DEF IInv
<1>15. CASE LeavePage
  <2>1. TypeInv'
    BY <1>15, BoundAssumption DEF LeavePage, Busy, TypeInv, Message, Point
  <2>2. WorkerInv'
    BY <1>15, BoundAssumption DEF LeavePage, Busy, TypeInv, Message, Point, WorkerInv, WorkerOk,
        Delivered
  <2>3. WindowInv'
    BY <1>15, BoundAssumption DEF LeavePage, Busy, TypeInv, WorkerInv, WorkerOk, WindowInv,
        IntentOfItsDownload, Delivered
  <2>4. IntentOfItsDownload'
    BY <1>15, BoundAssumption DEF LeavePage, Busy, TypeInv, WindowInv, IntentOfItsDownload
  <2> QED
    BY <2>1, <2>2, <2>3, <2>4 DEF IInv
<1>16. CASE JobEnds
  <2>1. TypeInv'
    BY <1>16, BoundAssumption DEF JobEnds, CloseIfIdle, TypeInv, Message, Point
  <2>2. WorkerInv'
    BY <1>16, BoundAssumption DEF JobEnds, CloseIfIdle, TypeInv, Message, Point, WorkerInv,
        WorkerOk, Delivered
  <2>3. WindowInv'
    BY <1>16, BoundAssumption DEF JobEnds, CloseIfIdle, TypeInv, WorkerInv, WorkerOk, WindowInv,
        IntentOfItsDownload, Delivered
  <2>4. IntentOfItsDownload'
    BY <1>16, BoundAssumption DEF JobEnds, CloseIfIdle, TypeInv, WindowInv, IntentOfItsDownload
  <2> QED
    BY <2>1, <2>2, <2>3, <2>4 DEF IInv
<1>17. CASE UNCHANGED vars
  BY <1>17 DEF vars, TypeInv, WorkerInv, WorkerOk, WindowInv, IntentOfItsDownload, Delivered
<1> QED
  BY <1>1, <1>2, <1>3, <1>4, <1>5, <1>6, <1>7, <1>8, <1>9, <1>10, <1>11, <1>12, <1>13, <1>14,
     <1>15, <1>16, <1>17
  DEF Next, Work

(* What the invariant says of the page.                                    *)
LEMMA OutcomeFollows == IInv => OutcomeTruthful
  BY BoundAssumption DEF IInv, TypeInv, WindowInv, Delivered, OutcomeTruthful, None

----------------------------------------------------------------------------

(* For any number of downloads, any limit of status errors and whatever    *)
(* aria2 does: success on the page means a whole file that matches its     *)
(* hash, after a failure or a cancellation nothing was done with the file, *)
(* and nothing is ever done with a file that failed its check.             *)
THEOREM OutcomeTruthfulHolds == Spec => []OutcomeTruthful
  BY InitIInv, NextIInv, OutcomeFollows, PTL DEF Spec

(* For any number of downloads: the recorded intent is that of the running *)
(* download, and what the window starts by itself it starts with the file  *)
(* of that download.                                                       *)
THEOREM IntentOfItsDownloadHolds == Spec => []IntentOfItsDownload
  BY InitIInv, NextIInv, PTL DEF Spec, IInv

=============================================================================
