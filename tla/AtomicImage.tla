---------------------------- MODULE AtomicImage ----------------------------
(***************************************************************************)
(* What backup_atomic_publish.rs promises its caller: the public name      *)
(* switches once from the old image to the new one.  Before the switch is  *)
(* decided the new image may be withdrawn; afterwards it never is, and Ok  *)
(* is answered only after the decision.                                    *)
(***************************************************************************)
VARIABLES image, decided, answer
avars == <<image, decided, answer>>

Init == image = "old" /\ decided = FALSE /\ answer = "none"

\* Only a success needs a decision; an error or a lost answer may come anytime.
Answers == answer' \in {"none", "error"} \/ (decided /\ answer' = "ok")

Publish == image = "old" /\ image' = "new" /\ decided' \in BOOLEAN /\ answer' \in {"none", "error"}
Withdraw == ~decided /\ image = "new" /\ image' = "old" /\ decided' = FALSE
            /\ answer' \in {"none", "error"}
Decide == image = "new" /\ ~decided /\ decided' = TRUE /\ image' = image
          /\ answer' \in {"none", "error"}
Reply == Answers /\ UNCHANGED <<image, decided>>

Next == Publish \/ Withdraw \/ Decide \/ Reply
Spec == Init /\ [][Next]_avars
=============================================================================
