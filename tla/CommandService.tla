--------------------------- MODULE CommandService ---------------------------
(***************************************************************************)
(* What the handlers rely on when they issue a command: it takes effect    *)
(* once, it is answered once, after its effect, and it is answered at all. *)
(***************************************************************************)
CONSTANT Cmds
VARIABLE status

Init == status = [c \in Cmds |-> "idle"]

Issue(c) == status[c] = "idle" /\ status' = [status EXCEPT ![c] = "issued"]
Effect(c) == status[c] = "issued" /\ status' = [status EXCEPT ![c] = "done"]
Answer(c) == status[c] = "done" /\ status' = [status EXCEPT ![c] = "idle"]

Next == \E c \in Cmds : Issue(c) \/ Effect(c) \/ Answer(c)

Spec == /\ Init /\ [][Next]_status
        /\ \A c \in Cmds : WF_status(Effect(c)) /\ WF_status(Answer(c))
=============================================================================
