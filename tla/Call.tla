---------------------------------- MODULE Call ----------------------------------
(***************************************************************************)
(* What a back-to-back user agent makes of a call, whatever happens on its  *)
(* two legs: the callee is dialled for a caller who is there, the caller is *)
(* told that the call is answered only when the callee has answered it, and *)
(* a leg that is over stays over. How the legs tell each other, and how one *)
(* of them ends when the other one does, is left to the implementation.     *)
(***************************************************************************)
VARIABLES
    phase,    \* of leg A, to the caller, and of leg O, to the callee
    answered  \* the legs whose INVITE had a 2xx that makes a dialog

vars == <<phase, answered>>

Phases == {"none", "setup", "up", "over"}

Init == phase = [u \in {"A", "O"} |-> "none"] /\ answered = {}

Goes(u, from, to) == phase[u] = from /\ phase' = [phase EXCEPT ![u] = to]

\* The caller's INVITE.
Offer == Goes("A", "none", "setup") /\ UNCHANGED answered

\* The INVITE to the callee, for a caller who may have given up since.
Dial == phase["A"] # "none" /\ Goes("O", "none", "setup") /\ UNCHANGED answered

\* The callee answers.
Answer == Goes("O", "setup", "up") /\ answered' = answered \cup {"O"}

\* The caller gets the answer, when the callee may have hung up already.
Tell == "O" \in answered /\ Goes("A", "setup", "up") /\ answered' = answered \cup {"A"}

\* The callee's answer crosses the end of the call.
AnswerTooLate == phase["O"] = "over" /\ answered' = answered \cup {"O"} /\ UNCHANGED phase

\* Any message, timer or signal ends a leg, also one that never began.
End(u) ==
    /\ phase["A"] # "none" /\ phase[u] # "over"
    /\ phase' = [phase EXCEPT ![u] = "over"]
    /\ UNCHANGED answered

Next == Offer \/ Dial \/ Answer \/ Tell \/ AnswerTooLate \/ \E u \in {"A", "O"} : End(u)

Spec == Init /\ [][Next]_vars
=============================================================================
